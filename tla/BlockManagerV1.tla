--------------------------- MODULE BlockManagerV1 ---------------------------
(***************************************************************************)
(* The block manager of vllm/core/block_manager_v1.py with the             *)
(* UncachedBlockAllocator, driven by every order of calls the scheduler    *)
(* and the output processor can make.                                      *)
(*                                                                         *)
(* Each allocator keeps a list of free blocks and a reference count per    *)
(* block.  The list is a set here: which free block pop() returns is never *)
(* observed, so an allocation takes any.  A loop of allocate() and free()  *)
(* calls over block tables is one step: in Update, times says how often     *)
(* every block is freed, acq which blocks are taken and with which count.  *)
(* An exception ends the engine: the step that raises sets err, nothing    *)
(* else, and err disables every action.                                    *)
(*                                                                         *)
(* A definition named Bug... is the one that follows it with a mistake in  *)
(* it; no other definition uses it.                                        *)
(***************************************************************************)
EXTENDS SequenceGroups, Sequences, Integers, Functions

CONSTANTS
    GpuBlocks,            \* blocks of gpu_allocator
    CpuBlocks,            \* blocks of cpu_allocator
    WatermarkBlocks,      \* int(watermark * num_gpu_blocks)
    BlockSlidingWindow    \* sliding_window // block_size, 0 for None

ASSUME BlockManagerAssumption ==
    /\ IsFiniteSet(GpuBlocks)
    /\ IsFiniteSet(CpuBlocks)
    /\ GpuBlocks \cap CpuBlocks = {}
    /\ WatermarkBlocks \in Nat
    /\ BlockSlidingWindow \in Nat

VARIABLES
    blockTables,     \* block_tables; << >> for a sequence without an entry
    refCount,        \* PhysicalTokenBlock.ref_count
    freeBlocks,      \* the blocks on the two free_blocks lists
    scheduled,       \* sequences given a slot, whose output is not processed
    sampled,         \* sequences given a token since the last scheduling
    granted,         \* sequences _append_slots has yet to go through: it does
                     \* not ask again whether there is room for them
    err              \* the exception that stopped the engine, or "none"

blockVars == <<blockTables, refCount, freeBlocks>>
vars == <<status, len, blockTables, refCount, freeBlocks, scheduled, sampled, granted,
          err>>

Blocks == GpuBlocks \cup CpuBlocks
GpuFree == freeBlocks \cap GpuBlocks
CpuFree == freeBlocks \cap CpuBlocks
HasTable(s) == blockTables[s] # << >>
BlocksOf(S) == UNION {Range(blockTables[s]) : s \in S}
MinOf(i, j) == IF i <= j THEN i ELSE j
-----------------------------------------------------------------------------
(***************************************************************************)
(* The operations of BlockSpaceManagerV1                                   *)
(***************************************************************************)

\* The blocks _free_block_table frees for a table: the set of its entries,
\* or of its last BlockSlidingWindow entries.
LiveBlocks(t) ==
    LET first == IF BlockSlidingWindow = 0 \/ Len(t) <= BlockSlidingWindow
                 THEN 1 ELSE Len(t) - BlockSlidingWindow + 1
    IN  {t[i] : i \in first..Len(t)}

Raise(e) ==
    err' = e /\ UNCHANGED <<status, len, scheduled, sampled, granted>> /\ UNCHANGED blockVars

\* acq maps the blocks taken off a free list to the count they are given;
\* times(b) is the number of free() calls on b.
Update(acq, times(_)) ==
    /\ refCount' = [b \in Blocks |-> IF b \in DOMAIN acq THEN acq[b]
                                     ELSE refCount[b] - times(b)]
    /\ freeBlocks' = (freeBlocks \ DOMAIN acq)
                     \cup {b \in Blocks : times(b) > 0 /\ times(b) = refCount[b]}

NoBlocks == [b \in {} |-> 0]
Never(b) == 0

\* n calls of UncachedBlockAllocator.allocate(): the last ones find no block.
RunsOut(free, n) == Cardinality(free) < n

\* The different blocks allocate() takes for the prompt of s.
PromptBlocks(s) == IF BlockSlidingWindow = 0 THEN NumLogicalBlocks(s)
                   ELSE MinOf(NumLogicalBlocks(s), BlockSlidingWindow)

CanAllocate(g, s) ==
    LET required == PromptBlocks(s)
    IN  IF Cardinality(GpuBlocks) - required < WatermarkBlocks THEN "NEVER"
        ELSE IF Cardinality(GpuFree) - required >= WatermarkBlocks THEN "OK"
        ELSE "LATER"

\* allocate() gives a long prompt more blocks than the window has.
BugAllocateTables(g, s) ==
    LET n == NumLogicalBlocks(s)
    IN  \E new \in Injection(1..n, GpuFree) :
          /\ blockTables' = [q \in Seqs |->
                IF q \in SeqsWith(g, "WAITING") THEN new ELSE blockTables[q]]
          /\ Update([b \in Range(new) |-> NumSeqs(g)], Never)

\* allocate(): one table for every WAITING sequence of g, built for the first
\* of them, s.  The counts are num_seqs(), finished members included.
AllocateTables(g, s) ==
    LET n == NumLogicalBlocks(s)
        k == PromptBlocks(s)
    IN  \E new \in Injection(1..k, GpuFree) :
          /\ blockTables' = [q \in Seqs |->
                IF q \in SeqsWith(g, "WAITING")
                THEN [i \in 1..n |-> new[((i - 1) % k) + 1]]
                ELSE blockTables[q]]
          /\ Update([b \in Range(new) |-> NumSeqs(g)], Never)

\* One sequence of the group too many.
BugCanAppendSlots(S) == Cardinality(S) <= Cardinality(GpuFree) + 1

CanAppendSlots(S) == Cardinality(S) <= Cardinality(GpuFree)

\* append_slots(): the table as it stands once a window entry is reused.
NeedsBlock(s) == Len(blockTables[s]) < NumLogicalBlocks(s)
ReusesBlock(s) == /\ NeedsBlock(s)
                  /\ BlockSlidingWindow > 0
                  /\ Len(blockTables[s]) >= BlockSlidingWindow
\* The entry of the window before the one to reuse.
BugSlotTable(s) ==
    LET t == blockTables[s]
    IN  IF ReusesBlock(s)
        THEN Append(t, t[((Len(t) - 1) % BlockSlidingWindow) + 1])
        ELSE t

SlotTable(s) ==
    LET t == blockTables[s]
    IN  IF ReusesBlock(s)
        THEN Append(t, t[(Len(t) % BlockSlidingWindow) + 1])
        ELSE t
LastBlock(t) == t[Len(t)]

\* The block appended stays on the free list.
BugAppendNewBlock(s) ==
    /\ NeedsBlock(s) /\ ~ReusesBlock(s)
    /\ \E b \in GpuFree :
         /\ blockTables' = [blockTables EXCEPT ![s] = Append(@, b)]
         /\ refCount' = [refCount EXCEPT ![b] = 1]
         /\ UNCHANGED freeBlocks

\* The token goes to a block that is allocated and appended to the table ...
AppendNewBlock(s) ==
    /\ NeedsBlock(s) /\ ~ReusesBlock(s)
    /\ \E b \in GpuFree :
         /\ blockTables' = [blockTables EXCEPT ![s] = Append(@, b)]
         /\ Update([x \in {b} |-> 1], Never)

\* A shared last block is written in place.
BugAppendInPlace(s) ==
    /\ ~NeedsBlock(s) \/ ReusesBlock(s)
    /\ refCount[LastBlock(SlotTable(s))] >= 1
    /\ blockTables' = [blockTables EXCEPT ![s] = SlotTable(s)]
    /\ UNCHANGED <<refCount, freeBlocks>>

\* ... or into the last block of the table, when no other sequence holds it ...
AppendInPlace(s) ==
    /\ ~NeedsBlock(s) \/ ReusesBlock(s)
    /\ refCount[LastBlock(SlotTable(s))] = 1
    /\ blockTables' = [blockTables EXCEPT ![s] = SlotTable(s)]
    /\ UNCHANGED <<refCount, freeBlocks>>

\* ... or, copy on write, into a copy of the last block of the table t.
CopyLastBlock(s, t) ==
    /\ refCount[LastBlock(t)] > 1
    /\ \E b \in GpuFree :
         /\ blockTables' = [blockTables EXCEPT ![s] = [t EXCEPT ![Len(t)] = b]]
         /\ Update([x \in {b} |-> 1],
                   LAMBDA x : IF x = LastBlock(t) THEN 1 ELSE 0)
AppendCopyOnWrite(s) ==
    /\ ~NeedsBlock(s) \/ ReusesBlock(s)
    /\ CopyLastBlock(s, SlotTable(s))

\* The exceptions of append_slots().
AppendError(s) ==
    \/ /\ NeedsBlock(s)
       /\ Len(blockTables[s]) # NumLogicalBlocks(s) - 1
       /\ Raise("assertion")
    \/ /\ GpuFree = {}
       /\ \/ NeedsBlock(s) /\ ~ReusesBlock(s)
          \/ refCount[LastBlock(SlotTable(s))] # 1
       /\ Raise("out of memory")
    \/ /\ ~NeedsBlock(s) \/ ReusesBlock(s)
       /\ refCount[LastBlock(SlotTable(s))] = 0
       /\ Raise("double free")

\* The child's references are not counted.
BugForkTable(p, c) ==
    /\ blockTables' = [blockTables EXCEPT ![c] = blockTables[p]]
    /\ UNCHANGED <<refCount, freeBlocks>>

\* fork(): the count of every block in the table goes up by one.
ForkTable(p, c) ==
    /\ blockTables' = [blockTables EXCEPT ![c] = blockTables[p]]
    /\ refCount' = [b \in Blocks |-> IF b \in Range(blockTables[p])
                                     THEN refCount[b] + 1 ELSE refCount[b]]
    /\ UNCHANGED freeBlocks

\* No room is asked for the slots of the sequences that come back.
BugCanSwapIn(g) ==
    Cardinality(GpuFree) - Cardinality(BlocksOf(Unfinished(g))) >= WatermarkBlocks

CanSwapIn(g) ==
    Cardinality(GpuFree)
        - (Cardinality(BlocksOf(Unfinished(g))) + Cardinality(SeqsWith(g, "SWAPPED")))
      >= WatermarkBlocks

CanSwapOut(g) ==
    Cardinality(BlocksOf(Unfinished(g))) <= Cardinality(CpuFree)

\* The entries of the tables of S that are b: swap_in() and swap_out() free b
\* once for each.
Entries(b, S) ==
    {e \in UNION {{s} \X DOMAIN blockTables[s] : s \in S} :
        blockTables[e[1]][e[2]] = b}

NumEntries(b, S) == Cardinality(Entries(b, S))
CanMove(S) == \A b \in BlocksOf(S) : NumEntries(b, S) <= refCount[b]

\* The mapping is not shared by the tables of S ...
BugMoveTables(S, free) ==
    \E m \in Injection(UNION {{s} \X DOMAIN blockTables[s] : s \in S}, free) :
      /\ blockTables' = [s \in Seqs |->
            IF s \in S THEN [i \in DOMAIN blockTables[s] |-> m[<<s, i>>]]
            ELSE blockTables[s]]
      /\ Update([x \in Range(m) |-> 1], LAMBDA b : NumEntries(b, S))

\* ... or a block is freed once for each of the tables, if it is in any.
BugMoveTablesFree(S, free) ==
    \E m \in Injection(BlocksOf(S), free) :
      /\ blockTables' = [s \in Seqs |->
            IF s \in S THEN [i \in DOMAIN blockTables[s] |-> m[blockTables[s][i]]]
            ELSE blockTables[s]]
      /\ Update([x \in Range(m) |-> Cardinality(S)],
                LAMBDA b : IF b \in BlocksOf(S) THEN Cardinality(S) ELSE 0)

\* swap_in() and swap_out() over the tables of S: a block of the other device
\* for every block in them, one reference to it for every entry mapped to it.
MoveTables(S, free) ==
    \E m \in Injection(BlocksOf(S), free) :
      /\ blockTables' = [s \in Seqs |->
            IF s \in S THEN [i \in DOMAIN blockTables[s] |-> m[blockTables[s][i]]]
            ELSE blockTables[s]]
      /\ Update([x \in Range(m) |->
                    NumEntries(CHOOSE b \in BlocksOf(S) : m[b] = x, S)],
                LAMBDA b : NumEntries(b, S))

\* The exceptions of swap_in() and swap_out().
MoveError(S, free) ==
    \/ RunsOut(free, Cardinality(BlocksOf(S))) /\ Raise("out of memory")
    \/ ~CanMove(S) /\ Raise("double free")

\* free() of every sequence of S.
NumFrees(b, S) == Cardinality({s \in S : b \in LiveBlocks(blockTables[s])})
CanFree(S) == \A b \in Blocks : NumFrees(b, S) <= refCount[b]

\* A block goes back to the free list while others hold it.
BugFreeTables(S) ==
    /\ blockTables' = [s \in Seqs |-> IF s \in S THEN << >> ELSE blockTables[s]]
    /\ refCount' = [b \in Blocks |-> refCount[b] - NumFrees(b, S)]
    /\ freeBlocks' = freeBlocks \cup BlocksOf(S)

FreeTables(S) ==
    /\ blockTables' = [s \in Seqs |-> IF s \in S THEN << >> ELSE blockTables[s]]
    /\ Update(NoBlocks, LAMBDA b : NumFrees(b, S))
-----------------------------------------------------------------------------
(***************************************************************************)
(* The calls of the scheduler and of the output processor                  *)
(***************************************************************************)
Alive == err = "none"

\* _append_slots goes through all the sequences of a group before anything else
\* happens.
Ready == Alive /\ granted = {}

\* A scheduling round starts when the outputs of the last one are processed.
Scheduling == Ready /\ (scheduled = {} \/ sampled = {})
SetStatus(S, st) == status' = [s \in Seqs |-> IF s \in S THEN st ELSE status[s]]

\* StopChecker.maybe_stop_sequence finishes such a sequence as soon as its
\* token is appended, before the scheduler sees it again.
TooLong(s) == len[s] > MaxModelLen

\* Scheduler._allocate_and_set_running, once can_allocate() said OK.
Allocate(g) ==
    /\ Scheduling
    /\ \E s \in SeqsWith(g, "WAITING") :
         /\ CanAllocate(g, s) = "OK"
         /\ \/ /\ AllocateTables(g, s)
               /\ SetStatus(SeqsWith(g, "WAITING"), "RUNNING")
               /\ scheduled' = scheduled \cup SeqsWith(g, "WAITING")
               /\ sampled' = {}
               /\ UNCHANGED <<len, granted, err>>
            \/ RunsOut(GpuFree, PromptBlocks(s)) /\ Raise("out of memory")

\* The sequences the loop of Scheduler._append_slots still goes through when it
\* is the turn of s: all the running ones of its group when the loop starts.
Turns(s) == IF granted = {} THEN SeqsWith(GroupOf[s], "RUNNING") ELSE granted

\* One turn of that loop.  can_append_slots() is asked before the first one, for
\* the whole group, and not at all for a group that was swapped in.
AppendSlots(s) ==
    /\ Alive
    /\ s \in Turns(s) \ scheduled
    /\ granted = {} => /\ Scheduling
                       /\ \A q \in Turns(s) : ~TooLong(q)
                       /\ CanAppendSlots(Turns(s))
    /\ \/ /\ AppendNewBlock(s) \/ AppendInPlace(s) \/ AppendCopyOnWrite(s)
          /\ scheduled' = scheduled \cup {s}
          /\ sampled' = {}
          /\ granted' = Turns(s) \ scheduled'
          /\ UNCHANGED <<status, len, err>>
       \/ AppendError(s)

\* The model runs a group as a whole.
Ran(s) == s \in scheduled /\ SeqsWith(GroupOf[s], "RUNNING") \subseteq scheduled \cup sampled

\* The model ran and sampled a token for s.
AppendToken(s) ==
    /\ Ready
    /\ Ran(s)
    /\ len' = [len EXCEPT ![s] = @ + 1]
    /\ scheduled' = scheduled \ {s}
    /\ sampled' = sampled \cup {s}
    /\ UNCHANGED <<status, granted, err>> /\ UNCHANGED blockVars

\* The model ran on a chunk of the prompt of s: nothing is sampled.
SkipSample(s) ==
    /\ Ready
    /\ Ran(s)
    /\ scheduled' = scheduled \ {s}
    /\ UNCHANGED <<status, len, sampled, granted, err>> /\ UNCHANGED blockVars

\* A second token was sampled from p: Sequence.fork, SequenceGroup.add and
\* Scheduler.fork_seq, unless the child is finished by its first token.
Fork(p, c) ==
    /\ Ready
    /\ GroupOf[c] = GroupOf[p] /\ status[c] = "UNUSED"
    /\ status[p] = "RUNNING" /\ p \in sampled
    /\ BestOf[GroupOf[p]] > 1
    /\ len' = [len EXCEPT ![c] = len[p]]
    /\ \/ ~TooLong(p) /\ SetStatus({c}, "RUNNING") /\ ForkTable(p, c)
       \/ SetStatus({c}, "FINISHED") /\ UNCHANGED blockVars
    /\ sampled' = sampled \cup {c}
    /\ UNCHANGED <<scheduled, granted, err>>

\* Sequences that stop, are ignored or aborted keep their place in the group.
Finish(S) ==
    /\ Ready
    /\ \/ /\ CanFree(S) /\ FreeTables(S)
          /\ SetStatus(S, "FINISHED")
          /\ scheduled' = scheduled \ S
          /\ sampled' = sampled \ S
          /\ UNCHANGED <<len, granted, err>>
       \/ ~CanFree(S) /\ Raise("double free")

Stop(s) == status[s] = "RUNNING" /\ s \in sampled /\ Finish({s})
Abort(g) == Unfinished(g) # {} /\ Finish(Unfinished(g))

\* Beam search drops a running sequence that no sample continues or that is not
\* among the best, or a finished one that is no longer among the best.
RemoveSeq(s) ==
    /\ Ready
    /\ GroupOf[s] \in BeamGroups
    /\ \/ status[s] = "RUNNING" /\ (Ran(s) \/ s \in sampled)
       \/ status[s] = "FINISHED"
    /\ \/ /\ CanFree({s}) /\ FreeTables({s})
          /\ SetStatus({s}, "UNUSED")
          /\ len' = [len EXCEPT ![s] = 0]
          /\ scheduled' = scheduled \ {s}
          /\ sampled' = sampled \ {s}
          /\ UNCHANGED <<granted, err>>
       \/ ~CanFree({s}) /\ Raise("double free")

\* Scheduler._preempt takes groups that have no slot in this round yet.
Preemptible(g) ==
    LET S == SeqsWith(g, "RUNNING")
    IN  S # {} /\ S \cap scheduled = {} /\ \A s \in S : ~TooLong(s)

\* The blocks of the recomputed group are not freed.
BugPreemptByRecompute(g) ==
    LET S == SeqsWith(g, "RUNNING") IN
    /\ Scheduling
    /\ Preemptible(g) /\ MaxNumRunningSeqs(g) = 1
    /\ SetStatus(S, "WAITING")
    /\ sampled' = {}
    /\ UNCHANGED <<len, scheduled, granted, err>> /\ UNCHANGED blockVars

\* Scheduler._preempt_by_recompute.
PreemptByRecompute(g) ==
    LET S == SeqsWith(g, "RUNNING") IN
    /\ Scheduling
    /\ Preemptible(g) /\ MaxNumRunningSeqs(g) = 1
    /\ \/ /\ Cardinality(S) = 1 /\ CanFree(S)
          /\ FreeTables(S)
          /\ SetStatus(S, "WAITING")
          /\ sampled' = {}
          /\ UNCHANGED <<len, scheduled, granted, err>>
       \/ Cardinality(S) # 1 /\ Raise("assertion")
       \/ Cardinality(S) = 1 /\ ~CanFree(S) /\ Raise("double free")

\* Scheduler._preempt_by_swap.
PreemptBySwap(g) ==
    LET S == SeqsWith(g, "RUNNING") IN
    /\ Scheduling
    /\ Preemptible(g) /\ MaxNumRunningSeqs(g) # 1
    /\ \/ /\ CanSwapOut(g) /\ CanMove(S)
          /\ MoveTables(S, CpuFree)
          /\ SetStatus(S, "SWAPPED")
          /\ sampled' = {}
          /\ UNCHANGED <<len, scheduled, granted, err>>
       \/ ~CanSwapOut(g) /\ Raise("no CPU swap space")
       \/ CanSwapOut(g) /\ MoveError(S, CpuFree)

\* Scheduler._swap_in, once can_swap_in() said yes.  _append_slots comes next.
SwapIn(g) ==
    LET S == SeqsWith(g, "SWAPPED") IN
    /\ Scheduling
    /\ S # {} /\ CanSwapIn(g)
    /\ \/ /\ CanMove(S)
          /\ MoveTables(S, GpuFree)
          /\ SetStatus(S, "RUNNING")
          /\ sampled' = {}
          /\ granted' = S
          /\ UNCHANGED <<len, scheduled, err>>
       \/ MoveError(S, GpuFree)

\* A new request: its group is built around a fresh prompt sequence.
AddRequest(g) ==
    /\ Ready
    /\ Unfinished(g) = {}
    /\ status' = [s \in Seqs |-> IF s = Parent[g] THEN "WAITING"
                                 ELSE IF GroupOf[s] = g THEN "UNUSED" ELSE status[s]]
    /\ len' = [s \in Seqs |-> IF s = Parent[g] THEN PromptLen[g]
                              ELSE IF GroupOf[s] = g THEN 0 ELSE len[s]]
    /\ sampled' = {s \in sampled : GroupOf[s] # g}
    /\ UNCHANGED <<scheduled, granted, err>> /\ UNCHANGED blockVars
-----------------------------------------------------------------------------
Init ==
    /\ SequencesInit
    /\ blockTables = [s \in Seqs |-> << >>]
    /\ refCount = [b \in Blocks |-> 0]
    /\ freeBlocks = Blocks
    /\ scheduled = {}
    /\ sampled = {}
    /\ granted = {}
    /\ err = "none"

GroupStep(g) ==
    \/ AddRequest(g)
    \/ Allocate(g)
    \/ PreemptByRecompute(g)
    \/ PreemptBySwap(g)
    \/ SwapIn(g)
    \/ Abort(g)

SeqStep(s) ==
    \/ AppendSlots(s)
    \/ AppendToken(s)
    \/ SkipSample(s)
    \/ Stop(s)
    \/ RemoveSeq(s)
    \/ \E c \in Seqs : Fork(s, c)

Next == (\E g \in Groups : GroupStep(g)) \/ (\E s \in Seqs : SeqStep(s))

Spec == Init /\ [][Next]_vars
-----------------------------------------------------------------------------
(***************************************************************************)
(* What the block manager must keep true                                   *)
(***************************************************************************)
Holders(b) == {s \in Seqs : b \in LiveBlocks(blockTables[s])}

Errors == {"none", "out of memory", "double free", "assertion", "no CPU swap space"}

\* Every variable has its type.
TypeOK ==
    /\ SequencesTypeOK
    /\ blockTables \in [Seqs -> Seq(Blocks)]
    /\ refCount \in [Blocks -> Nat]
    /\ freeBlocks \subseteq Blocks
    /\ scheduled \subseteq Seqs
    /\ sampled \subseteq Seqs
    /\ granted \subseteq Seqs
    /\ err \in Errors

\* A block's reference count is the number of sequences that hold it, and the
\* block is on a free list exactly when that number is 0: whatever the order of
\* allocations, forks, copies on write, swaps and frees, no block is lost and
\* none is handed out twice (allocate, append_slots, fork, swap_in, swap_out,
\* free).
RefCountExact ==
    \A b \in Blocks : /\ refCount[b] = Cardinality(Holders(b))
                      /\ b \in freeBlocks <=> refCount[b] = 0

\* The checks made by can_allocate, can_append_slots, can_swap_in and
\* can_swap_out are enough: no call made after them runs out of blocks, frees a
\* block twice or finds a table that is more than one block short.  Swap space
\* is the only resource whose lack is an error.
NoBlockError == err \in {"none", "no CPU swap space"}

\* Once every sequence is freed, every block is on its free list again.
FreeReturnsEveryBlock == (\A s \in Seqs : ~HasTable(s)) => freeBlocks = Blocks

\* The token the next forward pass writes for a sequence goes to a slot that
\* exists and that no other sequence can see: copy on write in append_slots has
\* split the last block from every sibling.
ScheduledSlotIsExclusive ==
    \A s \in scheduled :
        LET t == blockTables[s] IN
        /\ status[s] = "RUNNING"
        /\ Len(t) = NumLogicalBlocks(s)
        /\ Holders(LastBlock(t)) = {s}

\* A running sequence reads its tokens from GPU blocks, a swapped one keeps
\* them in CPU blocks, and every other sequence holds no block at all.
TablesAreOnTheRightDevice ==
    \A s \in Seqs :
        /\ status[s] = "RUNNING" => HasTable(s) /\ BlocksOf({s}) \subseteq GpuBlocks
        /\ status[s] = "SWAPPED" => HasTable(s) /\ BlocksOf({s}) \subseteq CpuBlocks
        /\ status[s] \in {"UNUSED", "WAITING", "FINISHED"} => ~HasTable(s)

\* With a sliding window of n blocks, any n consecutive logical blocks of a
\* sequence are in n different physical blocks: appending a token never
\* overwrites one that attention still reads (append_slots, allocate).
WindowIsNotOverwritten ==
    \A s \in Seqs : \A i, j \in DOMAIN blockTables[s] :
        i < j /\ (BlockSlidingWindow = 0 \/ j - i < BlockSlidingWindow)
            => blockTables[s][i] # blockTables[s][j]

Becomes(s, before, after) == status[s] = before /\ status'[s] = after

\* swap_out and swap_in keep what siblings share: the tables of two sequences
\* that move together agree at a place after the move exactly when they agreed
\* there before it.
SwapKeepsSharing ==
    [][\A s, q \in Seqs :
        (\A r \in {s, q} : \/ Becomes(r, "RUNNING", "SWAPPED")
                           \/ Becomes(r, "SWAPPED", "RUNNING")) =>
        \A i \in DOMAIN blockTables[s] \cap DOMAIN blockTables[q] :
            (blockTables[s][i] = blockTables[q][i])
                <=> (blockTables'[s][i] = blockTables'[q][i])]_vars

\* Admitting a group, new or swapped, leaves the watermark free, and a swapped
\* one can be given all its slots right away (can_allocate, can_swap_in).
AdmissionLeavesRoom ==
    [][\A g \in Groups :
        LET back == {s \in Seqs : GroupOf[s] = g /\ Becomes(s, "SWAPPED", "RUNNING")}
            new == {s \in Seqs : GroupOf[s] = g /\ Becomes(s, "WAITING", "RUNNING")}
        IN  back \cup new # {} =>
              Cardinality(GpuFree') >= WatermarkBlocks + Cardinality(back)]_vars

\* The manager implements the pool: a block is idle or belongs to sequences of
\* one group, as _get_physical_blocks assumes, and reaches another group only
\* through a free list.
Pool == INSTANCE BlockPool WITH owners <- [b \in Blocks |-> Holders(b)],
                                idle <- freeBlocks
ImplementsPool == Pool!PoolSpec
=============================================================================
