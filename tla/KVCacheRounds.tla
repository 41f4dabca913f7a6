--------------------------- MODULE KVCacheRounds ---------------------------
(***************************************************************************)
(* Scheduling rounds over the block manager the engine was started with,   *)
(* the worker's copies of blocks, and what the models write into them:     *)
(* does every sequence find its own keys and values?                       *)
(*                                                                         *)
(* Scheduling is the default policy's: rounds of prefills, or of decodes   *)
(* in arrival order with preemption from the end, then swap-ins.  The      *)
(* budgets that end a round of prefills early are left out: a round may    *)
(* admit any of the waiting requests.                                      *)
(***************************************************************************)
EXTENDS PrefixCaching, BlockManagerV2, SpeculativeDecoding
-----------------------------------------------------------------------------
(***************************************************************************)
(* A scheduling round                                                      *)
(***************************************************************************)
SetStatus(S, st) == status' = [s \in Seqs |-> IF s \in S THEN st ELSE status[s]]

\* The sequences of S whose request came first, and last.
Earliest(S) == {s \in S : \A q \in S : <<Owner[q], Owner[s]>> \notin arrival}
Latest(S) == {s \in S : \A q \in S : <<Owner[s], Owner[q]>> \notin arrival}

Running == {s \in Seqs : status[s] = "RUNNING"}
Swapped == {s \in Seqs : status[s] = "SWAPPED"}

\* LLMEngine.add_request.
AddRequest(r, p) ==
    /\ phase = "idle"
    /\ Live(r) = {}
    /\ status' = [status EXCEPT ![First[r]] = "WAITING"]
    /\ tokens' = [tokens EXCEPT ![First[r]] = p]
    /\ arrival' = arrival \cup ({q \in Requests : Live(q) # {}} \X {r})
    /\ UNCHANGED <<setup, phase, todo, batch, pending>>
    /\ UNCHANGED blockVars /\ UNCHANGED cacheVars

\* One round of _schedule_prefills: not while a group is swapped out.
Admit(s) ==
    /\ phase \in {"idle", "prefill"}
    /\ Swapped = {}
    /\ status[s] = "WAITING"
    /\ LeavesWatermark(NumBlocks(s))
    /\ IF UsesV2 THEN AllocateTableV2(s) ELSE AllocateTable(s)
    /\ SetStatus({s}, "RUNNING")
    /\ phase' = "prefill"
    /\ batch' = batch \cup {s}
    /\ UNCHANGED <<setup, tokens, arrival, todo>> /\ UNCHANGED cacheVars

\* No prompt is scheduled: _schedule_running takes the running queue.
StartDecode ==
    /\ phase = "idle"
    /\ Running \cup Swapped # {}
    /\ phase' = "decode"
    /\ todo' = Running
    /\ UNCHANGED <<batch, pending>>
    /\ UNCHANGED seqVars /\ UNCHANGED blockVars /\ UNCHANGED cacheVars

\* can_append_slots() is asked once, for the whole group at the head, and not
\* for a group that was just swapped in.
Group(s) == SeqsWith(Owner[s], "RUNNING")
SwappedIn == phase = "decode" /\ pending.moves # {}
HasSlots(s) ==
    \/ SwappedIn
    \/ Group(s) \cap batch # {}
    \/ IF UsesV2 THEN CanAppendSlotsV2(Group(s)) ELSE CanAppendSlots(Group(s))

\* A round of decodes that preempted a group does not swap another in.
Decoding == phase \in {"decode", "preempted"}

AppendSlots(s) ==
    /\ Decoding
    /\ s \in Earliest(todo)
    /\ HasSlots(s)
    /\ IF UsesV2 THEN AppendTokenIds(s) ELSE AppendSlot(s)
    /\ todo' = todo \ {s}
    /\ batch' = batch \cup {s}
    /\ UNCHANGED phase /\ UNCHANGED seqVars /\ UNCHANGED cacheVars

\* Speculative decoding supports one sequence per request only.
Beams == IF NumLookaheadSlots > 0 THEN {} ELSE BeamRequests

\* The last group of the queue, or the group itself, makes room for the first.
Victim(s) == s \in Latest(todo) /\ \E q \in Earliest(todo) : ~HasSlots(q)
SwapsOut(r) == r \in Beams \/ Cardinality(SeqsWith(r, "RUNNING")) > 1

PreemptByRecompute(s) ==
    /\ Decoding
    /\ Victim(s) /\ ~SwapsOut(Owner[s])
    /\ FreeTables({s})
    /\ SetStatus({s}, "WAITING")
    /\ phase' = "preempted"
    /\ todo' = todo \ {s}
    /\ UNCHANGED <<setup, tokens, arrival, batch, pending>> /\ UNCHANGED cacheVars

\* The group stays in the queue of the round.
BugPreemptBySwap(r) ==
    LET S == SeqsWith(r, "RUNNING") IN
    /\ Decoding
    /\ \E s \in S : Victim(s)
    /\ SwapsOut(r) /\ ~UsesV2 /\ CanSwapOut(r)
    /\ MoveTables(S, CpuBlocks)
    /\ SetStatus(S, "SWAPPED")
    /\ phase' = "preempted"
    /\ UNCHANGED <<setup, tokens, arrival, todo, batch>> /\ UNCHANGED cacheVars

\* Version 2 cannot swap: the exception ends the engine, as it does where the
\* CPU has no room.
PreemptBySwap(r) ==
    LET S == SeqsWith(r, "RUNNING") IN
    /\ Decoding
    /\ \E s \in S : Victim(s)
    /\ SwapsOut(r) /\ ~UsesV2 /\ CanSwapOut(r)
    /\ MoveTables(S, CpuBlocks)
    /\ SetStatus(S, "SWAPPED")
    /\ phase' = "preempted"
    /\ todo' = todo \ S
    /\ UNCHANGED <<setup, tokens, arrival, batch>> /\ UNCHANGED cacheVars

\* One round of _schedule_swapped, which is called when nothing was preempted.
\* It asserts that the group has one new token, so one sequence; the slot for
\* it is appended next, without another question.
SwapIn(s) ==
    /\ phase = "decode"
    /\ todo = {}
    /\ s \in Earliest(Swapped)
    /\ SeqsWith(Owner[s], "SWAPPED") = {s}
    /\ CanSwapIn(Owner[s])
    /\ MoveTables({s}, GpuBlocks)
    /\ SetStatus({s}, "RUNNING")
    /\ todo' = {s}
    /\ UNCHANGED <<setup, tokens, arrival, phase, batch>> /\ UNCHANGED cacheVars
-----------------------------------------------------------------------------
(***************************************************************************)
(* The model runs, and its outputs are processed                           *)
(***************************************************************************)

\* get_all_computed_blocks(): the blocks of the prompt that are not computed
\* again, never the last one.
ComputedBlocks(s) ==
    CHOOSE n \in 0..Len(table[s]) - 1 :
        /\ \A i \in 1..n : computed[table[s][i]]
        /\ n + 1 <= Len(table[s]) - 1 => ~computed[table[s][n + 1]]

\* compute_full_blocks_in_seq() marks from the last but one full block down to
\* one that is marked.
Marked(s) ==
    LET n == Len(tokens[s]) \div BlockSize - 1
    IN  {table[s][i] : i \in {j \in 1..n : \A k \in j..n : ~computed[table[s][k]]}}

MarkComputed ==
    computed' = [b \in Blocks |-> computed[b] \/ \E s \in batch : b \in Marked(s)]

\* The positions each model computes for s, given the proposals p: what is left
\* of a prompt, or the last token and what was proposed after it.
TargetPositions(s, p) ==
    IF phase = "prefill" THEN ComputedBlocks(s) * BlockSize + 1..Len(tokens[s])
    ELSE ScoredPositions(s, p)
DraftPositions(s, p) ==
    IF phase = "prefill" THEN 1..Len(tokens[s]) ELSE DraftedPositions(s, p)

\* An entry that was copied from a block which another copy or a swap of the same
\* round writes: which of them comes first decides what it holds.
Mixed == <<0>>

\* Worker.cache_swap: the swaps, whatever they were recorded after, then all copies
\* of blocks at once.
Copied(cache) ==
    LET CopiedTo(b) == {c[1] : c \in {x \in pending.copies : x[2] = b}}
        Moved(b) == IF \E m \in pending.moves : m[2] = b
                    THEN cache[CHOOSE x \in Blocks : <<x, b>> \in pending.moves]
                    ELSE cache[b]
        Found(b) == {cache[b], Moved(b)} \cup {Moved(x) : x \in CopiedTo(b)}
        Entry(b, o) == LET read == {held[o] : held \in UNION {Found(x) : x \in CopiedTo(b)}}
                       IN  IF Cardinality(read) = 1 THEN CHOOSE e \in read : TRUE ELSE Mixed
    IN  [b \in Blocks |->
            IF CopiedTo(b) # {} THEN [o \in 1..BlockSize |-> Entry(b, o)]
            ELSE IF b \in pending.fresh /\ \A m \in pending.moves : m[2] # b
                 THEN Empty ELSE Moved(b)]

\* The sequences of the batch store the positions at[s] of their tokens and the
\* proposed ones.  Entries two of them write differently are of no use to either.
Stored(held, at, p) ==
    [b \in Blocks |-> [o \in 1..BlockSize |->
        LET new == {SubSeq(tokens[w[1]] \o p[w[1]], 1, w[2]) :
                      w \in {x \in UNION {{s} \X at[s] : s \in batch} :
                                BlockAt(x[1], x[2]) = b /\ OffsetAt(x[2]) = o}}
        IN  IF new = {} THEN held[b][o]
            ELSE IF Cardinality(new) = 1 THEN CHOOSE e \in new : TRUE ELSE << >>]]

\* What a free block holds is only read again through its hash.  A free block
\* of the CPU, and one with a number of the counter, are only asked for again by
\* a swap, which writes them over, so that any free block will do: the hash is
\* forgotten, to keep states few.
Unnamed == <<0>>
Remembered(held) ==
    [b \in Blocks |-> [o \in 1..BlockSize |->
        IF \/ refCount[b] > 0 \/ held[b][o] = Mixed
           \/ b \in GpuBlocks /\ held[b][o] = SubSeq(hash[b], 1, MinOf(Len(held[b][o]), Len(hash[b])))
        THEN held[b][o] ELSE << >>]]
RememberedHash ==
    [b \in Blocks |-> IF /\ refCount[b] = 0
                          /\ hash[b] # << >>
                          /\ (b \in CpuBlocks \/ IsDefault(hash[b]))
                       THEN Unnamed ELSE hash[b]]

\* The end of schedule(), Worker.execute_model and, for speculative decoding,
\* SpecDecodeWorker.execute_model: a prompt is run through both models.
Execute ==
    /\ \/ phase = "prefill"
       \/ Decoding /\ todo = {}
    /\ IF UsesV2 THEN UNCHANGED computed ELSE MarkComputed
    /\ \E p \in Proposals(IF phase = "prefill" THEN {} ELSE {s \in batch : Speculates(s)}) :
         LET target == [s \in batch |-> TargetPositions(s, p)]
             drafted == [s \in batch |-> DraftPositions(s, p)]
         IN  /\ proposal' = p
             /\ kv' = Remembered(Stored(Copied(kv), target, p))
             /\ draft' = IF NumLookaheadSlots = 0 THEN draft
                         ELSE Remembered(Stored(Copied(draft), drafted, p))
    /\ pending' = NothingPending
    /\ todo' = batch
    /\ batch' = {}
    /\ phase' = IF batch = {} THEN "idle" ELSE "outputs"
    /\ hash' = RememberedHash
    /\ UNCHANGED <<table, refCount, seen>> /\ UNCHANGED seqVars

\* Sequences that stop give their blocks back; their ids may be used again.
Release(S) ==
    /\ FreeTables(S)
    /\ SetStatus(S, "UNUSED")
    /\ tokens' = [s \in Seqs |-> IF s \in S THEN << >> ELSE tokens[s]]
    /\ arrival' = {x \in arrival : \A r \in {x[1], x[2]} : ~(Live(r) \subseteq S)}
    /\ UNCHANGED <<setup, kv, draft>>

\* The next output the output processor takes.
NextOutput(s) ==
    /\ phase = "outputs"
    /\ s \in Earliest(todo)
    /\ todo' = todo \ {s}
    /\ phase' = IF todo' = {} THEN "idle" ELSE "outputs"
    /\ proposal' = [proposal EXCEPT ![s] = << >>]
    /\ UNCHANGED <<batch, pending>>

Longest(s) == MaxLen[setup][Owner[s]]
Position(s) == Len(tokens[s]) + 1

AppendToken(s) ==
    /\ proposal[s] = << >>
    /\ Len(tokens[s]) < Longest(s)
    /\ NextOutput(s)
    /\ \E x \in Vocabulary[Position(s)] : tokens' = [tokens EXCEPT ![s] = Append(@, x)]
    /\ UNCHANGED <<setup, status, arrival, kv, draft>> /\ UNCHANGED blockVars

\* MultiStepOutputProcessor: as many tokens as were accepted.
AppendAccepted(s) ==
    /\ proposal[s] # << >>
    /\ NextOutput(s)
    /\ \E accepted \in AcceptedTokens(s) :
         /\ Len(tokens[s]) + Len(accepted) <= Longest(s)
         /\ tokens' = [tokens EXCEPT ![s] = @ \o accepted]
    /\ UNCHANGED <<setup, status, arrival, kv, draft>> /\ UNCHANGED blockVars

\* Two tokens are sampled: Sequence.fork, and fork() of the block manager.
Fork(s, c) ==
    /\ Len(tokens[s]) < Longest(s)
    /\ Owner[s] \in Beams /\ Owner[c] = Owner[s] /\ status[c] = "UNUSED"
    /\ NextOutput(s)
    /\ \E x, y \in Vocabulary[Position(s)] :
         tokens' = [tokens EXCEPT ![s] = Append(@, x), ![c] = Append(tokens[s], y)]
    /\ SetStatus({c}, "RUNNING")
    /\ ForkTable(s, c)
    /\ UNCHANGED <<setup, arrival, kv, draft>>

Stop(s) == NextOutput(s) /\ Release({s})

\* Scheduler.abort_seq_group, between two steps.
Abort(r) ==
    /\ phase = "idle"
    /\ Live(r) # {}
    /\ Release(Live(r))
    /\ UNCHANGED <<proposal, phase, todo, batch, pending>>
-----------------------------------------------------------------------------
Init ==
    /\ setup \in Setups
    /\ status = [s \in Seqs |-> "UNUSED"]
    /\ tokens = [s \in Seqs |-> << >>]
    /\ table = [s \in Seqs |-> << >>]
    /\ hash = [b \in Blocks |-> << >>]
    /\ refCount = [b \in Blocks |-> 0]
    /\ computed = [b \in Blocks |-> FALSE]
    /\ seen = [s \in Seqs |-> 0]
    /\ kv = [b \in Blocks |-> Empty]
    /\ draft = [b \in Blocks |-> Empty]
    /\ proposal = [s \in Seqs |-> << >>]
    /\ arrival = {}
    /\ phase = "idle"
    /\ todo = {}
    /\ batch = {}
    /\ pending = NothingPending

Next ==
    \/ StartDecode
    \/ Execute
    \/ \E r \in Requests :
         \/ \E p \in Prompts[r] : AddRequest(r, p)
         \/ PreemptBySwap(r)
         \/ Abort(r)
    \/ \E s \in Seqs :
         \/ Admit(s)
         \/ AppendSlots(s)
         \/ PreemptByRecompute(s)
         \/ SwapIn(s)
         \/ AppendToken(s)
         \/ AppendAccepted(s)
         \/ \E c \in Seqs : Fork(s, c)
         \/ Stop(s)

Spec == Init /\ [][Next]_vars
-----------------------------------------------------------------------------
(***************************************************************************)
(* Properties                                                              *)
(***************************************************************************)

\* The variables keep their types, and a table has room for the tokens in it.
\* With prefix caching a block that was created keeps a hash, and only created
\* blocks are in use or computed.
KVCacheTypeOK ==
    /\ setup \in Setups
    /\ status \in [Seqs -> {"UNUSED", "WAITING", "RUNNING", "SWAPPED"}]
    /\ \A s \in Seqs : /\ Range(tokens[s]) \subseteq Nat \ {0}
                       /\ Range(table[s]) \subseteq
                             IF status[s] = "SWAPPED" THEN CpuBlocks ELSE GpuBlocks
                       /\ seen[s] \in 0..MinOf(Len(tokens[s]), Len(table[s]) * BlockSize)
    /\ refCount \in [Blocks -> 0..Cardinality(Seqs)]
    /\ computed \in [Blocks -> BOOLEAN]
    /\ \A b \in Blocks : hash[b] = << >> => (refCount[b] = 0 \/ UsesV2) /\ ~computed[b]
    /\ phase \in {"idle", "prefill", "decode", "preempted", "outputs"}
    /\ todo \cup batch \subseteq Running /\ todo \cap batch = {}
    /\ arrival \subseteq Requests \X Requests
    /\ \A r, q \in Requests :
          /\ <<r, q>> \in arrival => Live(r) # {} /\ Live(q) # {} /\ <<q, r>> \notin arrival
          /\ Live(r) # {} /\ Live(q) # {} /\ r # q =>
                <<r, q>> \in arrival \/ <<q, r>> \in arrival

\* The entries of s that are computed: all of its tokens once the model ran and
\* until the next one is sampled, all but the last one otherwise.
NumStored(s) == Len(tokens[s]) - IF s \in todo THEN 0 ELSE 1

\* Between two schedulings every sequence, running or swapped out, finds in its
\* blocks the keys and values of its own tokens, position by position: what is
\* shared, promoted, copied on write, evicted and taken back from the evictor
\* or swapped never shows it another sequence's (append_slots, allocate).  With
\* prefix caching the entries of a copy are excepted that read a block which the
\* worker's swaps and copies of the same round write as well: there the code does
\* not see to the order.  Block manager V2 never makes such a copy.
TablesHoldTheirTokens ==
    phase \in {"idle", "outputs"} =>
        \A s \in Running \cup Swapped : \A p \in 1..NumStored(s) :
            \/ kv[BlockAt(s, p)][OffsetAt(p)] = Prefix(s, p)
            \/ ~UsesV2 /\ kv[BlockAt(s, p)][OffsetAt(p)] = Mixed

\* A block that later prefills skip (computed) holds every token its hash
\* names, also while it waits in the evictor (mark_blocks_as_computed), with the
\* same exception.
ComputedBlocksAreStored ==
    phase \in {"idle", "outputs"} =>
        \A b \in Blocks : computed[b] => \A o \in 1..BlockSize :
            kv[b][o] \in {SubSeq(hash[b], 1, Len(hash[b]) - BlockSize + o), Mixed}

\* cached_blocks and the evictor are keyed by hash: two blocks of a device with
\* one hash would fail the assertions of allocate(), free() and update_hash().
OneBlockPerHash ==
    \A pool \in {GpuBlocks, CpuBlocks} : \A b, c \in pool :
        hash[b] \notin {<< >>, Unnamed} /\ hash[b] = hash[c] => b = c

\* The reference count of a block is the number of tables it is in: none is
\* freed twice, lost, or evicted while a sequence reads it.
CountsMatchTables ==
    \A b \in Blocks : refCount[b] = NumFrees(b, Seqs)

\* A sequence that is promised slots finds blocks for them: what the sequences
\* of a group that can_append_slots() or can_swap_in() let through take, new
\* blocks, copies and blocks for lookahead slots, is never more than is free, and
\* what is promised to one is not taken by another ("No usable cache memory
\* left", or NoFreeBlocksError, would end the engine).
SlotsArePromisedOnce ==
    \A s \in Earliest(todo) :
        Decoding /\ HasSlots(s) =>
            (IF UsesV2 THEN NumTaken(s)
             ELSE IF NeedsBlock(s) \/ refCount[LastBlock(s)] > 1 THEN 1 ELSE 0)
              <= Cardinality(FreeIn(GpuBlocks))

\* A sequence the draft model will be asked about has all the tokens before its
\* last one in the draft model's cache, whatever was accepted, rejected or
\* skipped in the rounds before: the draft model writes one token less than the
\* target model scores, and leaves what was rejected behind.  (The rejection
\* sampler gives up its bonus token for that: "it causes corrupt KV cache".)
DraftCacheHoldsTheTokens ==
    setup = "speculative decoding" /\ phase = "idle" =>
        \A s \in Running : Speculates(s) =>
            \A p \in 1..Len(tokens[s]) - 1 :
                draft[BlockAt(s, p)][OffsetAt(p)] = Prefix(s, p)
=============================================================================
