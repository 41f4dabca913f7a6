------------------------------ MODULE KVCache ------------------------------
(***************************************************************************)
(* Sequences, their block tables, and what the blocks hold: the state that *)
(* the two block managers of vllm/core, PrefixCaching (version 1 with the  *)
(* CachedBlockAllocator) and BlockManagerV2, change, and KVCacheRounds     *)
(* puts to use.                                                            *)
(*                                                                         *)
(* An entry of a block holds the prefix of tokens whose last key and value *)
(* are stored in it.  With speculative decoding the draft model has its    *)
(* own cache for the same tables.                                          *)
(***************************************************************************)
EXTENDS Naturals, Sequences, FiniteSets, Functions

CONSTANTS
    Requests,         \* sequence groups
    Seqs,             \* sequence ids
    Owner,            \* the request a sequence id belongs to
    First,            \* the prompt sequence of a request
    BeamRequests,     \* requests with use_beam_search, preempted by swapping
    Prompts,          \* the prompts each request may come with
    Vocabulary,       \* the tokens that may be sampled at a position
    MaxLen,           \* by setup: the longest a sequence of a request gets (max_tokens)
    BlockSize,
    GpuBlocks,
    CpuBlocks,
    WatermarkBlocks,
    NumSpeculativeTokens,
    DraftMaxModelLen  \* max_model_len of the draft worker

\* The engines that are modelled: version 1 with enable_prefix_caching, version
\* 2, and speculative decoding, which requires version 2.
Setups == {"prefix caching", "block manager v2", "speculative decoding"}

ASSUME KVCacheAssumption ==
    /\ IsFiniteSet(Seqs)
    /\ Owner \in [Seqs -> Requests]
    /\ First \in [Requests -> Seqs]
    /\ \A r \in Requests : Owner[First[r]] = r
    /\ BeamRequests \subseteq Requests
    /\ BlockSize \in Nat \ {0}
    /\ MaxLen \in [Setups -> [Requests -> Nat]]
    /\ \A n \in DOMAIN Vocabulary : Vocabulary[n] \subseteq Nat \ {0}
    /\ \A st \in Setups, r \in Requests :
          1..MaxLen[st][r] + NumSpeculativeTokens \subseteq DOMAIN Vocabulary
    /\ \A r \in Requests : Prompts[r] \subseteq Seq(Nat \ {0}) \ {<< >>}
    /\ IsFiniteSet(GpuBlocks) /\ IsFiniteSet(CpuBlocks)
    /\ GpuBlocks \cap CpuBlocks = {}
    /\ WatermarkBlocks \in Nat
    /\ NumSpeculativeTokens \in Nat \ {0}
    /\ DraftMaxModelLen \in Nat

VARIABLES
    setup,         \* which of Setups the engine was started with
    status,        \* Sequence.status, "UNUSED" for an id no request holds
    tokens,        \* SequenceData: prompt and output token ids
    table,         \* block_tables; << >> for a sequence without an entry
    hash,          \* block_hash of a block; << >> before it is created
    refCount,      \* the reference count of a block
    computed,      \* PhysicalTokenBlock.computed
    seen,          \* BlockTable._num_full_slots: tokens put into the table (version 2)
    kv,            \* the entries of a block: the prefix each one was computed for
    draft,         \* the same for the draft model's cache
    proposal,      \* the draft tokens scored for a sequence in this round
    arrival,       \* pairs of live requests, the earlier one first
    phase,         \* "idle", "prefill", "decode", "preempted" or "outputs"
    todo,          \* sequences the loop of the phase has not come to
    batch,         \* the sequences scheduled in this round
    pending        \* what the worker does with the blocks before the model runs

seqVars == <<setup, status, tokens, arrival>>
blockVars == <<table, hash, refCount, computed, seen>>
cacheVars == <<kv, draft, proposal>>
vars == <<setup, status, tokens, table, hash, refCount, computed, seen, kv, draft,
          proposal, arrival, phase, todo, batch, pending>>

UsesV2 == setup # "prefix caching"
NumLookaheadSlots ==
    IF setup = "speculative decoding" THEN NumSpeculativeTokens ELSE 0

Blocks == GpuBlocks \cup CpuBlocks
SeqsWith(r, st) == {s \in Seqs : Owner[s] = r /\ status[s] = st}
Live(r) == {s \in Seqs : Owner[s] = r /\ status[s] # "UNUSED"}
BlocksOf(S) == UNION {Range(table[s]) : s \in S}
MinOf(i, j) == IF i <= j THEN i ELSE j
CeilDiv(n, d) == (n + d - 1) \div d

Prefix(s, n) == SubSeq(tokens[s], 1, MinOf(n, Len(tokens[s])))
NumBlocks(s) == CeilDiv(Len(tokens[s]), BlockSize)
LastBlock(s) == table[s][Len(table[s])]

\* The block and the entry of position p.
BlockAt(s, p) == table[s][(p - 1) \div BlockSize + 1]
OffsetAt(p) == ((p - 1) % BlockSize) + 1
Empty == [o \in 1..BlockSize |-> << >>]

\* Blocks that are not created yet count as free, as those in the evictor do.
FreeIn(pool) == {b \in pool : refCount[b] = 0}

\* can_allocate() of both managers answers OK.
LeavesWatermark(n) ==
    /\ Cardinality(GpuBlocks) - n >= WatermarkBlocks
    /\ Cardinality(FreeIn(GpuBlocks)) - n >= WatermarkBlocks

\* One free() for every table of S the block is in.
NumFrees(b, S) == Cardinality({s \in S : b \in Range(table[s])})
FreeTables(S) ==
    /\ refCount' = [b \in Blocks |-> refCount[b] - NumFrees(b, S)]
    /\ table' = [s \in Seqs |-> IF s \in S THEN << >> ELSE table[s]]
    /\ seen' = [s \in Seqs |-> IF s \in S THEN 0 ELSE seen[s]]
    /\ UNCHANGED <<hash, computed>>

\* fork(): the child's table names the same blocks, with the same tokens in them.
ForkTable(s, c) ==
    /\ table' = [table EXCEPT ![c] = table[s]]
    /\ refCount' = [b \in Blocks |-> IF b \in Range(table[s]) THEN refCount[b] + 1
                                     ELSE refCount[b]]
    /\ seen' = [seen EXCEPT ![c] = seen[s]]
    /\ UNCHANGED <<hash, computed>>

\* What the calls of this round leave to the worker: copies of blocks, swaps,
\* and blocks that come without contents of their own.
NothingPending == [copies |-> {}, moves |-> {}, fresh |-> {}]
AddPending(copies, moves, fresh) ==
    pending' = [copies |-> pending.copies \cup copies,
                moves |-> pending.moves \cup moves,
                fresh |-> pending.fresh \cup fresh]
=============================================================================
