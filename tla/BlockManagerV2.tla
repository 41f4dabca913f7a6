--------------------------- MODULE BlockManagerV2 ---------------------------
(***************************************************************************)
(* BlockSpaceManagerV2 of vllm/core/block_manager_v2.py over the block     *)
(* tables and the naive allocator of vllm/core/block: copy on write by a   *)
(* reference counter, and lookahead slots beyond the known tokens, which   *)
(* speculative decoding writes to.  It does not swap.                      *)
(***************************************************************************)
EXTENDS KVCache, SetSums

\* Sequence tokens not yet in the table.
NumUnseen(s) == Len(tokens[s]) - seen[s]

\* get_num_blocks_touched_by_append_slots(): the first chunk fills up a block,
\* which may be new.
NumTouched(s, n) ==
    LET first == BlockSize - (seen[s] % BlockSize)
    IN  IF n <= first THEN 1 ELSE 1 + CeilDiv(n - first, BlockSize)

\* can_append_slots(): every touched block is taken for a new one.
CanAppendSlotsV2(S) ==
    SumOver([s \in S |-> NumTouched(s, NumUnseen(s) + NumLookaheadSlots)], S)
      <= Cardinality(FreeIn(GpuBlocks))

\* allocate(), for the one sequence of a waiting group.
AllocateTableV2(s) ==
    \E t \in Injection(1..NumBlocks(s), FreeIn(GpuBlocks)) :
      /\ table' = [table EXCEPT ![s] = t]
      /\ refCount' = [b \in Blocks |-> IF b \in Range(t) THEN 1 ELSE refCount[b]]
      /\ seen' = [seen EXCEPT ![s] = Len(tokens[s])]
      /\ AddPending({}, {}, Range(t))
      /\ UNCHANGED <<hash, computed>>

\* ensure_num_empty_slots(): blocks that are missing for the unseen tokens and
\* the lookahead slots.
NumMissing(s) ==
    LET empty == Len(table[s]) * BlockSize - seen[s]
        need == NumUnseen(s) + NumLookaheadSlots
    IN  IF need <= empty THEN 0 ELSE CeilDiv(need - empty, BlockSize)

\* Nothing is copied: a shared block is written in place.
BugShared(s) == {}

\* The places in the table of the shared blocks that get one of the tokens:
\* lookahead slots are not written by the block table.
Shared(s) ==
    {i \in (seen[s] \div BlockSize) + 1..((Len(tokens[s]) - 1) \div BlockSize) + 1 :
        i <= Len(table[s]) /\ refCount[table[s][i]] > 1}

NumTaken(s) == NumMissing(s) + Cardinality(Shared(s))

\* append_slots(): BlockTable.append_token_ids and the copies it leads to
\* (NaiveBlock.append_token_ids, CopyOnWriteTracker).
AppendTokenIds(s) ==
    \E t \in Injection(1..NumTaken(s), FreeIn(GpuBlocks)) :
      LET n == Len(table[s])
          Copy(i) == t[NumMissing(s) + Cardinality({j \in Shared(s) : j <= i})]
      IN  /\ table' = [table EXCEPT ![s] =
                [i \in 1..n + NumMissing(s) |->
                    IF i > n THEN t[i - n] ELSE IF i \in Shared(s) THEN Copy(i)
                    ELSE table[s][i]]]
          /\ refCount' = [b \in Blocks |->
                IF b \in Range(t) THEN 1
                ELSE refCount[b] - Cardinality({i \in Shared(s) : table[s][i] = b})]
          /\ seen' = [seen EXCEPT ![s] = Len(tokens[s])]
          /\ AddPending({<<table[s][i], Copy(i)>> : i \in Shared(s)}, {}, Range(t))
          /\ UNCHANGED <<hash, computed>>
=============================================================================
