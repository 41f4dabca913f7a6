--------------------------- MODULE PrefixCaching ---------------------------
(***************************************************************************)
(* Automatic prefix caching: the block manager of                          *)
(* vllm/core/block_manager_v1.py with the CachedBlockAllocator.            *)
(*                                                                         *)
(* A block carries a hash: of the token ids of its sequence up to its end, *)
(* or, while it is not full, one drawn from a counter.  A freed block      *)
(* keeps its hash and its contents and waits in the evictor, so a request  *)
(* with the same prefix gets it back, and skips the part of the prompt     *)
(* whose blocks are marked computed.                                       *)
(*                                                                         *)
(* The hash of a block is here the sequence of tokens that is hashed       *)
(* (hash() is taken to be collision free) or <<0, n>> for the n-th of the  *)
(* counter's numbers.  Evictor.evict() may take any block of the evictor:  *)
(* nothing here depends on the order it picks.                             *)
(***************************************************************************)
EXTENDS KVCache
-----------------------------------------------------------------------------
(***************************************************************************)
(* Hashes and the CachedBlockAllocator                                     *)
(***************************************************************************)
\* Sequence.hash_of_block, of the i-th block.
HashOfBlock(s, i) == Prefix(s, i * BlockSize)

IsLastBlockFull(s) == Len(tokens[s]) % BlockSize = 0

\* next(default_hash_ctr): a number no block carries.
IsDefault(h) == h # << >> /\ h[1] = 0
DefaultHash ==
    <<0, CHOOSE n \in 1..Cardinality(Blocks) + 1 :
            \A b \in Blocks : hash[b] # <<0, n>>>>

\* cached_blocks and the evictor hold the created blocks, by reference count.
Named(h, pool) == {b \in pool : hash[b] = h}

\* allocate_block(): the evictor is asked only once every block is created.
NewBlock(b, pool) ==
    /\ b \in FreeIn(pool)
    /\ Named(<< >>, pool) # {} => hash[b] = << >>

\* allocate(): the block with this hash, in use or in the evictor, or a new one.
Allocates(b, h, pool) ==
    IF Named(h, pool) # {} THEN b \in Named(h, pool) ELSE NewBlock(b, pool)

\* The blocks a loop of allocate() over the hashes hs may return, one for each.
Allocations(hs, pool) ==
    {t \in Injection(DOMAIN hs, pool) :
        \A i \in DOMAIN hs :
          Allocates(t[i], hs[i], pool \ {t[j] : j \in 1..i - 1})}

\* The block that is given a hash comes from the evictor with its flag set.
BugRename(t, hs) ==
    /\ hash' = [b \in Blocks |-> IF b \in Range(t)
                                 THEN hs[CHOOSE i \in DOMAIN hs : t[i] = b]
                                 ELSE hash[b]]
    /\ UNCHANGED computed

\* The block t[i] has the hash hs[i]; a block that is evicted is not computed.
Rename(t, hs) ==
    LET Index(b) == CHOOSE i \in DOMAIN hs : t[i] = b
    IN  /\ hash' = [b \in Blocks |-> IF b \in Range(t) THEN hs[Index(b)]
                                     ELSE hash[b]]
        /\ computed' = [b \in Blocks |-> /\ computed[b]
                                         /\ b \in Range(t) => hash[b] = hs[Index(b)]]

\* Blocks that get a new hash start without contents of their own.
Fresh(t, hs) == {t[i] : i \in {j \in DOMAIN hs : hash[t[j]] # hs[j]}}
-----------------------------------------------------------------------------
(***************************************************************************)
(* BlockSpaceManagerV1                                                     *)
(***************************************************************************)
\* allocate(), for the one sequence of a waiting group.
AllocateTable(s) ==
    LET hs == [i \in 1..NumBlocks(s) |-> HashOfBlock(s, i)] IN
    \E t \in Allocations(hs, GpuBlocks) :
      /\ table' = [table EXCEPT ![s] = t]
      /\ Rename(t, hs)
      /\ refCount' = [b \in Blocks |-> IF b \in Range(t) THEN refCount[b] + 1
                                       ELSE refCount[b]]
      /\ AddPending({}, {}, Fresh(t, hs))
      /\ UNCHANGED seen

BugCanAppendSlots(S) == Cardinality(S) <= Cardinality(FreeIn(GpuBlocks)) + 1

CanAppendSlots(S) == Cardinality(S) <= Cardinality(FreeIn(GpuBlocks))

\* The hash _allocate_last_physical_block asks for.
LastHash(s) == IF IsLastBlockFull(s) THEN HashOfBlock(s, NumBlocks(s))
               ELSE DefaultHash
NeedsBlock(s) == Len(table[s]) < NumBlocks(s)

\* append_slots(): the token opens a block ...
AppendNewBlock(s) ==
    /\ NeedsBlock(s)
    /\ \E b \in GpuBlocks :
         /\ Allocates(b, LastHash(s), GpuBlocks)
         /\ table' = [table EXCEPT ![s] = Append(@, b)]
         /\ Rename(<<b>>, <<LastHash(s)>>)
         /\ refCount' = [refCount EXCEPT ![b] = @ + 1]
         /\ AddPending({}, {}, Fresh(<<b>>, <<LastHash(s)>>))
    /\ UNCHANGED seen

\* ... or is written in place, and does not fill the block ...
AppendInPlace(s) ==
    /\ ~NeedsBlock(s) /\ refCount[LastBlock(s)] = 1 /\ ~IsLastBlockFull(s)
    /\ UNCHANGED <<table, hash, refCount, computed, seen, pending>>

\* A full block takes its hash, whether or not another block has it.
BugPromoteLastBlock(s) ==
    LET h == HashOfBlock(s, NumBlocks(s)) IN
    /\ ~NeedsBlock(s) /\ refCount[LastBlock(s)] = 1 /\ IsLastBlockFull(s)
    /\ hash' = [hash EXCEPT ![LastBlock(s)] = h]
    /\ UNCHANGED <<table, refCount, computed, seen, pending>>

\* ... or does: _promote_last_block gives the block the hash of its tokens, or
\* gives it up for the block that already has that hash ...
PromoteLastBlock(s) ==
    LET h == HashOfBlock(s, NumBlocks(s)) IN
    /\ ~NeedsBlock(s) /\ refCount[LastBlock(s)] = 1 /\ IsLastBlockFull(s)
    /\ \/ /\ Named(h, GpuBlocks) = {}
          /\ hash' = [hash EXCEPT ![LastBlock(s)] = h]
          /\ UNCHANGED <<table, refCount>>
       \/ \E b \in Named(h, GpuBlocks) :
            /\ table' = [table EXCEPT ![s][Len(table[s])] = b]
            /\ refCount' = [refCount EXCEPT ![LastBlock(s)] = @ - 1, ![b] = @ + 1]
            /\ UNCHANGED hash
    /\ UNCHANGED <<computed, seen, pending>>

\* The block copied from keeps its count.
BugAppendCopyOnWrite(s) ==
    /\ ~NeedsBlock(s) /\ refCount[LastBlock(s)] > 1
    /\ \E b \in GpuBlocks :
         /\ Allocates(b, LastHash(s), GpuBlocks)
         /\ table' = [table EXCEPT ![s][Len(table[s])] = b]
         /\ Rename(<<b>>, <<LastHash(s)>>)
         /\ refCount' = [refCount EXCEPT ![b] = @ + 1]
         /\ AddPending({<<LastBlock(s), b>>}, {}, Fresh(<<b>>, <<LastHash(s)>>))
    /\ UNCHANGED seen

\* ... or goes to a copy of a block that others hold too.
AppendCopyOnWrite(s) ==
    /\ ~NeedsBlock(s) /\ refCount[LastBlock(s)] > 1
    /\ \E b \in GpuBlocks :
         /\ Allocates(b, LastHash(s), GpuBlocks)
         /\ table' = [table EXCEPT ![s][Len(table[s])] = b]
         /\ Rename(<<b>>, <<LastHash(s)>>)
         /\ refCount' = [refCount EXCEPT ![b] = @ + 1, ![LastBlock(s)] = @ - 1]
         /\ AddPending({<<LastBlock(s), b>>}, {}, Fresh(<<b>>, <<LastHash(s)>>))
    /\ UNCHANGED seen

AppendSlot(s) ==
    \/ AppendNewBlock(s) \/ AppendInPlace(s)
    \/ PromoteLastBlock(s) \/ AppendCopyOnWrite(s)

CanSwapIn(r) ==
    Cardinality(FreeIn(GpuBlocks))
        - (Cardinality(BlocksOf(Live(r))) + Cardinality(SeqsWith(r, "SWAPPED")))
      >= WatermarkBlocks

CanSwapOut(r) ==
    Cardinality(BlocksOf(Live(r))) <= Cardinality(FreeIn(CpuBlocks))

\* swap_in() and swap_out() over the tables of S: a block of the pool with the
\* same hash for every block in them.  The loop's order is that of the tables;
\* here any.
MoveTables(S, pool) ==
    \E old \in Bijection(1..Cardinality(BlocksOf(S)), BlocksOf(S)) :
      LET hs == [i \in DOMAIN old |-> hash[old[i]]] IN
      \E t \in Allocations(hs, pool) :
        LET new == [b \in BlocksOf(S) |-> t[CHOOSE i \in DOMAIN old : old[i] = b]]
        IN  /\ table' = [s \in Seqs |-> IF s \in S
                                        THEN [i \in DOMAIN table[s] |-> new[table[s][i]]]
                                        ELSE table[s]]
            /\ Rename(t, hs)
            /\ refCount' = [b \in Blocks |->
                  IF b \in BlocksOf(S) THEN refCount[b] - NumFrees(b, S)
                  ELSE IF b \in Range(t)
                       THEN refCount[b] + NumFrees(CHOOSE o \in BlocksOf(S) : new[o] = b, S)
                       ELSE refCount[b]]
            /\ AddPending({}, {<<o, new[o]>> : o \in BlocksOf(S)}, Fresh(t, hs))
    /\ UNCHANGED seen
=============================================================================
