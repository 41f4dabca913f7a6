---------------------------- MODULE KVCacheProofs ---------------------------
(***************************************************************************)
(* Proofs about KVCacheRounds for any number of blocks, sequences and      *)
(* requests: with every setup, that counts, hashes and promises of blocks  *)
(* are right; under block manager V2, with and without speculative         *)
(* decoding, that every sequence finds its own keys and values.            *)
(***************************************************************************)
EXTENDS KVCacheRounds, SetSumTheorems, SequenceTheorems

-----------------------------------------------------------------------------
(***************************************************************************)
(* The inductive invariant                                                 *)
(***************************************************************************)
Tokens == Nat \ {0}
Statuses == {"UNUSED", "WAITING", "RUNNING", "SWAPPED"}
Phases == {"idle", "prefill", "decode", "preempted", "outputs"}
Placed(s) == status[s] \in {"RUNNING", "SWAPPED"}

TypeInv ==
    /\ setup \in Setups
    /\ status \in [Seqs -> Statuses]
    /\ tokens \in [Seqs -> Seq(Tokens)]
    /\ table \in [Seqs -> Seq(Blocks)]
    /\ hash \in [Blocks -> Seq(Nat)]
    /\ refCount \in [Blocks -> Nat]
    /\ computed \in [Blocks -> BOOLEAN]
    /\ seen \in [Seqs -> Nat]
    /\ proposal \in [Seqs -> Seq(Tokens)]
    /\ arrival \in SUBSET (Requests \X Requests)
    /\ phase \in Phases
    /\ todo \in SUBSET Seqs
    /\ batch \in SUBSET Seqs
    /\ pending \in [copies : SUBSET (Blocks \X Blocks), moves : SUBSET (Blocks \X Blocks),
                    fresh : SUBSET Blocks]

\* The unfinished sequences of a request have one status, and a waiting one is
\* alone; a sequence has a table exactly when it is placed.
StatusInv ==
    /\ \A s \in Seqs : /\ tokens[s] = << >> <=> status[s] = "UNUSED"
                       /\ ~Placed(s) => table[s] = << >> /\ seen[s] = 0
    /\ \A s, q \in Seqs :
          Owner[s] = Owner[q] /\ status[s] # "UNUSED" /\ status[q] # "UNUSED" =>
              status[s] = status[q] /\ (status[s] = "WAITING" => s = q)
    /\ UsesV2 => Swapped = {}

\* The live requests are in a total order.
ArrivalInv ==
    \A r, q \in Requests :
        /\ <<r, q>> \in arrival => Live(r) # {} /\ Live(q) # {} /\ <<q, r>> \notin arrival
        /\ Live(r) # {} /\ Live(q) # {} /\ r # q => <<r, q>> \in arrival \/ <<q, r>> \in arrival

\* What is left of a round: a group some of which has been given slots is the
\* next one.
RoundInv ==
    /\ todo \cup batch \subseteq Running /\ todo \cap batch = {}
    /\ phase = "idle" => todo = {} /\ batch = {}
    /\ phase = "prefill" => todo = {}
    /\ phase = "outputs" => batch = {}
    /\ phase \in {"idle", "outputs"} => pending = NothingPending
    /\ UsesV2 => pending.moves = {}
    /\ Decoding => \A s \in todo, q \in batch : Owner[s] = Owner[q] => s \in Earliest(todo)

\* The blocks of a sequence are different ones of one device, ...
TableInv ==
    /\ \A s \in Seqs : /\ IsInjective(table[s])
                       /\ Range(table[s]) \subseteq
                             IF status[s] = "SWAPPED" THEN CpuBlocks ELSE GpuBlocks
    /\ CountsMatchTables

\* ... and there are enough of them: they are one short only of the last token,
\* and not at all once the sequence has its slots.
HasItsSlots(s) == s \in batch \/ (phase = "outputs" /\ s \in todo)
FitInv ==
    \A s \in Seqs : Placed(s) =>
        IF UsesV2
        THEN /\ seen[s] <= Len(tokens[s]) /\ seen[s] <= Len(table[s]) * BlockSize
             /\ HasItsSlots(s) => seen[s] = Len(tokens[s])
        ELSE /\ seen[s] = 0 /\ table[s] # << >>
             /\ Len(table[s]) \in {NumBlocks(s) - 1, NumBlocks(s)}
             /\ HasItsSlots(s) => Len(table[s]) = NumBlocks(s)

\* A hash of tokens says where in a table its block may be.
FitsAt(h, i) == IsDefault(h) \/ Len(h) \in (i - 1) * BlockSize + 1..i * BlockSize
HashInv ==
    IF UsesV2 THEN \A b \in Blocks : hash[b] = << >> /\ ~computed[b]
    ELSE /\ \A b \in Blocks : /\ hash[b] = << >> => ~computed[b]
                              /\ refCount[b] > 0 => hash[b] \notin {<< >>, Unnamed}
         /\ \A s \in Seqs : \A i \in DOMAIN table[s] : FitsAt(hash[table[s][i]], i)
         /\ OneBlockPerHash

\* The blocks that were promised to the rest of a group are free.
SlotsNeeded(S) ==
    IF UsesV2 THEN SumOver([s \in S |-> NumTouched(s, NumUnseen(s) + NumLookaheadSlots)], S)
    ELSE Cardinality(S)
PromiseInv ==
    Decoding => \A s \in todo :
        /\ Group(s) \cap batch # {} =>
              SlotsNeeded(Group(s) \cap todo) <= Cardinality(FreeIn(GpuBlocks))
        /\ SwappedIn => todo = {s} /\ FreeIn(GpuBlocks) # {}

\* Tokens are proposed by speculative decoding only.
ProposalInv == setup # "speculative decoding" => \A s \in Seqs : proposal[s] = << >>

BlocksInv ==
    /\ TypeInv /\ StatusInv /\ ArrivalInv /\ RoundInv
    /\ TableInv /\ FitInv /\ HashInv /\ PromiseInv /\ ProposalInv
-----------------------------------------------------------------------------
(***************************************************************************)
(* Arithmetic: positions and blocks                                        *)
(***************************************************************************)
LEMMA DivMod ==
    ASSUME NEW n \in Nat
    PROVE  /\ n \div BlockSize \in Nat /\ n % BlockSize \in 0..BlockSize - 1
           /\ n = (n \div BlockSize) * BlockSize + (n % BlockSize)
BY KVCacheAssumption, Z3

LEMMA MulMonotone ==
    ASSUME NEW i \in Int, NEW j \in Int, i <= j
    PROVE  i * BlockSize <= j * BlockSize
BY KVCacheAssumption

\* The multiples around a number are unique.
LEMMA BlockIndex ==
    ASSUME NEW i \in Int, NEW j \in Int, NEW m \in Int, NEW n \in Int, m <= n,
           i * BlockSize <= m, n < (j + 1) * BlockSize
    PROVE  i <= j
<1>1. SUFFICES ASSUME j + 1 <= i PROVE FALSE
  OBVIOUS
<1>2. (j + 1) * BlockSize <= i * BlockSize
  BY <1>1, MulMonotone
<1>3. BlockSize \in Int
  BY KVCacheAssumption
<1>4. QED
  BY <1>2, <1>3

\* CeilDiv is the number of blocks that n tokens fill.
LEMMA CeilIs ==
    ASSUME NEW n \in Nat
    PROVE  /\ CeilDiv(n, BlockSize) \in Nat
           /\ n <= CeilDiv(n, BlockSize) * BlockSize
           /\ CeilDiv(n, BlockSize) * BlockSize < n + BlockSize
           /\ n > 0 => CeilDiv(n, BlockSize) > 0
<1> DEFINE m == n + BlockSize - 1
           c == m \div BlockSize
<1>1. BlockSize \in Nat /\ BlockSize > 0 /\ m \in Nat
  BY KVCacheAssumption
<1>2. c \in Nat /\ m % BlockSize \in 0..BlockSize - 1 /\ m = c * BlockSize + (m % BlockSize)
  BY <1>1, DivMod
<1>3. c * BlockSize \in Nat
  BY <1>1, <1>2
<1>4. n <= c * BlockSize /\ c * BlockSize < n + BlockSize
  BY <1>1, <1>2, <1>3
<1>5. c = 0 => c * BlockSize = 0
  BY <1>1
<1>6. QED
  BY <1>1, <1>2, <1>3, <1>4, <1>5 DEF CeilDiv

\* One more token takes at most one more block.
LEMMA CeilGrows ==
    ASSUME NEW n \in Nat
    PROVE  CeilDiv(n + 1, BlockSize) \in {CeilDiv(n, BlockSize), CeilDiv(n, BlockSize) + 1}
<1> DEFINE c == CeilDiv(n, BlockSize)
           d == CeilDiv(n + 1, BlockSize)
<1>1. BlockSize \in Nat /\ BlockSize > 0
  BY KVCacheAssumption
<1>2. /\ c \in Nat /\ n <= c * BlockSize /\ c * BlockSize < n + BlockSize
      /\ d \in Nat /\ n + 1 <= d * BlockSize /\ d * BlockSize < n + 1 + BlockSize
  BY CeilIs
<1> HIDE DEF c, d
<1>3. (c - 1) * BlockSize = c * BlockSize - BlockSize /\ (c + 1 + 1) * BlockSize = c * BlockSize + 2 * BlockSize
      /\ (d - 1) * BlockSize = d * BlockSize - BlockSize /\ (d + 1) * BlockSize = d * BlockSize + BlockSize
  BY <1>1, <1>2
<1>4. c * BlockSize \in Nat /\ d * BlockSize \in Nat
  BY <1>1, <1>2
<1>5. (c - 1) * BlockSize <= n /\ n < (d + 1) * BlockSize
  BY <1>1, <1>2, <1>3, <1>4
<1>6. c - 1 <= d
  BY <1>2, <1>5, BlockIndex
<1>7. ~(d < c)
  <2>1. SUFFICES ASSUME d <= c - 1 PROVE FALSE
    BY <1>2
  <2>2. d * BlockSize <= (c - 1) * BlockSize
    BY <1>2, <2>1, MulMonotone
  <2>3. QED
    BY <1>1, <1>2, <1>3, <1>4, <2>2
<1>8. d <= c + 1
  <2>1. d * BlockSize <= n + BlockSize /\ n + BlockSize < (c + 1 + 1) * BlockSize
    BY <1>1, <1>2, <1>3, <1>4
  <2>2. QED
    BY <1>1, <1>2, <2>1, BlockIndex
<1>9. QED
  BY <1>2, <1>7, <1>8 DEF c, d

\* The entry a position is stored in, and that no other position is.
PlaceOf(p) == (p - 1) \div BlockSize + 1
LEMMA Places ==
    ASSUME NEW p \in Nat \ {0}
    PROVE  /\ PlaceOf(p) \in Nat \ {0} /\ OffsetAt(p) \in 1..BlockSize
           /\ p = (PlaceOf(p) - 1) * BlockSize + OffsetAt(p)
<1> DEFINE d == (p - 1) \div BlockSize
<1>1. d \in Nat /\ (p - 1) % BlockSize \in 0..BlockSize - 1
      /\ p - 1 = d * BlockSize + ((p - 1) % BlockSize)
  BY DivMod
<1>2. BlockSize \in Nat /\ d * BlockSize \in Nat /\ d + 1 - 1 = d
  BY <1>1, KVCacheAssumption
<1>3. QED
  BY <1>1, <1>2 DEF PlaceOf, OffsetAt

LEMMA PlaceWithin ==
    ASSUME NEW p \in Nat \ {0}, NEW n \in Nat, p <= n * BlockSize
    PROVE  PlaceOf(p) \in 1..n
<1> DEFINE i == PlaceOf(p)
<1>1. BlockSize \in Nat /\ BlockSize > 0 /\ i \in Nat \ {0} /\ OffsetAt(p) \in 1..BlockSize
      /\ p = (i - 1) * BlockSize + OffsetAt(p)
  BY KVCacheAssumption, Places
<1> HIDE DEF i
<1>2. (i - 1) * BlockSize \in Nat /\ n - 1 + 1 = n
  BY <1>1
<1>3. (i - 1) * BlockSize <= p - 1 /\ p - 1 < (n - 1 + 1) * BlockSize
  BY <1>1, <1>2
<1>4. i - 1 <= n - 1
  BY <1>1, <1>3, BlockIndex
<1>5. QED
  BY <1>1, <1>4 DEF i
-----------------------------------------------------------------------------
(***************************************************************************)
(* Counts                                                                  *)
(***************************************************************************)
\* The sequences whose table contains b.
Holders(b) == {s \in Seqs : b \in Range(table[s])}

LEMMA SeqSets ==
    ASSUME NEW S \in SUBSET Seqs
    PROVE  IsFiniteSet(S) /\ Cardinality(S) \in Nat
BY FS_Subset, FS_CardinalityType, KVCacheAssumption

LEMMA BlockSets ==
    ASSUME NEW B \in SUBSET Blocks
    PROVE  IsFiniteSet(B) /\ Cardinality(B) \in Nat
BY FS_Subset, FS_Union, FS_CardinalityType, KVCacheAssumption DEF Blocks

LEMMA HoldersCount ==
    ASSUME CountsMatchTables, NEW b \in Blocks
    PROVE  /\ refCount[b] = Cardinality(Holders(b)) /\ IsFiniteSet(Holders(b))
           /\ refCount[b] \in Nat
           /\ refCount[b] = 0 <=> Holders(b) = {}
           /\ \A s \in Holders(b) : refCount[b] = 1 <=> Holders(b) = {s}
<1>1. NumFrees(b, Seqs) = Cardinality(Holders(b))
  BY DEF NumFrees, Holders
<1>2. IsFiniteSet(Holders(b)) /\ Cardinality(Holders(b)) \in Nat
  BY SeqSets DEF Holders
<1>3. refCount[b] = Cardinality(Holders(b))
  BY <1>1 DEF CountsMatchTables
<1>4. Cardinality(Holders(b)) = 0 <=> Holders(b) = {}
  BY <1>2, FS_EmptySet
<1>5. ASSUME NEW s \in Holders(b)
      PROVE  refCount[b] = 1 <=> Holders(b) = {s}
  <2>1. Cardinality({s}) = 1
    BY FS_Singleton
  <2>2. ASSUME Cardinality(Holders(b)) = 1
        PROVE  Holders(b) = {s}
    <3>1. IsFiniteSet(Holders(b) \ {s}) /\ Cardinality(Holders(b) \ {s}) = 0
      BY <1>2, <1>5, <2>2, FS_RemoveElement
    <3>2. Holders(b) \ {s} = {}
      BY <3>1, FS_EmptySet
    <3>3. QED
      BY <1>5, <3>2
  <2>3. QED
    BY <1>3, <2>1, <2>2
<1>6. QED
  BY <1>2, <1>3, <1>4, <1>5

\* A block in a table is counted.
LEMMA HeldIsCounted ==
    ASSUME TypeInv, CountsMatchTables, NEW s \in Seqs, NEW i \in DOMAIN table[s]
    PROVE  table[s][i] \in Blocks /\ refCount[table[s][i]] > 0 /\ s \in Holders(table[s][i])
<1>1. table[s][i] \in Blocks
  BY DEF TypeInv
<1>2. s \in Holders(table[s][i])
  BY DEF Holders, Range
<1>3. QED
  BY <1>1, <1>2, HoldersCount

\* One table changes.
LEMMA OneTableCounts ==
    ASSUME TypeInv, CountsMatchTables, NEW s \in Seqs, NEW t,
           table' = [table EXCEPT ![s] = t],
           \A b \in Blocks : refCount'[b] = refCount[b] + (IF b \in Range(t) THEN 1 ELSE 0)
                                              - (IF b \in Range(table[s]) THEN 1 ELSE 0)
    PROVE  CountsMatchTables'
<1>1. SUFFICES ASSUME NEW b \in Blocks
               PROVE  refCount'[b] = Cardinality(Holders(b)')
  BY DEF CountsMatchTables, NumFrees, Holders
<1>2. \A q \in Seqs : table'[q] = IF q = s THEN t ELSE table[q]
  BY DEF TypeInv
<1>3. /\ refCount[b] = Cardinality(Holders(b)) /\ IsFiniteSet(Holders(b))
      /\ Cardinality(Holders(b)) \in Nat
  BY HoldersCount
<1>4. CASE b \in Range(t) /\ b \notin Range(table[s])
  <2>1. Holders(b)' = Holders(b) \cup {s} /\ s \notin Holders(b)
    BY <1>2, <1>4 DEF Holders
  <2>2. Cardinality(Holders(b)') = Cardinality(Holders(b)) + 1
    BY <1>3, <2>1, FS_AddElement
  <2>3. QED
    BY <1>3, <1>4, <2>2
<1>5. CASE b \notin Range(t) /\ b \in Range(table[s])
  <2>1. Holders(b)' = Holders(b) \ {s} /\ s \in Holders(b)
    BY <1>2, <1>5 DEF Holders
  <2>2. Cardinality(Holders(b)') = Cardinality(Holders(b)) - 1
    BY <1>3, <2>1, FS_RemoveElement
  <2>3. QED
    BY <1>3, <1>5, <2>2
<1>6. CASE b \in Range(t) <=> b \in Range(table[s])
  <2>1. Holders(b)' = Holders(b)
    BY <1>2, <1>6 DEF Holders
  <2>2. QED
    BY <1>3, <1>6, <2>1
<1>7. QED
  BY <1>4, <1>5, <1>6

\* Tables that are given back.
LEMMA FreeTablesCounts ==
    ASSUME TypeInv, CountsMatchTables, NEW S \in SUBSET Seqs, FreeTables(S)
    PROVE  /\ CountsMatchTables'
           /\ refCount' \in [Blocks -> Nat]
           /\ \A b \in Blocks : refCount[b] = 0 => refCount'[b] = 0
<1>1. /\ refCount' = [b \in Blocks |-> refCount[b] - NumFrees(b, S)]
      /\ table' = [s \in Seqs |-> IF s \in S THEN << >> ELSE table[s]]
  BY DEF FreeTables
<1>2. ASSUME NEW b \in Blocks
      PROVE  /\ refCount'[b] = Cardinality(Holders(b)') /\ refCount'[b] \in Nat
             /\ refCount[b] = 0 => refCount'[b] = 0
  <2>1. /\ refCount[b] = Cardinality(Holders(b)) /\ IsFiniteSet(Holders(b))
        /\ Cardinality(Holders(b)) \in Nat
        /\ refCount[b] = 0 <=> Holders(b) = {}
    BY HoldersCount
  <2>2. NumFrees(b, S) = Cardinality(Holders(b) \cap S)
    <3>1. {s \in S : b \in Range(table[s])} = Holders(b) \cap S
      BY DEF Holders
    <3>2. QED
      BY <3>1 DEF NumFrees
  <2>3. Holders(b)' = Holders(b) \ S
    <3>1. Range(<< >>) = {}
      BY DEF Range
    <3>2. \A s \in Seqs : Range(table'[s]) = IF s \in S THEN {} ELSE Range(table[s])
      BY <1>1, <3>1
    <3>3. QED
      BY <3>2 DEF Holders
  <2>4. Cardinality(Holders(b) \ S) = Cardinality(Holders(b)) - Cardinality(Holders(b) \cap S)
    BY <2>1, FS_Difference
  <2>5. IsFiniteSet(Holders(b) \ S) /\ IsFiniteSet(Holders(b) \cap S)
        /\ Cardinality(Holders(b) \ S) \in Nat /\ Cardinality(Holders(b) \cap S) \in Nat
    BY SeqSets DEF Holders
  <2>6. refCount'[b] = refCount[b] - NumFrees(b, S)
    BY <1>1
  <2>7. Holders(b) = {} => Holders(b) \ S = {}
    OBVIOUS
  <2>8. QED
    BY <2>1, <2>2, <2>3, <2>4, <2>5, <2>6, <2>7, FS_EmptySet
<1>3. CountsMatchTables'
  BY <1>2 DEF CountsMatchTables, NumFrees, Holders
<1>4. DOMAIN refCount' = Blocks
  BY <1>1
<1>5. QED
  BY <1>1, <1>2, <1>3

\* More free blocks than before, but for some of them.
LEMMA FreeShrinks ==
    ASSUME NEW F \in SUBSET Blocks, NEW G \in SUBSET Blocks, NEW N \in SUBSET Blocks,
           F \subseteq G \cup N
    PROVE  Cardinality(F) - Cardinality(N) <= Cardinality(G)
<1>1. /\ IsFiniteSet(F) /\ IsFiniteSet(G) /\ IsFiniteSet(N)
      /\ Cardinality(F) \in Nat /\ Cardinality(G) \in Nat /\ Cardinality(N) \in Nat
  BY BlockSets
<1>2. IsFiniteSet(G \cup N) /\ Cardinality(F) <= Cardinality(G \cup N)
  BY <1>1, FS_Union, FS_Subset
<1>3. Cardinality(G \cup N) = Cardinality(G) + Cardinality(N) - Cardinality(G \cap N)
  BY <1>1, FS_Union
<1>4. Cardinality(G \cap N) \in Nat
  BY BlockSets
<1>5. QED
  BY <1>1, <1>2, <1>3, <1>4
-----------------------------------------------------------------------------
(***************************************************************************)
(* Hashes                                                                  *)
(***************************************************************************)
\* A number of the counter is always left.
LEMMA DefaultHashIs ==
    ASSUME TypeInv
    PROVE  /\ DefaultHash \in Seq(Nat) /\ IsDefault(DefaultHash)
           /\ DefaultHash \notin {<< >>, Unnamed}
           /\ \A b \in Blocks : hash[b] # DefaultHash
<1> DEFINE C == Cardinality(Blocks)
           N == 1..C + 1
<1>1. IsFiniteSet(Blocks) /\ C \in Nat
  BY BlockSets
<1>2. \E n \in N : \A b \in Blocks : hash[b] # <<0, n>>
  <2>1. SUFFICES ASSUME \A n \in N : \E b \in Blocks : hash[b] = <<0, n>>
                 PROVE  FALSE
    OBVIOUS
  <2> DEFINE f == [n \in N |-> CHOOSE b \in Blocks : hash[b] = <<0, n>>]
  <2>2. \A n \in N : f[n] \in Blocks /\ hash[f[n]] = <<0, n>>
    BY <2>1
  <2>3. f \in [N -> Blocks]
    BY <2>2
  <2>4. IsFiniteSet(N) /\ Cardinality(N) = C + 1
    BY <1>1, FS_Interval
  <2> HIDE DEF f, N, C
  <2>5. PICK x \in N, y \in N : x # y /\ f[x] = f[y]
    <3>1. Cardinality(Blocks) < Cardinality(N)
      BY <1>1, <2>4 DEF C
    <3>2. QED
      BY <1>1, <2>3, <2>4, <3>1, FS_PigeonHole
  <2>6. <<0, x>> = <<0, y>>
    BY <2>2, <2>5
  <2>7. QED
    BY <2>5, <2>6
<1>3. PICK n \in N : DefaultHash = <<0, n>> /\ \A b \in Blocks : hash[b] # <<0, n>>
  BY <1>2 DEF DefaultHash
<1>4. n \in Nat /\ 0 \in Nat
  BY <1>1
<1>5. <<0, n>> \in Seq(Nat) /\ Len(<<0, n>>) = 2 /\ <<0, n>>[1] = 0
  BY <1>4
<1>6. Len(<< >>) = 0 /\ Len(<<0>>) = 1
  OBVIOUS
<1>7. QED
  BY <1>3, <1>5, <1>6 DEF IsDefault, Unnamed

\* The hash of a block of a sequence names its tokens.
LEMMA HashOfBlockIs ==
    ASSUME TypeInv, NEW s \in Seqs, tokens[s] # << >>, NEW i \in 1..NumBlocks(s)
    PROVE  /\ HashOfBlock(s, i) \in Seq(Nat) /\ ~IsDefault(HashOfBlock(s, i))
           /\ HashOfBlock(s, i) \notin {<< >>, Unnamed}
           /\ FitsAt(HashOfBlock(s, i), i)
           /\ Len(HashOfBlock(s, i)) = MinOf(i * BlockSize, Len(tokens[s]))
<1> DEFINE n == Len(tokens[s])
           c == NumBlocks(s)
           m == MinOf(i * BlockSize, n)
           h == HashOfBlock(s, i)
<1>1. BlockSize \in Nat /\ BlockSize > 0
  BY KVCacheAssumption
<1>2. tokens[s] \in Seq(Tokens) /\ n \in Nat /\ n > 0
  BY DEF TypeInv, Tokens
<1>3. c \in Nat /\ c * BlockSize < n + BlockSize
  BY <1>2, CeilIs DEF NumBlocks
<1> HIDE DEF c
<1>4. i \in Nat /\ i > 0 /\ i <= c
  BY <1>3 DEF c
<1>5. /\ (i - 1) * BlockSize = i * BlockSize - BlockSize
      /\ i * BlockSize \in Nat /\ c * BlockSize \in Nat
  BY <1>1, <1>3, <1>4
<1>6. i * BlockSize <= c * BlockSize
  BY <1>3, <1>4, MulMonotone
<1>7. i * BlockSize >= BlockSize
  <2>1. 1 * BlockSize <= i * BlockSize
    BY <1>4, MulMonotone
  <2>2. QED
    BY <1>1, <2>1
<1>8. m \in 1..n /\ m > (i - 1) * BlockSize /\ m <= i * BlockSize
  BY <1>1, <1>2, <1>3, <1>5, <1>6, <1>7 DEF MinOf
<1>9. h = SubSeq(tokens[s], 1, m)
  BY DEF HashOfBlock, Prefix
<1> HIDE DEF n, m, h
<1>10. h \in Seq(Tokens) /\ Len(h) = m /\ h[1] = tokens[s][1] /\ tokens[s][1] \in Tokens
  BY <1>2, <1>8, <1>9 DEF n
<1>11. h \in Seq(Nat) /\ h[1] # 0
  BY <1>10 DEF Tokens
<1>12. h # << >> /\ h # Unnamed
  <2>1. <<0>>[1] = 0 /\ Len(<< >>) = 0
    OBVIOUS
  <2>2. QED
    BY <1>8, <1>10, <1>11, <2>1 DEF Unnamed
<1>13. FitsAt(h, i)
  <2>1. (i - 1) * BlockSize \in Int /\ i * BlockSize \in Int /\ m \in Int
    BY <1>1, <1>4, <1>5, <1>8 DEF n
  <2>2. m \in (i - 1) * BlockSize + 1..i * BlockSize
    BY <1>8, <2>1
  <2>3. QED
    BY <1>10, <2>2 DEF FitsAt
<1>14. Len(h) = MinOf(i * BlockSize, Len(tokens[s]))
  BY <1>10 DEF m, n
<1>15. ~IsDefault(h)
  BY <1>11 DEF IsDefault
<1>16. QED
  BY <1>11, <1>12, <1>13, <1>14, <1>15 DEF h

\* So does the hash of the last block, or it is a number no block carries.
LEMMA LastHashIs ==
    ASSUME TypeInv, NEW s \in Seqs, tokens[s] # << >>
    PROVE  /\ LastHash(s) \in Seq(Nat) /\ LastHash(s) \notin {<< >>, Unnamed}
           /\ FitsAt(LastHash(s), NumBlocks(s))
           /\ IsDefault(LastHash(s)) => \A b \in Blocks : hash[b] # LastHash(s)
           /\ NumBlocks(s) \in Nat /\ NumBlocks(s) > 0
<1>1. Len(tokens[s]) \in Nat /\ Len(tokens[s]) > 0
  BY DEF TypeInv, Tokens
<1>2. NumBlocks(s) \in Nat /\ NumBlocks(s) > 0
  BY <1>1, CeilIs DEF NumBlocks
<1>3. NumBlocks(s) \in 1..NumBlocks(s)
  BY <1>2
<1>4. CASE IsLastBlockFull(s)
  <2>1. LastHash(s) = HashOfBlock(s, NumBlocks(s))
    BY <1>4 DEF LastHash
  <2>2. QED
    BY <1>2, <1>3, <2>1, HashOfBlockIs
<1>5. CASE ~IsLastBlockFull(s)
  <2>1. LastHash(s) = DefaultHash
    BY <1>5 DEF LastHash
  <2>2. QED
    BY <1>2, <2>1, DefaultHashIs DEF FitsAt
<1>6. QED
  BY <1>4, <1>5

\* n blocks of a device are asked for by their hashes, all different.
Renames(t, hs, n, pool) ==
    /\ pool \in {GpuBlocks, CpuBlocks} /\ n \in Nat /\ hs \in [1..n -> Seq(Nat)]
    /\ IsInjective(hs) /\ \A i \in 1..n : hs[i] \notin {<< >>, Unnamed}
    /\ t \in Allocations(hs, pool) /\ Rename(t, hs)

\* Blocks are renamed only while they are free, and hashes stay unique.
LEMMA RenameKeeps ==
    ASSUME TypeInv, OneBlockPerHash,
           \A b \in Blocks : hash[b] = << >> => ~computed[b],
           NEW t, NEW hs, NEW n, NEW pool, Renames(t, hs, n, pool)
    PROVE  /\ t \in [1..n -> pool] /\ IsInjective(t) /\ t \in Seq(Blocks)
           /\ Range(t) \subseteq pool /\ Range(t) \subseteq Blocks
           /\ hash' \in [Blocks -> Seq(Nat)] /\ computed' \in [Blocks -> BOOLEAN]
           /\ \A i \in 1..n : hash'[t[i]] = hs[i]
           /\ \A b \in Blocks : b \in Range(t) \/ hash'[b] = hash[b]
           /\ \A b \in Blocks : refCount[b] > 0 => hash'[b] = hash[b]
           /\ \A b \in Blocks : hash'[b] = << >> => ~computed'[b]
           /\ OneBlockPerHash'
<1>0. /\ pool \in {GpuBlocks, CpuBlocks} /\ n \in Nat /\ hs \in [1..n -> Seq(Nat)]
      /\ IsInjective(hs) /\ \A i \in 1..n : hs[i] \notin {<< >>, Unnamed}
      /\ t \in Allocations(hs, pool) /\ Rename(t, hs)
  BY DEF Renames
<1>1. /\ t \in [1..n -> pool] /\ IsInjective(t)
      /\ \A i \in 1..n : Allocates(t[i], hs[i], pool \ {t[j] : j \in 1..i - 1})
  BY <1>0 DEF Allocations, Injection
<1>2. pool \subseteq Blocks
  BY <1>0 DEF Blocks
<1>3. t \in Seq(Blocks) /\ Range(t) \subseteq pool
  <2>1. t \in [1..n -> Blocks]
    BY <1>0, <1>1, <1>2
  <2>2. Range(t) \subseteq pool
    BY <1>0, <1>1 DEF Range
  <2>3. QED
    BY <1>0, <2>1, <2>2
<1> DEFINE at(b) == CHOOSE i \in DOMAIN hs : t[i] = b
<1>4. \A i \in 1..n : t[i] \in Range(t) /\ at(t[i]) = i
  BY <1>0, <1>1 DEF IsInjective, Range
<1>5. \A b \in Range(t) : at(b) \in 1..n /\ t[at(b)] = b
  BY <1>0, <1>1, <1>4 DEF Range
<1> HIDE DEF at
<1>6. /\ hash' = [b \in Blocks |-> IF b \in Range(t) THEN hs[at(b)] ELSE hash[b]]
      /\ computed' = [b \in Blocks |-> computed[b] /\ (b \in Range(t) => hash[b] = hs[at(b)])]
  BY <1>0 DEF Rename, at
<1>7. hash' \in [Blocks -> Seq(Nat)] /\ computed' \in [Blocks -> BOOLEAN]
  <2>1. \A b \in Blocks : hash[b] \in Seq(Nat)
    BY <1>0 DEF TypeInv
  <2>2. \A b \in Range(t) : hs[at(b)] \in Seq(Nat)
    BY <1>0, <1>5
  <2>3. QED
    BY <1>0, <1>6, <2>1, <2>2
<1>8. \A i \in 1..n : hash'[t[i]] = hs[i]
  BY <1>0, <1>2, <1>3, <1>4, <1>6
<1>9. \A b \in Blocks : b \in Range(t) \/ hash'[b] = hash[b]
  BY <1>0, <1>6
<1>10. ASSUME NEW i \in 1..n
       PROVE  /\ hash[t[i]] = hs[i] \/ refCount[t[i]] = 0
              /\ \A c \in pool : hash[c] = hs[i] /\ c \notin Range(t) => hash[t[i]] = hs[i]
  <2> DEFINE P == pool \ {t[j] : j \in 1..i - 1}
  <2>1. Allocates(t[i], hs[i], P)
    BY <1>0, <1>1
  <2>2. CASE Named(hs[i], P) # {}
    BY <1>0, <2>1, <2>2 DEF Allocates, Named
  <2>3. CASE Named(hs[i], P) = {}
    <3>1. refCount[t[i]] = 0
      BY <1>0, <2>1, <2>3 DEF Allocates, NewBlock, FreeIn
    <3>2. \A c \in pool : c \notin Range(t) => c \in P
      BY <1>0, <1>1, <1>4
    <3>3. QED
      BY <1>0, <2>3, <3>1, <3>2 DEF Named
  <2>4. QED
    BY <1>0, <2>2, <2>3
<1>11. ASSUME NEW b \in Blocks, refCount[b] > 0
       PROVE  hash'[b] = hash[b]
  <2>1. refCount[b] \in Nat /\ refCount[b] # 0
    BY <1>0, <1>11 DEF TypeInv
  <2>2. CASE b \in Range(t)
    <3>1. PICK i \in 1..n : t[i] = b
      BY <1>5, <2>2
    <3>2. QED
      BY <1>8, <1>10, <2>1, <3>1
  <2>3. QED
    BY <1>0, <1>9, <2>2
<1>12. ASSUME NEW b \in Blocks, hash'[b] = << >>
       PROVE  ~computed'[b]
  <2>1. CASE b \in Range(t)
    <3>1. PICK i \in 1..n : t[i] = b
      BY <1>5, <2>1
    <3>2. hash'[t[i]] = hs[i] /\ hs[i] \notin {<< >>, Unnamed}
      BY <1>0, <1>8
    <3>3. QED
      BY <1>12, <3>1, <3>2
  <2>2. CASE b \notin Range(t)
    BY <1>0, <1>6, <1>9, <1>12, <2>2
  <2>3. QED
    BY <2>1, <2>2
<1>13. OneBlockPerHash'
  <2>1. SUFFICES ASSUME NEW p2 \in {GpuBlocks, CpuBlocks}, NEW b \in p2, NEW c \in p2,
                        hash'[b] \notin {<< >>, Unnamed}, hash'[b] = hash'[c]
                 PROVE  b = c
    BY <1>0 DEF OneBlockPerHash, Unnamed
  <2>2. b \in Blocks /\ c \in Blocks
    BY <1>0 DEF Blocks
  <2>3. hash[b] \notin {<< >>, Unnamed} /\ hash[b] = hash[c] => b = c
    BY <1>0 DEF OneBlockPerHash
  <2>4. \A d, e \in p2 : d \in Range(t) => e \in pool
    BY <1>0, <1>3, KVCacheAssumption
  <2>5. CASE b \in Range(t) /\ c \in Range(t)
    <3>1. hs[at(b)] = hs[at(c)]
      BY <1>0, <1>5, <1>8, <2>1, <2>5
    <3>2. at(b) = at(c)
      BY <1>0, <1>5, <2>5, <3>1 DEF IsInjective
    <3>3. QED
      BY <1>0, <1>5, <2>5, <3>2
  <2>6. CASE b \in Range(t) /\ c \notin Range(t)
    <3>1. hash'[b] = hs[at(b)] /\ hash'[c] = hash[c] /\ c \in pool
      BY <1>0, <1>5, <1>8, <1>9, <2>2, <2>4, <2>6
    <3>2. hash[b] = hs[at(b)]
      BY <1>0, <1>5, <1>10, <2>1, <2>6, <3>1
    <3>3. QED
      BY <1>0, <2>1, <2>3, <3>1, <3>2
  <2>7. CASE b \notin Range(t) /\ c \in Range(t)
    <3>1. hash'[c] = hs[at(c)] /\ hash'[b] = hash[b] /\ b \in pool
      BY <1>0, <1>5, <1>8, <1>9, <2>2, <2>4, <2>7
    <3>2. hash[c] = hs[at(c)]
      BY <1>0, <1>5, <1>10, <2>1, <2>7, <3>1
    <3>3. QED
      BY <1>0, <2>1, <2>3, <3>1, <3>2
  <2>8. CASE b \notin Range(t) /\ c \notin Range(t)
    BY <1>0, <1>9, <2>1, <2>2, <2>3, <2>8
  <2>9. QED
    BY <1>0, <2>5, <2>6, <2>7, <2>8
<1>14. QED
  BY <1>0, <1>1, <1>2, <1>3, <1>7, <1>8, <1>9, <1>11, <1>12, <1>13
-----------------------------------------------------------------------------
(***************************************************************************)
(* Prefix caching: append_slots()                                          *)
(***************************************************************************)
\* What a step of a block manager for the sequence s keeps.
BlockTypes ==
    /\ table \in [Seqs -> Seq(Blocks)]
    /\ hash \in [Blocks -> Seq(Nat)]
    /\ refCount \in [Blocks -> Nat]
    /\ computed \in [Blocks -> BOOLEAN]
    /\ seen \in [Seqs -> Nat]
    /\ pending \in [copies : SUBSET (Blocks \X Blocks), moves : SUBSET (Blocks \X Blocks),
                    fresh : SUBSET Blocks]

LEMMA PendingType ==
    ASSUME TypeInv, NEW c \in SUBSET (Blocks \X Blocks), NEW m \in SUBSET (Blocks \X Blocks),
           NEW f \in SUBSET Blocks, AddPending(c, m, f)
    PROVE  /\ pending' \in [copies : SUBSET (Blocks \X Blocks),
                            moves : SUBSET (Blocks \X Blocks), fresh : SUBSET Blocks]
           /\ pending'.copies = pending.copies \cup c /\ pending'.moves = pending.moves \cup m
           /\ pending'.fresh = pending.fresh \cup f
BY DEF AddPending, TypeInv

\* A block that append_slots() may put in the last place of a table is in no
\* place before.
LEMMA NotBefore ==
    ASSUME BlocksInv, ~UsesV2, NEW s \in Seqs, tokens[s] # << >>, NEW b \in Blocks,
           refCount[b] = 0 \/ hash[b] = LastHash(s),
           NEW j \in DOMAIN table[s], j < NumBlocks(s)
    PROVE  table[s][j] # b
<1>1. SUFFICES ASSUME table[s][j] = b PROVE FALSE
  OBVIOUS
<1>2. TypeInv /\ CountsMatchTables /\ HashInv
  BY DEF BlocksInv, TableInv
<1>3. refCount[b] > 0
  BY <1>1, <1>2, HeldIsCounted
<1>4. hash[b] = LastHash(s)
  BY <1>2, <1>3 DEF TypeInv
<1>5. ~IsDefault(hash[b]) /\ FitsAt(hash[b], NumBlocks(s)) /\ FitsAt(hash[b], j)
      /\ NumBlocks(s) \in Nat
  BY <1>1, <1>2, <1>4, LastHashIs DEF HashInv
<1>6. hash[b] \in Seq(Nat) /\ table[s] \in Seq(Blocks)
  BY <1>2 DEF TypeInv
<1> DEFINE n == NumBlocks(s)
           l == Len(hash[b])
<1>7. l \in Nat /\ l \in (n - 1) * BlockSize + 1..n * BlockSize
      /\ l \in (j - 1) * BlockSize + 1..j * BlockSize /\ j \in Nat
  BY <1>5, <1>6 DEF FitsAt
<1>8. BlockSize \in Nat
  BY KVCacheAssumption
<1> HIDE DEF n, l
<1>9. n \in Nat /\ j < n
  BY <1>5 DEF n
<1>10. (n - 1) * BlockSize \in Int /\ j * BlockSize \in Int
  BY <1>7, <1>8, <1>9
<1>11. j * BlockSize <= (n - 1) * BlockSize
  BY <1>7, <1>9, MulMonotone
<1>12. QED
  BY <1>7, <1>10, <1>11

\* The last place of a table is filled, or filled anew.
FillsLast(t, n, b, u) ==
    /\ t \in Seq(Blocks) /\ IsInjective(t) /\ b \in Blocks
    /\ n \in {Len(t), Len(t) + 1} /\ n # 0
    /\ \A j \in DOMAIN t : j < n => t[j] # b
    /\ u = IF n = Len(t) THEN [t EXCEPT ![n] = b] ELSE Append(t, b)

LEMMA LastPlace ==
    ASSUME NEW t, NEW n, NEW b, NEW u, FillsLast(t, n, b, u)
    PROVE  /\ u \in Seq(Blocks) /\ Len(u) = n /\ DOMAIN u = 1..n /\ n \in Nat /\ u[n] = b
           /\ \A j \in 1..n : j # n => j \in DOMAIN t /\ u[j] = t[j] /\ j < n
           /\ IsInjective(u)
           /\ Range(u) = IF n = Len(t) THEN (Range(t) \ {t[n]}) \cup {b} ELSE Range(t) \cup {b}
           /\ b \in Range(t) => n = Len(t) /\ t[n] = b
<1>0. /\ t \in Seq(Blocks) /\ IsInjective(t) /\ b \in Blocks
      /\ n \in {Len(t), Len(t) + 1} /\ n # 0
      /\ \A j \in DOMAIN t : j < n => t[j] # b
      /\ u = IF n = Len(t) THEN [t EXCEPT ![n] = b] ELSE Append(t, b)
  BY DEF FillsLast
<1>1. /\ u \in Seq(Blocks) /\ Len(u) = n /\ DOMAIN u = 1..n /\ n \in Nat /\ n > 0 /\ u[n] = b
      /\ DOMAIN t = 1..Len(t) /\ Len(t) \in Nat
      /\ \A j \in 1..n : j # n => j \in DOMAIN t /\ u[j] = t[j] /\ j < n
  BY <1>0
<1>5. n \in 1..n
  <2>1. n \in Nat /\ n # 0
    BY <1>0, <1>1
  <2>2. QED
    BY <2>1
<1>2. IsInjective(u)
  <2>1. SUFFICES ASSUME NEW i \in 1..n, NEW j \in 1..n, u[i] = u[j] PROVE i = j
    BY <1>0, <1>1 DEF IsInjective
  <2>2. CASE i # n /\ j # n
    BY <1>0, <1>1, <2>1, <2>2 DEF IsInjective
  <2>3. CASE i = n /\ j # n
    BY <1>0, <1>1, <2>1, <2>3
  <2>4. CASE i # n /\ j = n
    BY <1>0, <1>1, <2>1, <2>4
  <2>5. QED
    BY <2>2, <2>3, <2>4
<1>3. CASE n = Len(t)
  <2>1. n \in DOMAIN t
    <3>1. DOMAIN t = 1..n
      BY <1>0, <1>1, <1>3
    <3>2. QED
      BY <1>5, <3>1
  <2>2. \A j \in 1..n : j # n => t[j] # t[n]
    BY <1>0, <1>1, <2>1 DEF IsInjective
  <2>3. Range(u) = (Range(t) \ {t[n]}) \cup {b}
    <3>1. ASSUME NEW x \in Range(u) PROVE x \in (Range(t) \ {t[n]}) \cup {b}
      <4>1. PICK j \in 1..n : x = u[j]
        BY <1>0, <1>1, <3>1 DEF Range
      <4>2. j # n => t[j] \in Range(t) /\ x = t[j]
        BY <1>0, <1>1, <4>1 DEF Range
      <4>3. QED
        BY <1>0, <1>1, <2>2, <4>1, <4>2
    <3>2. ASSUME NEW x \in (Range(t) \ {t[n]}) \cup {b} PROVE x \in Range(u)
      <4>1. CASE x = b
        BY <1>0, <1>1, <4>1 DEF Range
      <4>2. CASE x # b
        <5>1. PICK j \in DOMAIN t : x = t[j] /\ j # n
          BY <3>2, <4>2 DEF Range
        <5>2. j \in 1..n /\ u[j] = x
          BY <1>0, <1>1, <1>3, <5>1
        <5>3. QED
          BY <1>0, <1>1, <5>2 DEF Range
      <4>3. QED
        BY <4>1, <4>2
    <3>3. QED
      BY <3>1, <3>2
  <2>4. b \in Range(t) => t[n] = b
    <3>1. SUFFICES ASSUME NEW j \in DOMAIN t, t[j] = b PROVE t[n] = b
      BY DEF Range
    <3>2. j = n
      BY <1>0, <1>1, <1>3, <3>1
    <3>3. QED
      BY <3>1, <3>2
  <2>5. QED
    BY <1>0, <1>1, <1>2, <1>3, <2>3, <2>4
<1>4. CASE n # Len(t)
  <2>1. n = Len(t) + 1 /\ u = Append(t, b)
    BY <1>0, <1>4
  <2>2. \A j \in DOMAIN t : j < n /\ j \in 1..n /\ j # n
    <3>1. DOMAIN t = 1..Len(t) /\ Len(t) \in Nat
      BY <1>0, <1>1
    <3>2. n = Len(t) + 1
      BY <2>1
    <3>3. QED
      BY ONLY <3>1, <3>2
  <2>3. b \notin Range(t)
    BY <1>0, <2>2 DEF Range
  <2>4. Range(u) = Range(t) \cup {b}
    <3>1. Range(u) \subseteq Range(t) \cup {b}
      BY <1>0, <1>1 DEF Range
    <3>2. Range(t) \subseteq Range(u)
      <4>1. SUFFICES ASSUME NEW j \in DOMAIN t PROVE t[j] \in Range(u)
        BY DEF Range
      <4>2. u[j] = t[j] /\ j \in DOMAIN u
        BY <1>0, <1>1, <2>2
      <4>3. QED
        BY <4>2 DEF Range
    <3>3. b \in Range(u)
      <4>1. n \in DOMAIN u /\ u[n] = b
        BY <1>5, <1>0, <1>1
      <4>2. QED
        BY <4>1 DEF Range
    <3>4. QED
      BY <3>1, <3>2, <3>3
  <2>5. QED
    BY <1>0, <1>1, <1>2, <1>4, <2>3, <2>4
<1>6. QED
  BY <1>3, <1>4

\* What append_slots() does for s: the last place of its table is filled.
SlotGiven(s) ==
    /\ table' \in [Seqs -> Seq(Blocks)] /\ hash' \in [Blocks -> Seq(Nat)]
    /\ refCount' \in [Blocks -> Nat] /\ computed' \in [Blocks -> BOOLEAN] /\ seen' = seen
    /\ TableInv' /\ HashInv'
    /\ Len(table'[s]) = NumBlocks(s) /\ table'[s] # << >>
    /\ \A q \in Seqs : q # s => table'[q] = table[q]
    /\ Cardinality(FreeIn(GpuBlocks)) - 1 <= Cardinality(FreeIn(GpuBlocks)')

LEMMA FillLastPlace ==
    ASSUME BlocksInv, ~UsesV2, NEW s \in Seqs, status[s] = "RUNNING", NEW b \in GpuBlocks,
           refCount[b] = 0 \/ hash[b] = LastHash(s),
           NEW u, FillsLast(table[s], NumBlocks(s), b, u),
           table' = [table EXCEPT ![s] = u],
           refCount' = [x \in Blocks |-> refCount[x] + (IF x \in Range(u) THEN 1 ELSE 0)
                                                     - (IF x \in Range(table[s]) THEN 1 ELSE 0)],
           hash' \in [Blocks -> Seq(Nat)], computed' \in [Blocks -> BOOLEAN], OneBlockPerHash',
           \A x \in Blocks : refCount[x] > 0 => hash'[x] = hash[x],
           hash'[b] = LastHash(s), \A x \in Blocks : hash'[x] = << >> => ~computed'[x],
           UNCHANGED <<setup, status, tokens, seen>>
    PROVE  SlotGiven(s)
<1> DEFINE t == table[s]
           n == NumBlocks(s)
<1>1. TypeInv /\ CountsMatchTables /\ HashInv /\ StatusInv
  BY DEF BlocksInv, TableInv
<1>2. b \in Blocks /\ t \in Seq(Blocks) /\ IsInjective(t) /\ tokens[s] # << >>
      /\ Range(t) \subseteq GpuBlocks
  BY DEF BlocksInv, TypeInv, TableInv, StatusInv, Blocks
<1>3. /\ n \in Nat /\ n > 0 /\ LastHash(s) \notin {<< >>, Unnamed} /\ FitsAt(LastHash(s), n)
  BY <1>1, <1>2, LastHashIs
<1>4. \A j \in DOMAIN t : j < n => t[j] # b
  BY DEF FillsLast
<1>5. /\ u \in Seq(Blocks) /\ Len(u) = n /\ DOMAIN u = 1..n /\ u[n] = b
      /\ \A j \in 1..n : j # n => j \in DOMAIN t /\ u[j] = t[j]
      /\ IsInjective(u) /\ Range(u) \subseteq Range(t) \cup {b}
  <2> HIDE DEF n, t
  <2>1. FillsLast(t, n, b, u)
    BY DEF t, n
  <2>2. QED
    BY ONLY <2>1, LastPlace
<1>6. \A q \in Seqs : table'[q] = IF q = s THEN u ELSE table[q]
  BY <1>1 DEF TypeInv
<1>7. table' \in [Seqs -> Seq(Blocks)]
  <2>1. \A q \in Seqs : table'[q] \in Seq(Blocks)
    BY <1>1, <1>5, <1>6 DEF TypeInv
  <2>2. QED
    BY <1>1, <2>1 DEF TypeInv
<1>8. CountsMatchTables'
  <2>1. \A x \in Blocks : refCount'[x] = refCount[x] + (IF x \in Range(u) THEN 1 ELSE 0)
                                                     - (IF x \in Range(table[s]) THEN 1 ELSE 0)
    OBVIOUS
  <2>2. QED
    BY <1>1, <2>1, OneTableCounts
<1>9. refCount' \in [Blocks -> Nat]
  <2>1. \A x \in Blocks : refCount[x] \in Nat /\ (x \in Range(t) => refCount[x] > 0)
    BY <1>1, HeldIsCounted DEF Range, TypeInv
  <2>2. \A x \in Blocks : refCount'[x] \in Nat
    BY <2>1
  <2>3. QED
    BY <2>2
<1>10. TableInv'
  <2>1. SUFFICES ASSUME NEW q \in Seqs
                 PROVE  /\ IsInjective(table'[q])
                        /\ Range(table'[q]) \subseteq
                              IF status'[q] = "SWAPPED" THEN CpuBlocks ELSE GpuBlocks
    BY <1>8 DEF TableInv
  <2>2. CASE q = s
    <3>1. table'[q] = u /\ status'[q] = "RUNNING"
      BY <1>6, <2>2
    <3>2. Range(u) \subseteq GpuBlocks
      BY <1>2, <1>5
    <3>3. QED
      BY <1>5, <3>1, <3>2
  <2>3. CASE q # s
    BY <1>6, <2>3 DEF BlocksInv, TableInv
  <2>4. QED
    BY <2>2, <2>3
<1>11. ASSUME NEW x \in Blocks, refCount'[x] > 0
       PROVE  hash'[x] \notin {<< >>, Unnamed}
  <2>1. CASE x = b
    BY <1>3, <2>1
  <2>2. CASE x # b
    <3>1. x \in Range(u) => x \in Range(t)
      BY <1>5, <2>2
    <3>2. refCount[x] > 0
      BY <1>1, <1>11, <3>1 DEF TypeInv
    <3>3. QED
      BY <1>1, <3>2 DEF HashInv
  <2>3. QED
    BY <2>1, <2>2
<1>12. ASSUME NEW q \in Seqs, NEW i \in DOMAIN table'[q]
       PROVE  FitsAt(hash'[table'[q][i]], i)
  <2>1. CASE q = s /\ i = n
    BY <1>3, <1>5, <1>6, <2>1
  <2>2. CASE ~(q = s /\ i = n)
    <3>1. i \in DOMAIN table[q] /\ table'[q][i] = table[q][i]
      BY <1>5, <1>6, <1>12, <2>2
    <3>2. hash'[table[q][i]] = hash[table[q][i]]
      BY <1>1, <3>1, HeldIsCounted
    <3>3. QED
      BY <1>1, <3>1, <3>2 DEF HashInv
  <2>3. QED
    BY <2>1, <2>2
<1>13. HashInv'
  <2>1. ~UsesV2'
    BY DEF UsesV2
  <2>2. \A x \in Blocks : refCount'[x] > 0 => hash'[x] \notin {<< >>, Unnamed'}
    BY <1>11 DEF Unnamed
  <2>3. \A q \in Seqs : \A i \in DOMAIN table'[q] : FitsAt(hash'[table'[q][i]], i)
    BY <1>12
  <2>4. QED
    BY <2>1, <2>2, <2>3 DEF HashInv
<1>14. Cardinality(FreeIn(GpuBlocks)) - 1 <= Cardinality(FreeIn(GpuBlocks)')
  <2>1. FreeIn(GpuBlocks) \subseteq FreeIn(GpuBlocks)' \cup {b}
    <3>1. SUFFICES ASSUME NEW x \in FreeIn(GpuBlocks), x # b PROVE refCount'[x] = 0
      BY DEF FreeIn
    <3>2. x \in Blocks /\ refCount[x] = 0
      BY DEF FreeIn, Blocks
    <3>3. x \notin Range(t)
      BY <1>1, <3>2, HeldIsCounted DEF Range
    <3>4. x \notin Range(u)
      BY <1>5, <3>1, <3>3
    <3>5. QED
      BY <3>2, <3>3, <3>4
  <2>2. Cardinality({b}) = 1
    BY FS_Singleton
  <2>3. FreeIn(GpuBlocks) \in SUBSET Blocks /\ FreeIn(GpuBlocks)' \in SUBSET Blocks /\ {b} \in SUBSET Blocks
    BY <1>2 DEF FreeIn, Blocks
  <2>4. QED
    BY <2>1, <2>2, <2>3, FreeShrinks
<1>15. table'[s] = u /\ Len(table'[s]) = n /\ u # << >>
  <2>1. Len(u) # 0
    BY <1>3, <1>5
  <2>2. table'[s] = u
    BY <1>6
  <2>3. QED
    BY <1>5, <2>1, <2>2
<1>16. QED
  BY <1>6, <1>7, <1>9, <1>10, <1>13, <1>14, <1>15 DEF SlotGiven

\* One block is asked for by its hash.
LEMMA RenameOne ==
    ASSUME BlocksInv, ~UsesV2, NEW b \in GpuBlocks, NEW h \in Seq(Nat), h \notin {<< >>, Unnamed},
           Allocates(b, h, GpuBlocks), Rename(<<b>>, <<h>>)
    PROVE  /\ hash' \in [Blocks -> Seq(Nat)] /\ computed' \in [Blocks -> BOOLEAN]
           /\ OneBlockPerHash' /\ hash'[b] = h
           /\ \A x \in Blocks : refCount[x] > 0 => hash'[x] = hash[x]
           /\ \A x \in Blocks : hash'[x] = << >> => ~computed'[x]
           /\ refCount[b] = 0 \/ hash[b] = h
<1> DEFINE t == <<b>>
           hs == <<h>>
<1>1. /\ TypeInv /\ OneBlockPerHash
      /\ \A x \in Blocks : hash[x] = << >> => ~computed[x]
  BY DEF BlocksInv, HashInv
<1>2. hs \in [1..1 -> Seq(Nat)] /\ IsInjective(hs) /\ \A i \in 1..1 : hs[i] \notin {<< >>, Unnamed}
  BY DEF IsInjective
<1>3. t \in Allocations(hs, GpuBlocks)
  <2>1. DOMAIN hs = {1} /\ t \in [{1} -> GpuBlocks] /\ IsInjective(t)
    BY DEF IsInjective
  <2>2. t[1] = b /\ hs[1] = h
    OBVIOUS
  <2>3. GpuBlocks \ {t[j] : j \in 1..1 - 1} = GpuBlocks
    OBVIOUS
  <2> HIDE DEF t, hs
  <2>4. Allocates(t[1], hs[1], GpuBlocks \ {t[j] : j \in 1..1 - 1})
    BY <2>2, <2>3
  <2>5. QED
    BY <2>1, <2>4 DEF Allocations, Injection
<1>4. /\ hash' \in [Blocks -> Seq(Nat)] /\ computed' \in [Blocks -> BOOLEAN]
      /\ \A i \in 1..1 : hash'[t[i]] = hs[i]
      /\ \A x \in Blocks : refCount[x] > 0 => hash'[x] = hash[x]
      /\ \A x \in Blocks : hash'[x] = << >> => ~computed'[x]
      /\ OneBlockPerHash'
  <2> DEFINE n == 1
  <2>1. n \in Nat /\ hs \in [1..n -> Seq(Nat)] /\ \A i \in 1..n : hs[i] \notin {<< >>, Unnamed}
    BY <1>2
  <2> HIDE DEF n, t, hs
  <2>2. Renames(t, hs, n, GpuBlocks)
    BY <1>2, <1>3, <2>1 DEF t, hs, Renames
  <2>3. QED
    BY <1>1, <2>2, RenameKeeps DEF n
<1>5. refCount[b] = 0 \/ hash[b] = h
  BY DEF Allocates, Named, NewBlock, FreeIn
<1>6. QED
  BY <1>4, <1>5

\* A sequence with all its blocks, the last one of which is another one now.
LEMMA LastBlockChanges ==
    ASSUME BlocksInv, ~UsesV2, NEW s \in Seqs, status[s] = "RUNNING", ~NeedsBlock(s),
           NEW b \in GpuBlocks, refCount[b] = 0 \/ hash[b] = LastHash(s),
           table' = [table EXCEPT ![s][Len(table[s])] = b],
           refCount' = [x \in Blocks |-> refCount[x] + (IF x = b THEN 1 ELSE 0)
                                                    - (IF x = LastBlock(s) THEN 1 ELSE 0)],
           hash' \in [Blocks -> Seq(Nat)], computed' \in [Blocks -> BOOLEAN], OneBlockPerHash',
           \A x \in Blocks : refCount[x] > 0 => hash'[x] = hash[x],
           hash'[b] = LastHash(s), \A x \in Blocks : hash'[x] = << >> => ~computed'[x],
           UNCHANGED <<setup, status, tokens, seen>>
    PROVE  SlotGiven(s)
<1> DEFINE t == table[s]
           n == NumBlocks(s)
           u == [t EXCEPT ![n] = b]
<1>1. TypeInv /\ StatusInv /\ t \in Seq(Blocks) /\ IsInjective(t) /\ b \in Blocks
  BY DEF BlocksInv, TypeInv, TableInv, Blocks
<1>2. tokens[s] # << >> /\ Len(t) \in {n - 1, n} /\ Placed(s)
  BY <1>1 DEF BlocksInv, FitInv, StatusInv, Placed
<1>3. n \in Nat /\ n > 0
  BY <1>1, <1>2, LastHashIs
<1>4. Len(t) \in Nat /\ DOMAIN t = 1..Len(t)
  BY <1>1
<1>5. n = Len(t)
  BY <1>2, <1>3, <1>4 DEF NeedsBlock
<1>6. \A j \in DOMAIN t : j < n => t[j] # b
  BY <1>1, <1>2, NotBefore
<1>7. FillsLast(t, n, b, u)
  <2>1. n \in {Len(t), Len(t) + 1} /\ n # 0
    BY <1>3, <1>5
  <2> HIDE DEF t, n
  <2>2. u = IF n = Len(t) THEN [t EXCEPT ![n] = b] ELSE Append(t, b)
    BY <1>5
  <2> HIDE DEF u
  <2>3. QED
    BY <1>1, <1>6, <2>1, <2>2 DEF FillsLast
<1> HIDE DEF n, u
<1>8. Range(u) = (Range(t) \ {t[n]}) \cup {b} /\ (b \in Range(t) => t[n] = b)
  BY <1>5, <1>7, LastPlace
<1>9. t[n] \in Range(t) /\ t[n] = LastBlock(s)
  <2>1. n \in DOMAIN t
    BY <1>3, <1>4, <1>5
  <2>2. QED
    BY <1>5, <2>1 DEF Range, LastBlock
<1>10. refCount' = [x \in Blocks |-> refCount[x] + (IF x \in Range(u) THEN 1 ELSE 0)
                                                 - (IF x \in Range(table[s]) THEN 1 ELSE 0)]
  <2>1. \A x \in Blocks : refCount[x] \in Nat
    BY <1>1 DEF TypeInv
  <2>2. ASSUME NEW x \in Blocks
        PROVE  refCount[x] + (IF x = b THEN 1 ELSE 0) - (IF x = LastBlock(s) THEN 1 ELSE 0)
                 = refCount[x] + (IF x \in Range(u) THEN 1 ELSE 0)
                               - (IF x \in Range(table[s]) THEN 1 ELSE 0)
    <3>1. CASE x = b
      BY <1>8, <1>9, <2>1, <3>1
    <3>2. CASE x # b
      BY <1>8, <1>9, <2>1, <3>2
    <3>3. QED
      BY <3>1, <3>2
  <2>3. QED
    BY <2>2
<1>11. table' = [table EXCEPT ![s] = u]
  BY <1>1, <1>5 DEF u
<1>12. FillsLast(table[s], NumBlocks(s), b, u)
  BY <1>7 DEF n
<1> HIDE DEF t
<1>13. QED
  BY <1>10, <1>11, <1>12, FillLastPlace

LEMMA AppendSlotKeeps ==
    ASSUME BlocksInv, ~UsesV2, NEW s \in Seqs, status[s] = "RUNNING", AppendSlot(s),
           UNCHANGED <<setup, status, tokens>>
    PROVE  /\ SlotGiven(s) /\ pending'.moves = pending.moves
           /\ pending' \in [copies : SUBSET (Blocks \X Blocks),
                            moves : SUBSET (Blocks \X Blocks), fresh : SUBSET Blocks]
<1> DEFINE t == table[s]
           n == NumBlocks(s)
           L == LastBlock(s)
<1>1. /\ TypeInv /\ StatusInv /\ HashInv /\ TableInv /\ t \in Seq(Blocks) /\ GpuBlocks \subseteq Blocks
      /\ \A x \in Blocks : hash[x] = << >> => ~computed[x]
      /\ OneBlockPerHash
  BY DEF BlocksInv, TypeInv, HashInv, Blocks
<1>2. tokens[s] # << >> /\ Len(t) \in {n - 1, n} /\ Placed(s) /\ t # << >> /\ Len(t) \in Nat
  BY <1>1 DEF BlocksInv, FitInv, StatusInv, Placed
<1>3. n \in Nat /\ n > 0 /\ LastHash(s) \in Seq(Nat) /\ LastHash(s) \notin {<< >>, Unnamed}
      /\ FitsAt(LastHash(s), n)
  BY <1>1, <1>2, LastHashIs
<1>4. Len(t) \in DOMAIN t /\ L = t[Len(t)] /\ L \in Blocks /\ refCount[L] > 0
  <2>1. Len(t) # 0 /\ DOMAIN t = 1..Len(t) /\ Len(t) \in Nat
    BY <1>1, <1>2
  <2>2. Len(t) \in DOMAIN t
    BY <2>1
  <2>3. QED
    BY <1>1, <2>2, HeldIsCounted DEF LastBlock, TableInv
<1>5. \A x \in Blocks : refCount[x] \in Nat
  BY <1>1 DEF TypeInv
<1>6. pending \in [copies : SUBSET (Blocks \X Blocks),
                   moves : SUBSET (Blocks \X Blocks), fresh : SUBSET Blocks]
  BY <1>1 DEF TypeInv
<1>7. \A b \in GpuBlocks : Fresh(<<b>>, <<LastHash(s)>>) \in SUBSET Blocks
                           /\ {<<L, b>>} \in SUBSET (Blocks \X Blocks)
  BY <1>1, <1>4 DEF Fresh
<1>8. ASSUME AppendNewBlock(s)
      PROVE  SlotGiven(s) /\ pending'.moves = pending.moves
             /\ pending' \in [copies : SUBSET (Blocks \X Blocks),
                            moves : SUBSET (Blocks \X Blocks), fresh : SUBSET Blocks]
  <2>1. PICK b \in GpuBlocks :
         /\ Allocates(b, LastHash(s), GpuBlocks)
         /\ table' = [table EXCEPT ![s] = Append(@, b)]
         /\ Rename(<<b>>, <<LastHash(s)>>)
         /\ refCount' = [refCount EXCEPT ![b] = @ + 1]
         /\ AddPending({}, {}, Fresh(<<b>>, <<LastHash(s)>>))
    BY <1>8 DEF AppendNewBlock
  <2>2. n = Len(t) + 1 /\ seen' = seen
    BY <1>2, <1>3, <1>8 DEF AppendNewBlock, NeedsBlock
  <2>3. /\ hash' \in [Blocks -> Seq(Nat)] /\ computed' \in [Blocks -> BOOLEAN]
        /\ OneBlockPerHash' /\ hash'[b] = LastHash(s)
        /\ \A x \in Blocks : refCount[x] > 0 => hash'[x] = hash[x]
        /\ \A x \in Blocks : hash'[x] = << >> => ~computed'[x]
        /\ refCount[b] = 0 \/ hash[b] = LastHash(s)
    BY <1>3, <2>1, RenameOne
  <2>4. b \in Blocks /\ \A j \in DOMAIN t : j < n => t[j] # b
    BY <1>1, <1>2, <2>3, NotBefore
  <2> DEFINE u == Append(t, b)
  <2>5. n # Len(t)
    BY <1>2, <2>2
  <2>6. FillsLast(t, n, b, u)
    <3>1. IsInjective(t)
      BY <1>1 DEF TableInv
    <3> HIDE DEF t, n
    <3>2. QED
      BY <1>1, <1>3, <2>2, <2>4, <2>5, <3>1 DEF FillsLast
  <2> HIDE DEF u
  <2>7. Range(u) = Range(t) \cup {b} /\ b \notin Range(t)
    <3> HIDE DEF t, n
    <3>1. QED
      BY <2>5, <2>6, LastPlace
  <2>8. refCount' = [x \in Blocks |-> refCount[x] + (IF x \in Range(u) THEN 1 ELSE 0)
                                                  - (IF x \in Range(table[s]) THEN 1 ELSE 0)]
    <3>1. ASSUME NEW x \in Blocks
          PROVE  refCount'[x] = refCount[x] + (IF x \in Range(u) THEN 1 ELSE 0)
                                            - (IF x \in Range(table[s]) THEN 1 ELSE 0)
      BY <1>1, <1>5, <2>1, <2>7 DEF TypeInv
    <3>2. refCount' \in [Blocks -> Int] \/ DOMAIN refCount' = Blocks
      BY <1>1, <2>1 DEF TypeInv
    <3>3. refCount' = [x \in Blocks |-> refCount'[x]]
      BY <1>1, <2>1 DEF TypeInv
    <3>4. QED
      BY <3>1, <3>3
  <2>9. table' = [table EXCEPT ![s] = u]
    BY <2>1 DEF u
  <2>10. FillsLast(table[s], NumBlocks(s), b, u)
    BY <2>6
  <2>11. SlotGiven(s)
    <3> HIDE DEF t, n
    <3>1. QED
      BY <2>2, <2>3, <2>8, <2>9, <2>10, FillLastPlace
  <2>12. /\ pending'.moves = pending.moves \cup {}
         /\ pending' \in [copies : SUBSET (Blocks \X Blocks),
                          moves : SUBSET (Blocks \X Blocks), fresh : SUBSET Blocks]
    BY <1>1, <1>7, <2>1, PendingType
  <2>13. QED
    BY <2>11, <2>12
<1>9. ASSUME AppendInPlace(s)
      PROVE  SlotGiven(s) /\ pending' = pending
  <2>1. UNCHANGED <<table, hash, refCount, computed, seen, pending>> /\ n = Len(t)
    BY <1>2, <1>3, <1>9 DEF AppendInPlace, NeedsBlock
  <2>2. TableInv' /\ HashInv'
    <3>1. TableInv'
      BY <1>1, <2>1 DEF TableInv, CountsMatchTables, NumFrees
    <3>2. HashInv'
      BY <1>1, <2>1 DEF HashInv, UsesV2, FitsAt, IsDefault, OneBlockPerHash, Unnamed
    <3>3. QED
      BY <3>1, <3>2
  <2>3. FreeIn(GpuBlocks)' = FreeIn(GpuBlocks) /\ Cardinality(FreeIn(GpuBlocks)) \in Nat
    BY <1>1, <2>1, BlockSets DEF FreeIn
  <2>4. QED
    BY <1>1, <1>2, <2>1, <2>2, <2>3 DEF SlotGiven, TypeInv
<1>10. ASSUME PromoteLastBlock(s)
       PROVE  SlotGiven(s) /\ pending' = pending
  <2> DEFINE h == HashOfBlock(s, n)
  <2>1. /\ ~NeedsBlock(s) /\ refCount[L] = 1 /\ IsLastBlockFull(s) /\ n = Len(t)
        /\ UNCHANGED <<computed, seen, pending>>
    BY <1>2, <1>3, <1>10 DEF PromoteLastBlock, NeedsBlock
  <2>2. h = LastHash(s)
    BY <2>1 DEF LastHash
  <2>3. CASE /\ Named(h, GpuBlocks) = {}
             /\ hash' = [hash EXCEPT ![L] = h]
             /\ UNCHANGED <<table, refCount>>
    <3>1. \A x \in Blocks : hash'[x] = IF x = L THEN h ELSE hash[x]
      BY <1>1, <1>4, <2>3 DEF TypeInv
    <3>2. hash' \in [Blocks -> Seq(Nat)]
      BY <1>1, <1>3, <2>2, <2>3 DEF TypeInv
    <3>3. L \in GpuBlocks
      BY <1>1, <1>4 DEF TableInv, Range
    <3>4. TableInv'
      BY <1>1, <2>3 DEF TableInv, CountsMatchTables, NumFrees
    <3>5. \A x \in Blocks : refCount'[x] > 0 => hash'[x] \notin {<< >>, Unnamed}
      <4> HIDE DEF h
      <4>1. \A x \in Blocks : refCount[x] > 0 => hash[x] \notin {<< >>, Unnamed}
        BY <1>1 DEF HashInv
      <4>2. QED
        BY <1>3, <2>2, <2>3, <3>1, <4>1
    <3>6. \A x \in Blocks : hash'[x] = << >> => ~computed'[x]
      BY <1>1, <1>3, <2>1, <2>2, <3>1
    <3>7. ASSUME NEW q \in Seqs, NEW i \in DOMAIN table'[q]
          PROVE  FitsAt(hash'[table'[q][i]], i)
      <4>1. i \in DOMAIN table[q] /\ table'[q][i] = table[q][i] /\ table[q][i] \in Blocks
        BY <1>1, <2>3, <3>7 DEF TypeInv
      <4>2. CASE table[q][i] # L
        <5>1. hash'[table[q][i]] = hash[table[q][i]]
          BY <3>1, <4>1, <4>2
        <5>2. QED
          BY <1>1, <4>1, <5>1 DEF HashInv
      <4>3. CASE table[q][i] = L
        <5>1. Holders(L) = {s} /\ q \in Holders(L)
          <6>1. s \in Holders(L) /\ q \in Holders(L)
            BY <1>1, <1>4, <4>1, <4>3, HeldIsCounted DEF TableInv
          <6>2. QED
            BY <1>1, <1>4, <2>1, <6>1, HoldersCount DEF TableInv
        <5>2. q = s
          BY <5>1
        <5>3. i = n
          <6>1. IsInjective(t)
            BY <1>1 DEF TableInv
          <6>2. QED
            BY <1>4, <2>1, <4>1, <4>3, <5>2, <6>1 DEF IsInjective
        <5>4. QED
          BY <1>3, <2>2, <3>1, <4>1, <4>3, <5>3
      <4>4. QED
        BY <4>2, <4>3
    <3>8. OneBlockPerHash'
      <4>1. SUFFICES ASSUME NEW pool \in {GpuBlocks, CpuBlocks}, NEW b \in pool, NEW c \in pool,
                            hash'[b] \notin {<< >>, Unnamed}, hash'[b] = hash'[c]
                     PROVE  b = c
        BY DEF OneBlockPerHash, Unnamed
      <4>2. b \in Blocks /\ c \in Blocks /\ (b = L \/ c = L => pool = GpuBlocks)
        BY <3>3, KVCacheAssumption DEF Blocks
      <4>3. \A x \in GpuBlocks : hash[x] # h
        BY <2>3 DEF Named
      <4> HIDE DEF h
      <4>4. CASE b # L /\ c # L
        BY <1>1, <3>1, <4>1, <4>2, <4>4 DEF OneBlockPerHash
      <4>5. QED
        BY <3>1, <4>1, <4>2, <4>3, <4>4
    <3>9. HashInv'
      <4>1. ~UsesV2'
        BY DEF UsesV2
      <4>2. \A x \in Blocks : refCount'[x] > 0 => hash'[x] \notin {<< >>, Unnamed'}
        BY <3>5 DEF Unnamed
      <4>3. \A q \in Seqs : \A i \in DOMAIN table'[q] : FitsAt(hash'[table'[q][i]], i)
        BY <3>7
      <4>4. QED
        BY <3>6, <3>8, <4>1, <4>2, <4>3 DEF HashInv
    <3>10. FreeIn(GpuBlocks)' = FreeIn(GpuBlocks) /\ Cardinality(FreeIn(GpuBlocks)) \in Nat
      BY <1>1, <2>3, BlockSets DEF FreeIn
    <3>11. QED
      BY <1>1, <1>2, <2>1, <2>3, <3>2, <3>4, <3>9, <3>10 DEF SlotGiven, TypeInv
  <2>4. ASSUME NEW b \in Named(h, GpuBlocks),
               table' = [table EXCEPT ![s][Len(table[s])] = b],
               refCount' = [refCount EXCEPT ![L] = @ - 1, ![b] = @ + 1],
               UNCHANGED hash
        PROVE  SlotGiven(s)
    <3>1. b \in GpuBlocks /\ b \in Blocks /\ hash[b] = LastHash(s)
      BY <1>1, <2>2 DEF Named
    <3>2. refCount' = [x \in Blocks |-> refCount[x] + (IF x = b THEN 1 ELSE 0)
                                                    - (IF x = LastBlock(s) THEN 1 ELSE 0)]
      <4>1. ASSUME NEW x \in Blocks
            PROVE  refCount'[x] = refCount[x] + (IF x = b THEN 1 ELSE 0)
                                              - (IF x = LastBlock(s) THEN 1 ELSE 0)
        BY <1>1, <1>4, <1>5, <2>4, <3>1, SMTT(30) DEF TypeInv
      <4>2. refCount' = [x \in Blocks |-> refCount'[x]]
        BY <1>1, <2>4 DEF TypeInv
      <4>3. QED
        BY <4>1, <4>2
    <3>3. hash' \in [Blocks -> Seq(Nat)] /\ computed' \in [Blocks -> BOOLEAN] /\ OneBlockPerHash'
      BY <1>1, <2>1, <2>4 DEF TypeInv, OneBlockPerHash, Unnamed
    <3> HIDE DEF h, t, n, L
    <3>4. QED
      BY <1>1, <2>1, <2>4, <3>1, <3>2, <3>3, LastBlockChanges
  <2>5. QED
    BY <1>10, <2>1, <2>3, <2>4 DEF PromoteLastBlock
<1>11. ASSUME AppendCopyOnWrite(s)
       PROVE  SlotGiven(s) /\ pending'.moves = pending.moves
             /\ pending' \in [copies : SUBSET (Blocks \X Blocks),
                            moves : SUBSET (Blocks \X Blocks), fresh : SUBSET Blocks]
  <2>1. PICK b \in GpuBlocks :
         /\ Allocates(b, LastHash(s), GpuBlocks)
         /\ table' = [table EXCEPT ![s][Len(table[s])] = b]
         /\ Rename(<<b>>, <<LastHash(s)>>)
         /\ refCount' = [refCount EXCEPT ![b] = @ + 1, ![L] = @ - 1]
         /\ AddPending({<<L, b>>}, {}, Fresh(<<b>>, <<LastHash(s)>>))
    BY <1>11 DEF AppendCopyOnWrite
  <2>2. ~NeedsBlock(s) /\ seen' = seen
    BY <1>11 DEF AppendCopyOnWrite
  <2>3. /\ hash' \in [Blocks -> Seq(Nat)] /\ computed' \in [Blocks -> BOOLEAN]
        /\ OneBlockPerHash' /\ hash'[b] = LastHash(s)
        /\ \A x \in Blocks : refCount[x] > 0 => hash'[x] = hash[x]
        /\ \A x \in Blocks : hash'[x] = << >> => ~computed'[x]
        /\ refCount[b] = 0 \/ hash[b] = LastHash(s)
    BY <1>3, <2>1, RenameOne
  <2>4. refCount' = [x \in Blocks |-> refCount[x] + (IF x = b THEN 1 ELSE 0)
                                                  - (IF x = LastBlock(s) THEN 1 ELSE 0)]
    <3>1. b \in Blocks
      BY <1>1
    <3>2. ASSUME NEW x \in Blocks
          PROVE  refCount'[x] = refCount[x] + (IF x = b THEN 1 ELSE 0)
                                            - (IF x = LastBlock(s) THEN 1 ELSE 0)
      BY <1>1, <1>4, <1>5, <2>1, <3>1, SMTT(30) DEF TypeInv
    <3>3. refCount' = [x \in Blocks |-> refCount'[x]]
      BY <1>1, <2>1 DEF TypeInv
    <3>4. QED
      BY <3>2, <3>3
  <2>5. SlotGiven(s)
    <3> HIDE DEF t, n, L
    <3>1. QED
      BY <2>1, <2>2, <2>3, <2>4, LastBlockChanges
  <2>6. /\ pending'.moves = pending.moves \cup {}
        /\ pending' \in [copies : SUBSET (Blocks \X Blocks),
                         moves : SUBSET (Blocks \X Blocks), fresh : SUBSET Blocks]
    <3> DEFINE c == {<<L, b>>}
    <3>1. /\ Fresh(<<b>>, <<LastHash(s)>>) \in SUBSET Blocks /\ {} \in SUBSET (Blocks \X Blocks)
          /\ c \in SUBSET (Blocks \X Blocks)
      BY <1>7
    <3>2. AddPending(c, {}, Fresh(<<b>>, <<LastHash(s)>>))
      BY <2>1
    <3> HIDE DEF c
    <3>3. QED
      BY <1>1, <3>1, <3>2, PendingType
  <2>7. QED
    BY <2>5, <2>6
<1>12. QED
  BY <1>6, <1>8, <1>9, <1>10, <1>11 DEF AppendSlot
-----------------------------------------------------------------------------
(***************************************************************************)
(* Prefix caching: allocate()                                              *)
(***************************************************************************)
\* What a step of a block manager keeps.
BlockInv == BlockTypes /\ TableInv /\ HashInv

\* A hash of tokens fits one place.
LEMMA FitsOnce ==
    ASSUME NEW h \in Seq(Nat), ~IsDefault(h), NEW i \in Nat, NEW j \in Nat,
           FitsAt(h, i), FitsAt(h, j)
    PROVE  i = j
<1>1. /\ Len(h) \in Nat /\ Len(h) \in (i - 1) * BlockSize + 1..i * BlockSize
      /\ Len(h) \in (j - 1) * BlockSize + 1..j * BlockSize
  BY DEF FitsAt
<1>2. BlockSize \in Nat /\ BlockSize > 0
  BY KVCacheAssumption
<1>3. /\ (i - 1) * BlockSize \in Int /\ (j - 1) * BlockSize \in Int
      /\ i * BlockSize \in Int /\ j * BlockSize \in Int
  BY <1>2
<1>4. ~(i < j)
  <2>1. SUFFICES ASSUME i <= j - 1 PROVE FALSE
    OBVIOUS
  <2>2. i * BlockSize <= (j - 1) * BlockSize
    BY <2>1, MulMonotone
  <2>3. QED
    BY <1>1, <1>3, <2>2
<1>5. ~(j < i)
  <2>1. SUFFICES ASSUME j <= i - 1 PROVE FALSE
    OBVIOUS
  <2>2. j * BlockSize <= (i - 1) * BlockSize
    BY <2>1, MulMonotone
  <2>3. QED
    BY <1>1, <1>3, <2>2
<1>6. QED
  BY <1>4, <1>5

\* The hashes of the blocks of a prompt are different.
LEMMA HashesOfBlocks ==
    ASSUME TypeInv, NEW s \in Seqs, tokens[s] # << >>, NEW hs,
           hs = [i \in 1..NumBlocks(s) |-> HashOfBlock(s, i)]
    PROVE  /\ NumBlocks(s) \in Nat /\ NumBlocks(s) > 0 /\ hs \in [1..NumBlocks(s) -> Seq(Nat)]
           /\ IsInjective(hs)
           /\ \A i \in 1..NumBlocks(s) : hs[i] \notin {<< >>, Unnamed} /\ FitsAt(hs[i], i)
<1>1. NumBlocks(s) \in Nat /\ NumBlocks(s) > 0
  BY LastHashIs
<1>2. \A i \in 1..NumBlocks(s) : /\ hs[i] \in Seq(Nat) /\ ~IsDefault(hs[i])
                                 /\ hs[i] \notin {<< >>, Unnamed} /\ FitsAt(hs[i], i)
  BY HashOfBlockIs
<1>3. IsInjective(hs)
  <2>1. SUFFICES ASSUME NEW i \in 1..NumBlocks(s), NEW j \in 1..NumBlocks(s), hs[i] = hs[j]
                 PROVE  i = j
    BY DEF IsInjective
  <2>2. i \in Nat /\ j \in Nat
    BY <1>1
  <2>3. QED
    BY <1>2, <2>1, <2>2, FitsOnce
<1>4. QED
  BY <1>1, <1>2, <1>3

LEMMA AllocateTableKeeps ==
    ASSUME BlocksInv, ~UsesV2, NEW s \in Seqs, status[s] = "WAITING", AllocateTable(s),
           UNCHANGED <<setup, tokens>>, SetStatus({s}, "RUNNING")
    PROVE  /\ BlockInv' /\ seen' = seen /\ pending'.moves = pending.moves
           /\ Len(table'[s]) = NumBlocks(s) /\ table'[s] # << >>
           /\ \A q \in Seqs : q # s => table'[q] = table[q]
<1> DEFINE n == NumBlocks(s)
<1>1. PICK hs : hs = [i \in 1..n |-> HashOfBlock(s, i)]
  OBVIOUS
<1>2. PICK t \in Allocations(hs, GpuBlocks) :
        /\ table' = [table EXCEPT ![s] = t]
        /\ Rename(t, hs)
        /\ refCount' = [b \in Blocks |-> IF b \in Range(t) THEN refCount[b] + 1
                                         ELSE refCount[b]]
        /\ AddPending({}, {}, Fresh(t, hs))
        /\ UNCHANGED seen
  BY <1>1 DEF AllocateTable
<1>3. /\ TypeInv /\ StatusInv /\ CountsMatchTables /\ HashInv /\ OneBlockPerHash
      /\ \A b \in Blocks : hash[b] = << >> => ~computed[b]
      /\ tokens[s] # << >> /\ table[s] = << >>
  BY DEF BlocksInv, TableInv, HashInv, StatusInv, Placed
<1>4. /\ n \in Nat /\ n > 0 /\ hs \in [1..n -> Seq(Nat)] /\ IsInjective(hs)
      /\ \A i \in 1..n : hs[i] \notin {<< >>, Unnamed} /\ FitsAt(hs[i], i)
  BY <1>1, <1>3, HashesOfBlocks
<1> HIDE DEF n
<1>5. Renames(t, hs, n, GpuBlocks)
  BY <1>2, <1>4 DEF Renames
<1>6. /\ t \in [1..n -> GpuBlocks] /\ IsInjective(t) /\ t \in Seq(Blocks)
      /\ Range(t) \subseteq GpuBlocks /\ Range(t) \subseteq Blocks
      /\ hash' \in [Blocks -> Seq(Nat)] /\ computed' \in [Blocks -> BOOLEAN]
      /\ \A i \in 1..n : hash'[t[i]] = hs[i]
      /\ \A b \in Blocks : b \in Range(t) \/ hash'[b] = hash[b]
      /\ \A b \in Blocks : refCount[b] > 0 => hash'[b] = hash[b]
      /\ \A b \in Blocks : hash'[b] = << >> => ~computed'[b]
      /\ OneBlockPerHash'
  BY <1>3, <1>5, RenameKeeps
<1>7. /\ \A q \in Seqs : table'[q] = IF q = s THEN t ELSE table[q]
      /\ table' \in [Seqs -> Seq(Blocks)]
  BY <1>2, <1>3, <1>6 DEF TypeInv
<1>8. refCount' \in [Blocks -> Nat]
  BY <1>2, <1>3 DEF TypeInv
<1>9. TableInv'
  <2>1. CountsMatchTables'
    <3>1. Range(table[s]) = {}
      BY <1>3 DEF Range
    <3>2. \A b \in Blocks : refCount'[b] = refCount[b] + (IF b \in Range(t) THEN 1 ELSE 0)
                                             - (IF b \in Range(table[s]) THEN 1 ELSE 0)
      BY <1>2, <1>3, <3>1 DEF TypeInv
    <3>3. QED
      BY <1>2, <1>3, <3>2, OneTableCounts
  <2>2. SUFFICES ASSUME NEW q \in Seqs
                 PROVE  /\ IsInjective(table'[q])
                        /\ Range(table'[q]) \subseteq
                              IF status'[q] = "SWAPPED" THEN CpuBlocks ELSE GpuBlocks
    BY <2>1 DEF TableInv
  <2>3. status'[q] = IF q = s THEN "RUNNING" ELSE status[q]
    BY DEF SetStatus
  <2>4. QED
    BY <1>6, <1>7, <2>3 DEF BlocksInv, TableInv
<1>10. HashInv'
  <2>1. ~UsesV2'
    BY DEF UsesV2
  <2>2. ASSUME NEW b \in Blocks, refCount'[b] > 0
        PROVE  hash'[b] \notin {<< >>, Unnamed'}
    <3>1. CASE b \in Range(t)
      <4>1. PICK i \in 1..n : b = t[i]
        BY <1>6, <3>1 DEF Range
      <4>2. QED
        BY <1>4, <1>6, <4>1 DEF Unnamed
    <3>2. CASE b \notin Range(t)
      <4>1. refCount[b] > 0
        BY <1>2, <2>2, <3>2
      <4>2. QED
        BY <1>3, <1>6, <4>1 DEF HashInv, Unnamed
    <3>3. QED
      BY <3>1, <3>2
  <2>3. ASSUME NEW q \in Seqs, NEW i \in DOMAIN table'[q]
        PROVE  FitsAt(hash'[table'[q][i]], i)
    <3>1. CASE q = s
      <4>1. table'[q] = t /\ i \in 1..n
        BY <1>6, <1>7, <3>1
      <4>2. QED
        BY <1>4, <1>6, <4>1
    <3>2. CASE q # s
      <4>1. table'[q] = table[q] /\ i \in DOMAIN table[q]
        BY <1>7, <3>2
      <4>2. hash'[table[q][i]] = hash[table[q][i]]
        BY <1>3, <1>6, <4>1, HeldIsCounted
      <4>3. QED
        BY <1>3, <4>1, <4>2 DEF HashInv
    <3>3. QED
      BY <3>1, <3>2
  <2>4. QED
    BY <1>6, <2>1, <2>2, <2>3 DEF HashInv
<1>11. pending' \in [copies : SUBSET (Blocks \X Blocks),
                     moves : SUBSET (Blocks \X Blocks), fresh : SUBSET Blocks]
       /\ pending'.moves = pending.moves \cup {}
  <2>1. Fresh(t, hs) \in SUBSET Blocks
    BY <1>4, <1>6 DEF Fresh, Range
  <2>2. QED
    BY <1>2, <1>3, <2>1, PendingType
<1>12. seen' \in [Seqs -> Nat]
  BY <1>2, <1>3 DEF TypeInv
<1>13. Len(table'[s]) = n /\ table'[s] # << >>
  <2>1. table'[s] = t /\ Len(t) = n
    BY <1>4, <1>6, <1>7
  <2>2. QED
    BY <1>4, <2>1
<1>14. QED
  BY <1>2, <1>6, <1>7, <1>8, <1>9, <1>10, <1>11, <1>12, <1>13 DEF BlockInv, BlockTypes, n
-----------------------------------------------------------------------------
(***************************************************************************)
(* Prefix caching: swap_in() and swap_out()                                *)
(***************************************************************************)
LEMMA MoveTablesKeeps ==
    ASSUME BlocksInv, ~UsesV2, NEW S \in SUBSET Seqs,
           NEW pool \in {GpuBlocks, CpuBlocks}, NEW from \in {GpuBlocks, CpuBlocks},
           from \cap pool = {}, \A s \in S : Range(table[s]) \subseteq from,
           NEW st, pool = IF st = "SWAPPED" THEN CpuBlocks ELSE GpuBlocks, SetStatus(S, st),
           MoveTables(S, pool), UNCHANGED <<setup, tokens>>
    PROVE  /\ BlockInv' /\ seen' = seen
           /\ \A s \in Seqs : Len(table'[s]) = Len(table[s]) /\ (table'[s] = << >> <=> table[s] = << >>)
           /\ Cardinality(FreeIn(pool)) - Cardinality(BlocksOf(S)) <= Cardinality(FreeIn(pool)')
           /\ FreeIn(from) \subseteq FreeIn(from)'
<1> DEFINE B == BlocksOf(S)
           n == Cardinality(B)
<1>1. /\ TypeInv /\ StatusInv /\ TableInv /\ CountsMatchTables /\ HashInv /\ OneBlockPerHash
      /\ \A b \in Blocks : hash[b] = << >> => ~computed[b]
  BY DEF BlocksInv, TableInv, HashInv
<1>2. B \subseteq from /\ B \subseteq Blocks /\ from \subseteq Blocks /\ pool \subseteq Blocks
  BY DEF BlocksOf, Blocks
<1>3. IsFiniteSet(B) /\ n \in Nat
  BY <1>2, BlockSets
<1>4. PICK old \in Bijection(1..n, B) :
      LET hs == [i \in DOMAIN old |-> hash[old[i]]] IN
      \E t \in Allocations(hs, pool) :
        LET new == [b \in BlocksOf(S) |-> t[CHOOSE i \in DOMAIN old : old[i] = b]]
        IN  /\ table' = [s \in Seqs |-> IF s \in S
                                        THEN [i \in DOMAIN table[s] |-> new[table[s][i]]]
                                        ELSE table[s]]
            /\ Rename(t, hs)
            /\ refCount' = [b \in Blocks |->
                  IF b \in BlocksOf(S) THEN refCount[b] - NumFrees(b, S)
                  ELSE IF b \in Range(t)
                       THEN refCount[b] + NumFrees(CHOOSE o \in BlocksOf(S) : new[o] = b, S)
                       ELSE refCount[b]]
            /\ AddPending({}, {<<o, new[o]>> : o \in BlocksOf(S)}, Fresh(t, hs))
  BY DEF MoveTables
<1>5. PICK hs : hs = [i \in DOMAIN old |-> hash[old[i]]]
  OBVIOUS
<1>6. PICK t \in Allocations(hs, pool) :
        LET new == [b \in B |-> t[CHOOSE i \in DOMAIN old : old[i] = b]]
        IN  /\ table' = [s \in Seqs |-> IF s \in S
                                        THEN [i \in DOMAIN table[s] |-> new[table[s][i]]]
                                        ELSE table[s]]
            /\ Rename(t, hs)
            /\ refCount' = [b \in Blocks |->
                  IF b \in B THEN refCount[b] - NumFrees(b, S)
                  ELSE IF b \in Range(t)
                       THEN refCount[b] + NumFrees(CHOOSE o \in B : new[o] = b, S)
                       ELSE refCount[b]]
            /\ AddPending({}, {<<o, new[o]>> : o \in B}, Fresh(t, hs))
  BY <1>4, <1>5
<1>7. PICK new : new = [b \in B |-> t[CHOOSE i \in DOMAIN old : old[i] = b]]
  OBVIOUS
<1>8. /\ table' = [s \in Seqs |-> IF s \in S THEN [i \in DOMAIN table[s] |-> new[table[s][i]]]
                                  ELSE table[s]]
      /\ Rename(t, hs)
      /\ refCount' = [b \in Blocks |->
            IF b \in B THEN refCount[b] - NumFrees(b, S)
            ELSE IF b \in Range(t)
                 THEN refCount[b] + NumFrees(CHOOSE o \in B : new[o] = b, S)
                 ELSE refCount[b]]
      /\ AddPending({}, {<<o, new[o]>> : o \in B}, Fresh(t, hs))
  BY <1>6, <1>7
<1>9. /\ old \in [1..n -> B] /\ DOMAIN old = 1..n /\ IsInjective(old)
      /\ \A b \in B : \E i \in 1..n : old[i] = b
  BY DEF Bijection, Injection, Surjection
<1>10. \A b \in B : b \in Blocks /\ refCount[b] > 0 /\ refCount[b] \in Nat
                    /\ hash[b] \notin {<< >>, Unnamed} /\ hash[b] \in Seq(Nat)
  <2>1. SUFFICES ASSUME NEW b \in B
                 PROVE  b \in Blocks /\ refCount[b] > 0 /\ refCount[b] \in Nat
                        /\ hash[b] \notin {<< >>, Unnamed} /\ hash[b] \in Seq(Nat)
    OBVIOUS
  <2>2. PICK s \in S : b \in Range(table[s])
    BY DEF BlocksOf
  <2>3. PICK i \in DOMAIN table[s] : b = table[s][i]
    BY <2>2 DEF Range
  <2>4. b \in Blocks /\ refCount[b] > 0
    BY <1>1, <2>3, HeldIsCounted
  <2>5. QED
    BY <1>1, <2>4 DEF TypeInv, HashInv
<1> HIDE DEF n, B
<1>11. Renames(t, hs, n, pool)
  <2>1. hs \in [1..n -> Seq(Nat)] /\ \A i \in 1..n : hs[i] \notin {<< >>, Unnamed}
    BY <1>5, <1>9, <1>10
  <2>2. IsInjective(hs)
    <3>1. SUFFICES ASSUME NEW i \in 1..n, NEW j \in 1..n, hs[i] = hs[j] PROVE i = j
      BY <2>1 DEF IsInjective
    <3>2. old[i] \in B /\ old[j] \in B /\ hash[old[i]] = hash[old[j]]
      BY <1>5, <1>9, <3>1
    <3>3. old[i] = old[j]
      BY <1>1, <1>2, <1>10, <3>2 DEF OneBlockPerHash
    <3>4. QED
      BY <1>9, <3>3 DEF IsInjective
  <2>3. QED
    BY <1>3, <1>8, <2>1, <2>2 DEF Renames
<1>12. /\ t \in [1..n -> pool] /\ IsInjective(t) /\ t \in Seq(Blocks)
       /\ Range(t) \subseteq pool /\ Range(t) \subseteq Blocks
       /\ hash' \in [Blocks -> Seq(Nat)] /\ computed' \in [Blocks -> BOOLEAN]
       /\ \A i \in 1..n : hash'[t[i]] = hs[i]
       /\ \A b \in Blocks : b \in Range(t) \/ hash'[b] = hash[b]
       /\ \A b \in Blocks : refCount[b] > 0 => hash'[b] = hash[b]
       /\ \A b \in Blocks : hash'[b] = << >> => ~computed'[b]
       /\ OneBlockPerHash'
  BY <1>1, <1>11, RenameKeeps
<1>13. \A b \in B : \E i \in 1..n : old[i] = b /\ new[b] = t[i]
  BY <1>7, <1>9
<1>14. /\ new \in [B -> pool] /\ \A b \in B : new[b] \in Range(t)
       /\ \A b, c \in B : new[b] = new[c] => b = c
       /\ \A b \in B : hash'[new[b]] = hash[b]
  <2>1. DOMAIN new = B /\ new = [b \in B |-> new[b]]
    BY <1>7
  <2>2. \A b \in B : new[b] \in pool /\ new[b] \in Range(t)
    BY <1>12, <1>13 DEF Range
  <2>3. ASSUME NEW b \in B, NEW c \in B, new[b] = new[c]
        PROVE  b = c
    <3>1. PICK i \in 1..n : old[i] = b /\ new[b] = t[i]
      BY <1>13
    <3>2. PICK j \in 1..n : old[j] = c /\ new[c] = t[j]
      BY <1>13
    <3>3. i = j
      <4>1. DOMAIN t = 1..n /\ t[i] = t[j]
        BY <1>12, <2>3, <3>1, <3>2
      <4>2. QED
        BY <1>12, <4>1 DEF IsInjective
    <3>4. QED
      BY <3>1, <3>2, <3>3
  <2>4. \A b \in B : hash'[new[b]] = hash[b]
    BY <1>5, <1>9, <1>12, <1>13
  <2>5. QED
    BY <2>1, <2>2, <2>3, <2>4
<1>15. ASSUME NEW s \in S
       PROVE  /\ s \in Seqs /\ table[s] \in Seq(Blocks) /\ DOMAIN table[s] = 1..Len(table[s])
              /\ \A i \in DOMAIN table[s] : table[s][i] \in B
              /\ DOMAIN table'[s] = DOMAIN table[s]
              /\ \A i \in DOMAIN table[s] : /\ table'[s][i] = new[table[s][i]]
                                             /\ table'[s][i] \in pool
              /\ table'[s] \in [1..Len(table[s]) -> Blocks]
  <2>1. s \in Seqs /\ table[s] \in Seq(Blocks) /\ DOMAIN table[s] = 1..Len(table[s])
    BY <1>1 DEF TypeInv
  <2>2. \A i \in DOMAIN table[s] : table[s][i] \in B
    BY DEF B, BlocksOf, Range
  <2>3. table'[s] = [i \in DOMAIN table[s] |-> new[table[s][i]]]
    BY <1>8, <2>1
  <2>4. \A i \in DOMAIN table[s] : new[table[s][i]] \in pool /\ new[table[s][i]] \in Blocks
    BY <1>2, <1>14, <2>2
  <2>5. DOMAIN table'[s] = DOMAIN table[s]
        /\ \A i \in DOMAIN table[s] : table'[s][i] = new[table[s][i]]
    BY <2>3
  <2>6. table'[s] \in [1..Len(table[s]) -> Blocks]
    BY <2>1, <2>3, <2>4
  <2>7. QED
    BY <2>1, <2>2, <2>4, <2>5, <2>6
<1>16. \A s \in Seqs : s \notin S => table'[s] = table[s]
  BY <1>8
<1>17. ASSUME NEW s \in Seqs
       PROVE  /\ table'[s] \in Seq(Blocks) /\ Len(table'[s]) = Len(table[s])
              /\ DOMAIN table'[s] = DOMAIN table[s]
              /\ table'[s] = << >> <=> table[s] = << >>
  <2>1. table[s] \in Seq(Blocks)
    BY <1>1 DEF TypeInv
  <2>2. CASE s \in S
    <3>1. Len(table[s]) \in Nat /\ table'[s] \in [1..Len(table[s]) -> Blocks]
      BY <1>15, <2>1, <2>2
    <3>2. table'[s] \in Seq(Blocks) /\ Len(table'[s]) = Len(table[s])
          /\ DOMAIN table'[s] = 1..Len(table[s])
      BY <3>1
    <3>3. table'[s] = << >> <=> Len(table'[s]) = 0
      BY <3>2
    <3>4. table[s] = << >> <=> Len(table[s]) = 0
      BY <2>1
    <3>5. DOMAIN table[s] = 1..Len(table[s])
      BY <2>1
    <3>6. QED
      BY <3>2, <3>3, <3>4, <3>5
  <2>3. CASE s \notin S
    BY <1>16, <2>1, <2>3
  <2>4. QED
    BY <2>2, <2>3
<1>18. \A s \in S : Range(table'[s]) = {new[b] : b \in Range(table[s])}
  <2>1. SUFFICES ASSUME NEW s \in S
                 PROVE  Range(table'[s]) = {new[b] : b \in Range(table[s])}
    OBVIOUS
  <2>2. DOMAIN table'[s] = DOMAIN table[s]
        /\ \A i \in DOMAIN table[s] : table'[s][i] = new[table[s][i]]
    BY <1>15
  <2>3. QED
    BY <2>2 DEF Range
<1>19. ASSUME NEW b \in Blocks
       PROVE  /\ refCount'[b] = Cardinality(Holders(b)') /\ refCount'[b] \in Nat
              /\ b \notin Range(t) => refCount'[b] <= refCount[b]
              /\ b \notin Range(t) /\ b \notin B => refCount'[b] = refCount[b]
  <2>1. /\ refCount[b] = Cardinality(Holders(b)) /\ refCount[b] \in Nat
        /\ IsFiniteSet(Holders(b)) /\ Holders(b) \in SUBSET Seqs
    BY <1>1, HoldersCount DEF Holders
  <2>2. ASSUME NEW o
        PROVE  NumFrees(o, S) = Cardinality(Holders(o) \cap S)
    <3>1. {s \in S : o \in Range(table[s])} = Holders(o) \cap S
      BY DEF Holders
    <3>2. QED
      BY <3>1 DEF NumFrees
  <2>3. Cardinality(Holders(b) \cap S) \in Nat /\ Cardinality(Holders(b) \ S) \in Nat
        /\ Cardinality(Holders(b) \ S) = Cardinality(Holders(b)) - Cardinality(Holders(b) \cap S)
    BY <2>1, SeqSets, FS_Difference
  <2>4. ASSUME NEW s \in S
        PROVE  b \in Range(table'[s]) <=> \E o \in B : new[o] = b /\ o \in Range(table[s])
    <3>1. Range(table[s]) \subseteq B
      BY DEF B, BlocksOf
    <3>2. QED
      BY <1>18, <3>1
  <2>5. \A s \in Seqs : s \in Holders(b)' <=> b \in Range(table'[s])
    BY DEF Holders
  <2>6. Holders(b)' \in SUBSET Seqs
    BY DEF Holders
  <2>7. CASE b \in B
    <3>1. \A o \in B : new[o] # b
      BY <1>2, <1>14, <2>7
    <3>2. Holders(b)' = Holders(b) \ S
      BY <1>16, <2>4, <2>5, <2>6, <3>1 DEF Holders
    <3>3. refCount'[b] = refCount[b] - Cardinality(Holders(b) \cap S)
      BY <1>8, <2>2, <2>7
    <3>4. QED
      BY <2>1, <2>3, <2>7, <3>2, <3>3
  <2>8. CASE b \notin B /\ b \notin Range(t)
    <3>1. \A s \in S : b \notin Range(table[s])
      BY <2>8 DEF B, BlocksOf
    <3>2. \A s \in S : b \notin Range(table'[s])
      BY <1>14, <2>4, <2>8
    <3>3. Holders(b)' = Holders(b)
      BY <1>16, <2>5, <2>6, <3>1, <3>2 DEF Holders
    <3>4. refCount'[b] = refCount[b]
      BY <1>8, <2>8
    <3>5. QED
      BY <2>1, <3>3, <3>4
  <2>9. CASE b \notin B /\ b \in Range(t)
    <3>1. PICK i \in 1..n : b = t[i]
      BY <1>12, <2>9 DEF Range
    <3>2. PICK o \in B : new[o] = b
      <4>1. old[i] \in B /\ new[old[i]] = t[i]
        <5>1. old[i] \in B
          BY <1>9
        <5>2. PICK j \in 1..n : old[j] = old[i] /\ new[old[i]] = t[j]
          BY <1>13, <5>1
        <5>3. j = i
          BY <1>9, <5>2 DEF IsInjective
        <5>4. QED
          BY <5>1, <5>2, <5>3
      <4>2. QED
        BY <3>1, <4>1
    <3>3. (CHOOSE x \in B : new[x] = b) = o
      BY <1>14, <3>2
    <3>4. refCount'[b] = refCount[b] + NumFrees(o, S)
      BY <1>8, <2>9, <3>3
    <3>5. Holders(b) \cap S = {}
      BY <2>9 DEF B, BlocksOf, Holders
    <3>6. Holders(b)' = Holders(b) \cup (Holders(o) \cap S)
      <4>1. \A s \in S : b \in Range(table'[s]) <=> o \in Range(table[s])
        BY <1>14, <2>4, <3>2
      <4>2. QED
        BY <1>16, <2>5, <2>6, <3>5, <4>1 DEF Holders
    <3>7. IsFiniteSet(Holders(o) \cap S) /\ Cardinality(Holders(o) \cap S) \in Nat
      BY SeqSets DEF Holders
    <3>8. Cardinality(Holders(b) \cup (Holders(o) \cap S)) = Cardinality(Holders(b))
             + Cardinality(Holders(o) \cap S) - Cardinality(Holders(b) \cap (Holders(o) \cap S))
      BY <2>1, <3>7, FS_Union
    <3>9. Holders(b) \cap (Holders(o) \cap S) = {}
      BY <3>5
    <3>10. Cardinality(Holders(b)') = Cardinality(Holders(b)) + Cardinality(Holders(o) \cap S)
      <4>1. Cardinality(Holders(b) \cap (Holders(o) \cap S)) = 0
        BY <3>9, FS_EmptySet
      <4>2. Cardinality(Holders(b)) \in Nat
        BY <2>1
      <4>3. Cardinality(Holders(b) \cup (Holders(o) \cap S))
              = Cardinality(Holders(b)) + Cardinality(Holders(o) \cap S)
        BY <3>7, <3>8, <4>1, <4>2
      <4>4. QED
        BY <3>6, <4>3
    <3>11. refCount'[b] = refCount[b] + Cardinality(Holders(o) \cap S)
      BY <2>2, <3>4
    <3>12. QED
      BY <2>1, <2>9, <3>7, <3>10, <3>11
  <2>10. QED
    BY <2>7, <2>8, <2>9
<1>20. refCount' \in [Blocks -> Nat]
  <2>1. DOMAIN refCount' = Blocks /\ refCount' = [b \in Blocks |-> refCount'[b]]
    BY <1>8
  <2>2. QED
    BY <1>19, <2>1
<1>21. \A s \in Seqs : status'[s] = IF s \in S THEN st ELSE status[s]
  BY DEF SetStatus
<1>22. TableInv'
  <2>1. CountsMatchTables'
    BY <1>19 DEF CountsMatchTables, NumFrees, Holders
  <2>2. SUFFICES ASSUME NEW s \in Seqs
                 PROVE  /\ IsInjective(table'[s])
                        /\ Range(table'[s]) \subseteq
                              IF status'[s] = "SWAPPED" THEN CpuBlocks ELSE GpuBlocks
    BY <2>1 DEF TableInv
  <2>3. CASE s \in S
    <3>1. Range(table'[s]) \subseteq pool
      BY <1>14, <1>18, <2>3 DEF B, BlocksOf
    <3>2. IsInjective(table'[s])
      <4>1. SUFFICES ASSUME NEW i \in DOMAIN table[s], NEW j \in DOMAIN table[s],
                            table'[s][i] = table'[s][j]
                     PROVE  i = j
        BY <1>17 DEF IsInjective
      <4>2. new[table[s][i]] = new[table[s][j]] /\ table[s][i] \in B /\ table[s][j] \in B
        <5>1. table'[s][i] = new[table[s][i]] /\ table[s][i] \in B
          BY <1>15, <2>3
        <5>2. table'[s][j] = new[table[s][j]] /\ table[s][j] \in B
          BY <1>15, <2>3
        <5>3. QED
          BY <4>1, <5>1, <5>2
      <4>3. table[s][i] = table[s][j]
        BY <1>14, <4>2
      <4>4. IsInjective(table[s])
        BY <1>1 DEF TableInv
      <4>5. QED
        BY <4>3, <4>4 DEF IsInjective
    <3>3. QED
      BY <1>21, <2>3, <3>1, <3>2
  <2>4. CASE s \notin S
    BY <1>1, <1>16, <1>21, <2>4 DEF TableInv
  <2>5. QED
    BY <2>3, <2>4
<1>23. HashInv'
  <2>1. ~UsesV2'
    BY DEF UsesV2
  <2>2. ASSUME NEW b \in Blocks, refCount'[b] > 0
        PROVE  hash'[b] \notin {<< >>, Unnamed'}
    <3>1. CASE b \in Range(t)
      <4>1. PICK i \in 1..n : b = t[i]
        BY <1>12, <3>1 DEF Range
      <4>2. hs[i] \notin {<< >>, Unnamed}
        BY <1>11 DEF Renames
      <4>3. QED
        BY <1>12, <4>1, <4>2 DEF Unnamed
    <3>2. CASE b \notin Range(t)
      <4>1. refCount[b] > 0
        <5>1. refCount'[b] \in Nat /\ refCount[b] \in Nat /\ refCount'[b] <= refCount[b]
          BY <1>1, <1>19, <3>2 DEF TypeInv
        <5>2. QED
          BY <2>2, <5>1
      <4>2. QED
        BY <1>1, <1>12, <4>1 DEF HashInv, Unnamed
    <3>3. QED
      BY <3>1, <3>2
  <2>3. ASSUME NEW s \in Seqs, NEW i \in DOMAIN table'[s]
        PROVE  FitsAt(hash'[table'[s][i]], i)
    <3>1. i \in DOMAIN table[s] /\ FitsAt(hash[table[s][i]], i)
      BY <1>1, <1>17 DEF HashInv
    <3>2. hash'[table'[s][i]] = hash[table[s][i]]
      <4>1. CASE s \in S
        <5>1. table'[s][i] = new[table[s][i]] /\ table[s][i] \in B
          BY <1>15, <3>1, <4>1
        <5>2. QED
          BY <1>14, <5>1
      <4>2. CASE s \notin S
        BY <1>1, <1>12, <1>16, <3>1, <4>2, HeldIsCounted
      <4>3. QED
        BY <4>1, <4>2
    <3>3. QED
      BY <3>1, <3>2
  <2>4. QED
    BY <1>12, <2>1, <2>2, <2>3 DEF HashInv
<1>24. pending' \in [copies : SUBSET (Blocks \X Blocks),
                     moves : SUBSET (Blocks \X Blocks), fresh : SUBSET Blocks]
  <2> DEFINE m == {<<o, new[o]>> : o \in B}
  <2>1. m \in SUBSET (Blocks \X Blocks)
    BY <1>2, <1>14
  <2>2. Fresh(t, hs) \in SUBSET Blocks
    BY <1>5, <1>9, <1>12 DEF Fresh, Range
  <2>3. AddPending({}, m, Fresh(t, hs))
    BY <1>8
  <2> HIDE DEF m
  <2>4. QED
    BY <1>1, <2>1, <2>2, <2>3, PendingType
<1>25. seen' = seen /\ seen \in [Seqs -> Nat]
  BY <1>1 DEF MoveTables, TypeInv
<1>26. BlockInv'
  <2>1. table' \in [Seqs -> Seq(Blocks)]
    BY <1>8, <1>17
  <2>2. QED
    BY <1>12, <1>20, <1>22, <1>23, <1>24, <1>25, <2>1 DEF BlockInv, BlockTypes
<1>27. Cardinality(FreeIn(pool)) - n <= Cardinality(FreeIn(pool)')
  <2>1. FreeIn(pool) \subseteq FreeIn(pool)' \cup Range(t)
    <3>1. SUFFICES ASSUME NEW x \in FreeIn(pool), x \notin Range(t) PROVE refCount'[x] = 0
      BY DEF FreeIn
    <3>2. x \in Blocks /\ refCount[x] = 0
      BY <1>2 DEF FreeIn
    <3>3. x \notin B
      BY <1>10, <3>2
    <3>4. QED
      BY <1>19, <3>1, <3>2, <3>3
  <2>2. Cardinality(Range(t)) <= n /\ Cardinality(Range(t)) \in Nat
    <3>1. ExistsSurjection(1..n, Range(t))
      <4>1. t \in Surjection(1..n, Range(t))
        BY <1>12 DEF Surjection, Range
      <4>2. QED
        BY <4>1 DEF ExistsSurjection
    <3>2. QED
      BY <1>3, <1>12, <3>1, FS_SurjCardinalityBound, BlockSets
  <2>3. FreeIn(pool) \in SUBSET Blocks /\ FreeIn(pool)' \in SUBSET Blocks /\ Range(t) \in SUBSET Blocks
    BY <1>2, <1>12 DEF FreeIn
  <2>4. Cardinality(FreeIn(pool)) - Cardinality(Range(t)) <= Cardinality(FreeIn(pool)')
    BY <2>1, <2>3, FreeShrinks
  <2>5. Cardinality(FreeIn(pool)) \in Nat /\ Cardinality(FreeIn(pool)') \in Nat
    BY <2>3, BlockSets
  <2>6. QED
    BY <1>3, <2>2, <2>4, <2>5
<1>28. FreeIn(from) \subseteq FreeIn(from)'
  <2>1. SUFFICES ASSUME NEW x \in FreeIn(from) PROVE refCount'[x] = 0
    BY DEF FreeIn
  <2>2. x \in Blocks /\ refCount[x] = 0 /\ x \notin Range(t)
    BY <1>2, <1>12 DEF FreeIn
  <2>3. x \notin B
    BY <1>10, <2>2
  <2>4. QED
    BY <1>19, <2>2, <2>3
<1>29. QED
  BY <1>17, <1>25, <1>26, <1>27, <1>28 DEF n, B
-----------------------------------------------------------------------------
(***************************************************************************)
(* Block manager V2: allocate()                                            *)
(***************************************************************************)
LEMMA HashesStay ==
    ASSUME UsesV2, HashInv, UNCHANGED <<setup, hash, computed>>
    PROVE  HashInv'
<1>1. UsesV2' /\ \A b \in Blocks : hash'[b] = << >> /\ ~computed'[b]
  BY DEF HashInv, UsesV2
<1>2. QED
  BY <1>1 DEF HashInv

LEMMA AllocateTableV2Keeps ==
    ASSUME BlocksInv, UsesV2, NEW s \in Seqs, status[s] = "WAITING", AllocateTableV2(s),
           UNCHANGED <<setup, tokens>>, SetStatus({s}, "RUNNING")
    PROVE  /\ BlockInv'
           /\ \A q \in Seqs : q # s => table'[q] = table[q] /\ seen'[q] = seen[q]
           /\ seen'[s] = Len(tokens[s]) /\ Len(table'[s]) = NumBlocks(s)
           /\ Range(table'[s]) \subseteq FreeIn(GpuBlocks)
           /\ \A b \in Blocks : refCount'[b] = IF b \in Range(table'[s]) THEN 1 ELSE refCount[b]
           /\ pending'.copies = pending.copies /\ pending'.moves = pending.moves
           /\ pending'.fresh = pending.fresh \cup Range(table'[s])
<1> DEFINE n == NumBlocks(s)
<1>1. PICK t \in Injection(1..n, FreeIn(GpuBlocks)) :
        /\ table' = [table EXCEPT ![s] = t]
        /\ refCount' = [b \in Blocks |-> IF b \in Range(t) THEN 1 ELSE refCount[b]]
        /\ seen' = [seen EXCEPT ![s] = Len(tokens[s])]
        /\ AddPending({}, {}, Range(t))
        /\ UNCHANGED <<hash, computed>>
  BY DEF AllocateTableV2
<1>2. /\ TypeInv /\ StatusInv /\ CountsMatchTables /\ HashInv
      /\ tokens[s] # << >> /\ table[s] = << >>
  BY DEF BlocksInv, TableInv, StatusInv, Placed
<1>3. n \in Nat /\ tokens[s] \in Seq(Tokens)
  BY <1>2, LastHashIs DEF TypeInv
<1> HIDE DEF n
<1>4. /\ t \in [1..n -> FreeIn(GpuBlocks)] /\ IsInjective(t) /\ FreeIn(GpuBlocks) \subseteq GpuBlocks
      /\ FreeIn(GpuBlocks) \subseteq Blocks
  BY DEF Injection, FreeIn, Blocks
<1>5. t \in Seq(Blocks) /\ Range(t) \subseteq FreeIn(GpuBlocks) /\ Len(t) = n
  <2>1. t \in [1..n -> Blocks]
    BY <1>4
  <2>2. QED
    BY <1>3, <1>4, <2>1 DEF Range
<1>6. /\ \A q \in Seqs : table'[q] = IF q = s THEN t ELSE table[q]
      /\ table' \in [Seqs -> Seq(Blocks)]
      /\ \A q \in Seqs : seen'[q] = IF q = s THEN Len(tokens[s]) ELSE seen[q]
  BY <1>1, <1>2, <1>5 DEF TypeInv
<1>7. seen' \in [Seqs -> Nat] /\ refCount' \in [Blocks -> Nat]
      /\ hash' \in [Blocks -> Seq(Nat)] /\ computed' \in [Blocks -> BOOLEAN]
  <2>1. Len(tokens[s]) \in Nat
    BY <1>3
  <2>2. QED
    BY <1>1, <1>2, <2>1 DEF TypeInv
<1>8. TableInv'
  <2>1. CountsMatchTables'
    <3>1. Range(table[s]) = {}
      BY <1>2 DEF Range
    <3>2. \A b \in Range(t) : refCount[b] = 0
      BY <1>5 DEF FreeIn
    <3>3. \A b \in Blocks : refCount'[b] = refCount[b] + (IF b \in Range(t) THEN 1 ELSE 0)
                                             - (IF b \in Range(table[s]) THEN 1 ELSE 0)
      BY <1>1, <1>2, <3>1, <3>2 DEF TypeInv
    <3>4. QED
      BY <1>1, <1>2, <3>3, OneTableCounts
  <2>2. SUFFICES ASSUME NEW q \in Seqs
                 PROVE  /\ IsInjective(table'[q])
                        /\ Range(table'[q]) \subseteq
                              IF status'[q] = "SWAPPED" THEN CpuBlocks ELSE GpuBlocks
    BY <2>1 DEF TableInv
  <2>3. status'[q] = IF q = s THEN "RUNNING" ELSE status[q]
    BY DEF SetStatus
  <2>4. QED
    BY <1>4, <1>5, <1>6, <2>3 DEF BlocksInv, TableInv
<1>9. HashInv'
  BY <1>1, <1>2, HashesStay
<1>10. /\ pending' \in [copies : SUBSET (Blocks \X Blocks),
                        moves : SUBSET (Blocks \X Blocks), fresh : SUBSET Blocks]
       /\ pending'.copies = pending.copies \cup {} /\ pending'.moves = pending.moves \cup {}
       /\ pending'.fresh = pending.fresh \cup Range(t)
  <2>1. Range(t) \in SUBSET Blocks
    BY <1>4, <1>5
  <2>2. QED
    BY <1>1, <1>2, <2>1, PendingType
<1>11. table'[s] = t
  BY <1>6
<1>12. QED
  BY <1>1, <1>5, <1>6, <1>7, <1>8, <1>9, <1>10, <1>11 DEF BlockInv, BlockTypes, n
-----------------------------------------------------------------------------
(***************************************************************************)
(* Block manager V2: append_slots()                                        *)
(***************************************************************************)
\* The elements of a finite set of numbers are numbered in their order.
Rank(K, i) == Cardinality({j \in K : j <= i})
LEMMA Ranks ==
    ASSUME NEW K \in SUBSET Nat, IsFiniteSet(K)
    PROVE  /\ Cardinality(K) \in Nat
           /\ \A i \in K : Rank(K, i) \in 1..Cardinality(K)
           /\ \A i, j \in K : Rank(K, i) = Rank(K, j) => i = j
           /\ \A m \in 1..Cardinality(K) : \E i \in K : Rank(K, i) = m
<1> DEFINE upto(i) == {j \in K : j <= i}
           n == Cardinality(K)
<1>1. /\ n \in Nat
      /\ \A i \in K : IsFiniteSet(upto(i)) /\ Cardinality(upto(i)) \in Nat /\ Cardinality(upto(i)) <= n
  BY FS_Subset, FS_CardinalityType
<1>2. ASSUME NEW i \in K
      PROVE  Rank(K, i) \in 1..n
  <2>1. i \in upto(i)
    OBVIOUS
  <2>2. Cardinality(upto(i)) # 0
    BY <1>1, <2>1, FS_EmptySet
  <2>3. QED
    BY <1>1, <2>2 DEF Rank
<1>3. ASSUME NEW i \in K, NEW j \in K, i < j
      PROVE  Rank(K, i) # Rank(K, j)
  <2>1. i \in Nat /\ j \in Nat /\ \A x \in K : x \in Nat
    OBVIOUS
  <2>2. upto(i) \in SUBSET upto(j)
    <3>1. \A x \in K : x <= i => x <= j
      BY <1>3, <2>1
    <3>2. QED
      BY <3>1
  <2>3. j \in upto(j) /\ j \notin upto(i)
    BY <1>3, <2>1
  <2>4. Cardinality(upto(j)) = Cardinality(upto(i)) => upto(j) = upto(i)
    BY <1>1, <2>2, FS_Subset
  <2>5. QED
    BY <2>3, <2>4 DEF Rank
<1>4. \A i, j \in K : Rank(K, i) = Rank(K, j) => i = j
  <2>1. \A i, j \in K : i < j \/ j < i \/ i = j
    OBVIOUS
  <2>2. QED
    BY <1>3, <2>1
<1> DEFINE f == [i \in K |-> Rank(K, i)]
<1>5. f \in Injection(K, 1..n)
  BY <1>2, <1>4 DEF Injection, IsInjective
<1>6. IsFiniteSet(1..n) /\ Cardinality(1..n) = n
  BY <1>1, FS_Interval
<1>7. f \in Surjection(K, 1..n)
  <2> HIDE DEF f
  <2>1. Cardinality(K) = Cardinality(1..n) <=> f \in Surjection(K, 1..n)
    BY <1>5, <1>6, FS_Injection
  <2>2. QED
    BY <1>6, <2>1
<1>8. \A m \in 1..n : \E i \in K : Rank(K, i) = m
  BY <1>7 DEF Surjection
<1>9. QED
  BY <1>1, <1>2, <1>4, <1>8

\* Shared places are places of the table.
LEMMA SharedIs ==
    ASSUME TypeInv, NEW s \in Seqs
    PROVE  /\ \A i \in Shared(s) : i \in 1..Len(table[s]) /\ i \in Nat /\ refCount[table[s][i]] > 1
           /\ Shared(s) \in SUBSET Nat /\ IsFiniteSet(Shared(s)) /\ Cardinality(Shared(s)) \in Nat
           /\ Shared(s) \subseteq (seen[s] \div BlockSize) + 1..((Len(tokens[s]) - 1) \div BlockSize) + 1
           /\ table[s] \in Seq(Blocks) /\ DOMAIN table[s] = 1..Len(table[s]) /\ Len(table[s]) \in Nat
<1>1. table[s] \in Seq(Blocks) /\ seen[s] \in Nat
  BY DEF TypeInv
<1>2. seen[s] \div BlockSize \in Nat
  BY <1>1, DivMod
<1>3. ASSUME NEW i \in Shared(s)
      PROVE  /\ i \in 1..Len(table[s]) /\ i \in Nat /\ refCount[table[s][i]] > 1
             /\ i \in (seen[s] \div BlockSize) + 1..((Len(tokens[s]) - 1) \div BlockSize) + 1
  <2>1. /\ i \in (seen[s] \div BlockSize) + 1..((Len(tokens[s]) - 1) \div BlockSize) + 1
        /\ i <= Len(table[s]) /\ refCount[table[s][i]] > 1
    BY DEF Shared
  <2>2. i \in Int /\ i >= (seen[s] \div BlockSize) + 1
    BY <2>1
  <2>3. i \in 1..Len(table[s])
    BY <1>1, <1>2, <2>1, <2>2
  <2>4. QED
    BY <1>1, <2>1, <2>3
<1>4. Shared(s) \in SUBSET (1..Len(table[s])) /\ Len(table[s]) \in Nat
  BY <1>1, <1>3
<1>5. IsFiniteSet(1..Len(table[s]))
  BY <1>4, FS_Interval
<1>6. IsFiniteSet(Shared(s)) /\ Cardinality(Shared(s)) \in Nat
  BY <1>4, <1>5, FS_Subset, FS_CardinalityType
<1>7. QED
  BY <1>1, <1>3, <1>4, <1>6
LEMMA Products ==
    ASSUME NEW i \in Nat, NEW j \in Nat
    PROVE  i * BlockSize \in Nat /\ (i + j) * BlockSize = i * BlockSize + j * BlockSize
BY KVCacheAssumption

LEMMA LookaheadIs == NumLookaheadSlots \in Nat
BY KVCacheAssumption DEF NumLookaheadSlots

\* What append_slots() takes is at most what can_append_slots() counted, and it
\* is enough.
SlotsFor(s) == NumTouched(s, NumUnseen(s) + NumLookaheadSlots)
LEMMA SlotsFit ==
    ASSUME TypeInv, NEW s \in Seqs, tokens[s] # << >>,
           seen[s] <= Len(tokens[s]), seen[s] <= Len(table[s]) * BlockSize
    PROVE  /\ NumMissing(s) \in Nat /\ NumTaken(s) \in Nat /\ SlotsFor(s) \in Nat
           /\ NumTaken(s) = NumMissing(s) + Cardinality(Shared(s))
           /\ NumTaken(s) <= SlotsFor(s)
           /\ Len(tokens[s]) + NumLookaheadSlots <= (Len(table[s]) + NumMissing(s)) * BlockSize
<1> DEFINE L == Len(tokens[s])
           T == Len(table[s])
           S == seen[s]
           look == NumLookaheadSlots
           need == NumUnseen(s) + NumLookaheadSlots
           empty == Len(table[s]) * BlockSize - seen[s]
           B == BlockSize
           d == seen[s] \div BlockSize
           first == BlockSize - (seen[s] % BlockSize)
           c == NumMissing(s)
           k == SlotsFor(s)
           m == Cardinality(Shared(s))
<1>1. /\ L \in Nat /\ L > 0 /\ T \in Nat /\ S \in Nat /\ look \in Nat /\ B \in Nat /\ B > 0
      /\ S <= L /\ S <= T * B
  BY LookaheadIs, KVCacheAssumption DEF TypeInv, Tokens
<1>2. /\ d \in Nat /\ S % B \in 0..B - 1 /\ S = d * B + (S % B)
      /\ (L - 1) \div B \in Nat /\ ((L - 1) \div B) * B <= L - 1
  <2>1. L - 1 \in Nat
    BY <1>1
  <2>2. (L - 1) \div B \in Nat /\ (L - 1) % B \in 0..B - 1
        /\ L - 1 = ((L - 1) \div B) * B + ((L - 1) % B)
    BY <2>1, DivMod
  <2>3. ((L - 1) \div B) * B \in Nat
    BY <2>2, Products
  <2>4. d \in Nat /\ S % B \in 0..B - 1 /\ S = d * B + (S % B)
    BY <1>1, DivMod
  <2> HIDE DEF L
  <2>5. QED
    BY <1>1, <2>1, <2>2, <2>3, <2>4
<1>3. /\ need = L - S + look /\ need \in Nat /\ empty = T * B - S /\ empty \in Nat
      /\ T * B \in Nat /\ d * B \in Nat
      /\ first = B - (S % B) /\ first \in Nat
  <2>1. T * B \in Nat /\ d * B \in Nat
    BY <1>1, <1>2, Products
  <2>2. need = L - S + look /\ empty = T * B - S /\ first = B - (S % B)
    BY DEF NumUnseen
  <2> HIDE DEF L, T, S, look, need, empty, B, d, first
  <2>3. QED
    BY <1>1, <1>2, <2>1, <2>2
<1>4. /\ c \in Nat /\ (need <= empty => c = 0)
      /\ need > empty => need - empty <= c * B /\ c * B < need - empty + B
  <2>1. c = IF need <= empty THEN 0 ELSE CeilDiv(need - empty, B)
    BY DEF NumMissing
  <2>2. CASE need <= empty
    <3> HIDE DEF c, need, empty
    <3>1. QED
      BY <1>3, <2>1, <2>2
  <2>3. CASE ~(need <= empty)
    <3>1. need - empty \in Nat
      <4> HIDE DEF need, empty
      <4>1. QED
        BY <1>3, <2>3
    <3>2. CeilDiv(need - empty, B) \in Nat /\ need - empty <= CeilDiv(need - empty, B) * B
          /\ CeilDiv(need - empty, B) * B < need - empty + B
      BY <3>1, CeilIs
    <3> HIDE DEF c, need, empty
    <3>3. QED
      BY <2>1, <2>3, <3>2
  <2>4. QED
    BY <2>2, <2>3
<1>5. k \in Nat /\ k > 0 /\ S + need <= (d + k) * B
  <2>1. k = IF need <= first THEN 1 ELSE 1 + CeilDiv(need - first, B)
    BY DEF SlotsFor, NumTouched
  <2>2. CASE need <= first
    <3> HIDE DEF L, T, S, look, need, empty, B, d, first, k
    <3>1. k = 1 /\ (d + 1) * B = d * B + B
      BY <1>1, <1>2, <2>1, <2>2
    <3>2. QED
      BY <1>1, <1>2, <1>3, <2>2, <3>1
  <2>3. CASE ~(need <= first)
    <3>1. need - first \in Nat
      <4> HIDE DEF need, first
      <4>1. QED
        BY <1>3, <2>3
    <3> DEFINE e == CeilDiv(need - first, B)
    <3>2. e \in Nat /\ need - first <= e * B
      BY <3>1, CeilIs
    <3>3. k = 1 + e
      BY <2>1, <2>3
    <3> HIDE DEF L, T, S, look, need, empty, B, d, first, k, e
    <3>4. (d + k) * B = d * B + B + e * B /\ e * B \in Nat
      BY <1>1, <1>2, <3>2, <3>3
    <3>5. QED
      BY <1>1, <1>2, <1>3, <3>2, <3>3, <3>4
  <2>4. QED
    BY <2>2, <2>3
<1>6. /\ Shared(s) \subseteq d + 1..((L - 1) \div B) + 1 /\ Shared(s) \subseteq 1..T
      /\ IsFiniteSet(Shared(s)) /\ m \in Nat /\ NumTaken(s) = c + m
  BY SharedIs DEF NumTaken
<1>7. L + look <= (T + c) * B
  <2> HIDE DEF L, T, S, look, need, empty, B, d, c
  <2>1. (T + c) * B = T * B + c * B /\ c * B \in Nat
    BY <1>1, <1>4
  <2>2. CASE need <= empty
    BY <1>1, <1>3, <2>1, <2>2
  <2>3. CASE need > empty
    BY <1>1, <1>3, <1>4, <2>1, <2>3
  <2>4. QED
    BY <1>3, <2>2, <2>3
<1>8. CASE need <= empty
  <2> DEFINE e == (L - 1) \div B
  <2>1. e \in Nat /\ e * B <= L - 1 /\ Shared(s) \subseteq d + 1..e + 1
    BY <1>2, <1>6
  <2>2. c = 0
    BY <1>4, <1>8
  <2> HIDE DEF L, T, S, look, need, empty, B, d, c, k, m, e
  <2>3. e <= d + k - 1
    <3>1. d + k - 1 + 1 = d + k /\ e \in Int /\ d + k - 1 \in Int /\ L - 1 \in Int
      BY <1>1, <1>2, <1>5, <2>1
    <3>2. (d + k) * B \in Int /\ L - 1 < (d + k) * B
      BY <1>1, <1>2, <1>3, <1>5
    <3>3. L - 1 < (d + k - 1 + 1) * B
      BY <3>1, <3>2
    <3>4. QED
      BY <2>1, <3>1, <3>3, BlockIndex DEF B
  <2>4. IsFiniteSet(d + 1..e + 1) /\ Cardinality(d + 1..e + 1) <= k /\ Cardinality(d + 1..e + 1) \in Nat
    <3>1. d + 1 \in Int /\ e + 1 \in Int
      BY <1>2, <2>1
    <3>2. IsFiniteSet(d + 1..e + 1)
          /\ Cardinality(d + 1..e + 1) = IF d + 1 > e + 1 THEN 0 ELSE (e + 1) - (d + 1) + 1
      BY <3>1, FS_Interval
    <3>3. QED
      BY <1>2, <1>5, <2>1, <2>3, <3>2
  <2>5. m <= Cardinality(d + 1..e + 1)
    BY <2>1, <2>4, FS_Subset DEF m
  <2>6. NumTaken(s) \in Nat /\ NumTaken(s) <= k
    BY <1>4, <1>5, <1>6, <2>2, <2>4, <2>5
  <2>7. QED
    BY <1>4, <1>5, <1>6, <1>7, <2>6 DEF c, k, m, L, T, look, B
<1>9. CASE need > empty
  <2>1. d <= T
    <3> HIDE DEF L, T, S, look, need, empty, B, d, c, k, m
    <3>1. (T + 1) * B = T * B + B
      BY <1>1
    <3>2. d * B <= S /\ S < (T + 1) * B
      BY <1>1, <1>2, <1>3, <3>1
    <3>3. QED
      BY <1>1, <1>2, <3>2, BlockIndex DEF B
  <2>2. T + c <= d + k
    <3> HIDE DEF L, T, S, look, need, empty, B, d, c, k, m
    <3>1. (T + c) * B = T * B + c * B /\ (d + k + 1) * B = (d + k) * B + B
          /\ (d + k) * B \in Int /\ c * B \in Int
      BY <1>1, <1>2, <1>4, <1>5
    <3>2. (T + c) * B < (d + k + 1) * B
      BY <1>1, <1>3, <1>4, <1>5, <1>9, <3>1
    <3>3. T + c \in Int /\ d + k \in Int /\ (T + c) * B \in Int
      BY <1>1, <1>2, <1>3, <1>4, <1>5, <3>1
    <3> DEFINE x == (T + c) * B
    <3>4. x \in Int /\ (T + c) * B <= x /\ x < (d + k + 1) * B
      BY <3>2, <3>3
    <3> HIDE DEF x
    <3>5. QED
      BY <3>3, <3>4, BlockIndex DEF B
  <2>3. Shared(s) \subseteq d + 1..T
    <3> HIDE DEF L, T, d, B
    <3>1. SUFFICES ASSUME NEW i \in Shared(s) PROVE i \in d + 1..T
      OBVIOUS
    <3>2. i \in d + 1..((L - 1) \div B) + 1 /\ i \in 1..T
      BY <1>6
    <3>3. QED
      BY <1>1, <1>2, <3>2
  <2> HIDE DEF L, T, S, look, need, empty, B, d, c, k, m
  <2>4. IsFiniteSet(d + 1..T) /\ Cardinality(d + 1..T) = T - d
    <3>1. d + 1 \in Int /\ T \in Int
      BY <1>1, <1>2
    <3>2. IsFiniteSet(d + 1..T) /\ Cardinality(d + 1..T) = IF d + 1 > T THEN 0 ELSE T - (d + 1) + 1
      BY <3>1, FS_Interval
    <3>3. QED
      BY <1>1, <1>2, <2>1, <3>2
  <2>5. m <= T - d
    BY <2>3, <2>4, FS_Subset DEF m
  <2>6. c + m <= k
    BY <1>1, <1>2, <1>4, <1>5, <1>6, <2>2, <2>5
  <2>7. NumTaken(s) \in Nat /\ NumTaken(s) <= k
    BY <1>4, <1>6, <2>6
  <2>8. QED
    BY <1>4, <1>5, <1>6, <1>7, <2>7 DEF c, k, m, L, T, look, B
<1>10. QED
  <2> HIDE DEF need, empty
  <2>1. need <= empty \/ need > empty
    BY <1>3
  <2>2. QED
    BY <1>8, <1>9, <2>1

\* append_slots() fills the shared places and the new ones of the table of s with
\* the free blocks N.
TokensAppended(s, N) ==
    /\ N \subseteq FreeIn(GpuBlocks) /\ Cardinality(N) = NumTaken(s)
    /\ table' \in [Seqs -> Seq(Blocks)] /\ \A q \in Seqs : q # s => table'[q] = table[q]
    /\ Len(table'[s]) = Len(table[s]) + NumMissing(s)
    /\ DOMAIN table'[s] = 1..Len(table[s]) + NumMissing(s)
    /\ \A i \in DOMAIN table'[s] : IF i \in DOMAIN table[s] /\ i \notin Shared(s)
                                   THEN table'[s][i] = table[s][i] ELSE table'[s][i] \in N
    /\ IsInjective(table'[s]) /\ N \subseteq Range(table'[s])
    /\ refCount' = [b \in Blocks |-> IF b \in N THEN 1 ELSE IF \E i \in Shared(s) : table[s][i] = b
                                     THEN refCount[b] - 1 ELSE refCount[b]]
    /\ seen' = [seen EXCEPT ![s] = Len(tokens[s])]
    /\ AddPending({<<table[s][i], table'[s][i]>> : i \in Shared(s)}, {}, N)
    /\ UNCHANGED <<hash, computed>>

LEMMA AppendTokenIdsIs ==
    ASSUME BlocksInv, UsesV2, NEW s \in Seqs, status[s] = "RUNNING", AppendTokenIds(s)
    PROVE  \E N \in SUBSET Blocks : TokensAppended(s, N)
<1> DEFINE n == Len(table[s])
           m == NumMissing(s)
           K == Shared(s)
<1>1. PICK t \in Injection(1..NumTaken(s), FreeIn(GpuBlocks)) :
        LET Copy(i) == t[m + Cardinality({j \in K : j <= i})]
        IN  /\ table' = [table EXCEPT ![s] =
                  [i \in 1..n + m |-> IF i > n THEN t[i - n] ELSE IF i \in K THEN Copy(i)
                                      ELSE table[s][i]]]
            /\ refCount' = [b \in Blocks |->
                  IF b \in Range(t) THEN 1
                  ELSE refCount[b] - Cardinality({i \in K : table[s][i] = b})]
            /\ seen' = [seen EXCEPT ![s] = Len(tokens[s])]
            /\ AddPending({<<table[s][i], Copy(i)>> : i \in K}, {}, Range(t))
            /\ UNCHANGED <<hash, computed>>
  BY DEF AppendTokenIds
<1> DEFINE u == [i \in 1..n + m |-> IF i > n THEN t[i - n] ELSE IF i \in K THEN t[m + Rank(K, i)]
                                    ELSE table[s][i]]
<1>2. /\ table' = [table EXCEPT ![s] = u]
      /\ refCount' = [b \in Blocks |->
            IF b \in Range(t) THEN 1
            ELSE refCount[b] - Cardinality({i \in K : table[s][i] = b})]
      /\ seen' = [seen EXCEPT ![s] = Len(tokens[s])]
      /\ AddPending({<<table[s][i], t[m + Rank(K, i)]>> : i \in K}, {}, Range(t))
      /\ UNCHANGED <<hash, computed>>
  BY <1>1 DEF Rank
<1>3. /\ TypeInv /\ CountsMatchTables /\ tokens[s] # << >>
      /\ seen[s] <= Len(tokens[s]) /\ seen[s] <= Len(table[s]) * BlockSize
      /\ IsInjective(table[s])
  BY DEF BlocksInv, TableInv, StatusInv, FitInv, Placed
<1>4. m \in Nat /\ NumTaken(s) \in Nat /\ NumTaken(s) = m + Cardinality(K)
  BY <1>3, SlotsFit
<1>5. /\ K \in SUBSET Nat /\ IsFiniteSet(K) /\ Cardinality(K) \in Nat
      /\ table[s] \in Seq(Blocks) /\ DOMAIN table[s] = 1..n /\ n \in Nat
      /\ \A i \in K : i \in 1..n /\ i \in Nat
  BY <1>3, SharedIs
<1>6. /\ \A i \in K : Rank(K, i) \in 1..Cardinality(K)
      /\ \A i, j \in K : Rank(K, i) = Rank(K, j) => i = j
      /\ \A x \in 1..Cardinality(K) : \E i \in K : Rank(K, i) = x
  BY <1>5, Ranks
<1>7. /\ t \in [1..NumTaken(s) -> FreeIn(GpuBlocks)] /\ IsInjective(t) /\ DOMAIN t = 1..NumTaken(s)
      /\ FreeIn(GpuBlocks) \subseteq Blocks /\ \A b \in FreeIn(GpuBlocks) : refCount[b] = 0
  BY DEF Injection, FreeIn, Blocks
<1> DEFINE N == Range(t)
           at(i) == IF i > n THEN i - n ELSE m + Rank(K, i)
<1>8. N \subseteq FreeIn(GpuBlocks) /\ N \in SUBSET Blocks
  BY <1>7 DEF Range
<1>9. \A i \in 1..n : table[s][i] \in Blocks /\ refCount[table[s][i]] > 0 /\ table[s][i] \notin N
  <2>1. \A i \in 1..n : table[s][i] \in Blocks /\ refCount[table[s][i]] > 0
    BY <1>3, <1>5, HeldIsCounted
  <2>2. QED
    BY <1>7, <1>8, <2>1
<1> HIDE DEF n, m, K
<1>10. ASSUME NEW i \in 1..n + m, ~(i \in 1..n /\ i \notin K)
       PROVE  at(i) \in 1..NumTaken(s) /\ u[i] = t[at(i)] /\ u[i] \in N
  <2>1. at(i) \in 1..NumTaken(s)
    <3>1. CASE i > n
      BY <1>4, <1>5, <3>1
    <3>2. CASE ~(i > n)
      <4>1. i \in K
        BY <1>4, <1>5, <1>10, <3>2
      <4>2. QED
        BY <1>4, <1>5, <1>6, <3>2, <4>1
    <3>3. QED
      BY <3>1, <3>2
  <2>2. u[i] = t[at(i)]
    <3>1. CASE i > n
      BY <3>1
    <3>2. CASE ~(i > n)
      <4>1. i \in K
        BY <1>4, <1>5, <1>10, <3>2
      <4>2. QED
        BY <3>2, <4>1
    <3>3. QED
      BY <3>1, <3>2
  <2>3. QED
    BY <1>7, <2>1, <2>2 DEF Range
<1>11. ASSUME NEW i \in 1..n + m, i \in 1..n, i \notin K
       PROVE  u[i] = table[s][i]
  BY <1>5, <1>11
<1>12. \A i \in 1..n + m : u[i] \in Blocks
  BY <1>8, <1>9, <1>10, <1>11
<1>13. u \in Seq(Blocks) /\ Len(u) = n + m /\ DOMAIN u = 1..n + m
  <2>1. u \in [1..n + m -> Blocks]
    BY <1>12
  <2>2. n + m \in Nat
    BY <1>4, <1>5
  <2> HIDE DEF u
  <2>3. QED
    BY <2>1, <2>2
<1>14. \A i, j \in 1..n + m : ~(i \in 1..n /\ i \notin K) /\ ~(j \in 1..n /\ j \notin K)
                              /\ at(i) = at(j) => i = j
  <2>1. SUFFICES ASSUME NEW i \in 1..n + m, NEW j \in 1..n + m, ~(i \in 1..n /\ i \notin K),
                        ~(j \in 1..n /\ j \notin K), at(i) = at(j)
                 PROVE  i = j
    BY Zenon
  <2>2. i \in Int /\ j \in Int /\ (i > n \/ i \in K) /\ (j > n \/ j \in K)
    BY <1>4, <1>5, <2>1
  <2>3. CASE i > n /\ j > n
    BY <1>5, <2>1, <2>2, <2>3
  <2>4. CASE i > n /\ ~(j > n)
    <3>1. i - n <= m /\ Rank(K, j) \in Nat /\ Rank(K, j) > 0
      BY <1>4, <1>5, <1>6, <2>2, <2>4
    <3>2. i - n = m + Rank(K, j)
      BY <2>1, <2>4
    <3>3. QED
      BY <1>4, <1>5, <2>2, <3>1, <3>2
  <2>5. CASE ~(i > n) /\ j > n
    <3>1. j - n <= m /\ Rank(K, i) \in Nat /\ Rank(K, i) > 0
      BY <1>4, <1>5, <1>6, <2>2, <2>5
    <3>2. j - n = m + Rank(K, i)
      BY <2>1, <2>5
    <3>3. QED
      BY <1>4, <1>5, <2>2, <3>1, <3>2
  <2>6. CASE ~(i > n) /\ ~(j > n)
    <3>1. m + Rank(K, i) = m + Rank(K, j) /\ i \in K /\ j \in K
      BY <2>1, <2>2, <2>6
    <3>2. Rank(K, i) = Rank(K, j)
      BY <1>4, <1>5, <1>6, <3>1
    <3>3. QED
      BY <1>6, <3>1, <3>2
  <2>7. QED
    BY <2>3, <2>4, <2>5, <2>6
<1> HIDE DEF u, N
<1>15. IsInjective(u)
  <2>1. SUFFICES ASSUME NEW i \in 1..n + m, NEW j \in 1..n + m, u[i] = u[j] PROVE i = j
    BY <1>13 DEF IsInjective
  <2>2. CASE (i \in 1..n /\ i \notin K) /\ (j \in 1..n /\ j \notin K)
    BY <1>3, <1>5, <1>11, <2>1, <2>2 DEF IsInjective
  <2>3. CASE (i \in 1..n /\ i \notin K) /\ ~(j \in 1..n /\ j \notin K)
    BY <1>9, <1>10, <1>11, <2>1, <2>3
  <2>4. CASE ~(i \in 1..n /\ i \notin K) /\ (j \in 1..n /\ j \notin K)
    BY <1>9, <1>10, <1>11, <2>1, <2>4
  <2>5. CASE ~(i \in 1..n /\ i \notin K) /\ ~(j \in 1..n /\ j \notin K)
    <3>1. t[at(i)] = t[at(j)] /\ at(i) \in 1..NumTaken(s) /\ at(j) \in 1..NumTaken(s)
      BY <1>10, <2>1, <2>5
    <3> HIDE DEF at
    <3>2. at(i) = at(j)
      BY <1>7, <3>1 DEF IsInjective
    <3>3. QED
      BY <1>14, <2>5, <3>2
  <2>6. QED
    BY <2>2, <2>3, <2>4, <2>5
<1>16. N \subseteq Range(u)
  <2>1. SUFFICES ASSUME NEW x \in 1..NumTaken(s) PROVE \E i \in 1..n + m : u[i] = t[x]
    BY <1>7, <1>13 DEF Range, N
  <2>2. CASE x <= m
    <3> DEFINE i == n + x
    <3>1. i \in 1..n + m /\ ~(i \in 1..n) /\ i > n /\ i - n = x
      BY <1>4, <1>5, <2>2
    <3> HIDE DEF i
    <3>2. u[i] = t[at(i)] /\ at(i) = x
      BY <1>10, <3>1
    <3>3. QED
      BY <3>1, <3>2
  <2>3. CASE ~(x <= m)
    <3>1. x - m \in 1..Cardinality(K)
      BY <1>4, <1>5, <2>3
    <3>2. PICK i \in K : Rank(K, i) = x - m
      BY <1>6, <3>1
    <3>3. i \in 1..n /\ i \in 1..n + m /\ ~(i > n)
      BY <1>4, <1>5
    <3>4. u[i] = t[at(i)] /\ at(i) = m + (x - m)
      BY <1>10, <3>2, <3>3
    <3>5. m + (x - m) = x
      BY <1>4
    <3>6. QED
      BY <3>3, <3>4, <3>5
  <2>4. QED
    BY <2>2, <2>3
<1>17. Cardinality(N) = NumTaken(s)
  <2>1. t \in Bijection(1..NumTaken(s), N)
    BY <1>7 DEF Bijection, Injection, Surjection, Range, N
  <2>2. ExistsBijection(1..NumTaken(s), N)
    BY <2>1 DEF ExistsBijection
  <2>3. QED
    BY <1>4, <2>2, FS_CountingElements
<1>18. ASSUME NEW b \in Blocks
       PROVE  refCount[b] - Cardinality({i \in K : table[s][i] = b})
                = IF \E i \in K : table[s][i] = b THEN refCount[b] - 1 ELSE refCount[b]
  <2>1. refCount[b] \in Nat
    BY <1>3 DEF TypeInv
  <2>2. CASE \E i \in K : table[s][i] = b
    <3>1. PICK i \in K : table[s][i] = b
      BY <2>2
    <3>2. {j \in K : table[s][j] = b} = {i}
      BY <1>3, <1>5, <3>1 DEF IsInjective
    <3>3. Cardinality({j \in K : table[s][j] = b}) = 1
      BY <3>2, FS_Singleton
    <3>4. QED
      BY <2>2, <3>3
  <2>3. CASE ~(\E i \in K : table[s][i] = b)
    <3>1. {j \in K : table[s][j] = b} = {}
      BY <2>3
    <3>2. Cardinality({j \in K : table[s][j] = b}) = 0
      BY <3>1, FS_EmptySet
    <3>3. QED
      BY <2>1, <2>3, <3>2
  <2>4. QED
    BY <2>2, <2>3
<1>19. refCount' = [b \in Blocks |-> IF b \in N THEN 1 ELSE IF \E i \in K : table[s][i] = b
                                     THEN refCount[b] - 1 ELSE refCount[b]]
  BY <1>2, <1>18 DEF N
<1>20. /\ table'[s] = u /\ \A q \in Seqs : q # s => table'[q] = table[q]
       /\ table' \in [Seqs -> Seq(Blocks)]
  BY <1>2, <1>3, <1>13 DEF TypeInv
<1>21. {<<table[s][i], t[m + Rank(K, i)]>> : i \in K} = {<<table[s][i], u[i]>> : i \in K}
  <2>1. \A i \in K : u[i] = t[m + Rank(K, i)]
    <3>1. SUFFICES ASSUME NEW i \in K PROVE u[i] = t[m + Rank(K, i)]
      OBVIOUS
    <3>2. i \in 1..n + m /\ ~(i > n)
      BY <1>4, <1>5
    <3>3. QED
      BY <1>10, <3>2
  <2>2. QED
    BY <2>1
<1>22. \A i \in 1..n + m : IF i \in 1..n /\ i \notin K THEN u[i] = table[s][i] ELSE u[i] \in N
  <2>1. SUFFICES ASSUME NEW i \in 1..n + m
                 PROVE  IF i \in 1..n /\ i \notin K THEN u[i] = table[s][i] ELSE u[i] \in N
    OBVIOUS
  <2>2. QED
    BY <1>10, <1>11
<1>23. TokensAppended(s, N)
  <2>1. AddPending({<<table[s][i], table'[s][i]>> : i \in K}, {}, N)
    BY <1>2, <1>20, <1>21 DEF N
  <2>2. \A i \in DOMAIN table'[s] : IF i \in DOMAIN table[s] /\ i \notin K
                                    THEN table'[s][i] = table[s][i] ELSE table'[s][i] \in N
    BY <1>5, <1>13, <1>20, <1>22
  <2>3. QED
    BY <1>2, <1>8, <1>13, <1>15, <1>16, <1>17, <1>19, <1>20, <2>1, <2>2
    DEF TokensAppended, K, m, n
<1>24. QED
  BY <1>8, <1>23

LEMMA AppendTokenIdsKeeps ==
    ASSUME BlocksInv, UsesV2, NEW s \in Seqs, status[s] = "RUNNING",
           NEW N \in SUBSET Blocks, TokensAppended(s, N), UNCHANGED <<setup, status, tokens>>
    PROVE  /\ BlockInv' /\ pending'.moves = pending.moves
           /\ \A q \in Seqs : q # s => table'[q] = table[q] /\ seen'[q] = seen[q]
           /\ seen'[s] = Len(tokens[s]) /\ NumTaken(s) \in Nat
           /\ Len(tokens[s]) + NumLookaheadSlots <= Len(table'[s]) * BlockSize
           /\ Cardinality(FreeIn(GpuBlocks)) - NumTaken(s) <= Cardinality(FreeIn(GpuBlocks)')
           /\ \A b \in Range(table'[s]) : b \in N \/ b \in Range(table[s])
<1>1. /\ TypeInv /\ CountsMatchTables /\ HashInv /\ tokens[s] # << >>
      /\ seen[s] <= Len(tokens[s]) /\ seen[s] <= Len(table[s]) * BlockSize
      /\ IsInjective(table[s]) /\ Range(table[s]) \subseteq GpuBlocks
  BY DEF BlocksInv, TableInv, StatusInv, FitInv, Placed
<1>2. /\ NumMissing(s) \in Nat /\ NumTaken(s) \in Nat
      /\ Len(tokens[s]) + NumLookaheadSlots <= (Len(table[s]) + NumMissing(s)) * BlockSize
  BY <1>1, SlotsFit
<1>3. /\ \A i \in Shared(s) : i \in 1..Len(table[s]) /\ refCount[table[s][i]] > 1
      /\ table[s] \in Seq(Blocks) /\ DOMAIN table[s] = 1..Len(table[s]) /\ Len(table[s]) \in Nat
  BY <1>1, SharedIs
<1>4. /\ N \subseteq FreeIn(GpuBlocks) /\ Cardinality(N) = NumTaken(s)
      /\ table' \in [Seqs -> Seq(Blocks)] /\ \A q \in Seqs : q # s => table'[q] = table[q]
      /\ Len(table'[s]) = Len(table[s]) + NumMissing(s)
      /\ DOMAIN table'[s] = 1..Len(table[s]) + NumMissing(s)
      /\ \A i \in DOMAIN table'[s] : IF i \in DOMAIN table[s] /\ i \notin Shared(s)
                                     THEN table'[s][i] = table[s][i] ELSE table'[s][i] \in N
      /\ IsInjective(table'[s]) /\ N \subseteq Range(table'[s])
      /\ refCount' = [b \in Blocks |-> IF b \in N THEN 1
                                       ELSE IF \E i \in Shared(s) : table[s][i] = b
                                       THEN refCount[b] - 1 ELSE refCount[b]]
      /\ seen' = [seen EXCEPT ![s] = Len(tokens[s])]
      /\ AddPending({<<table[s][i], table'[s][i]>> : i \in Shared(s)}, {}, N)
      /\ UNCHANGED <<hash, computed>>
  BY DEF TokensAppended
<1>5. FreeIn(GpuBlocks) \subseteq GpuBlocks /\ \A b \in FreeIn(GpuBlocks) : refCount[b] = 0
  BY DEF FreeIn
<1>6. \A b \in Range(table[s]) : refCount[b] > 0 /\ b \in Blocks /\ b \notin N
  <2>1. \A i \in DOMAIN table[s] : refCount[table[s][i]] > 0 /\ table[s][i] \in Blocks
    BY <1>1, HeldIsCounted
  <2>2. QED
    BY <1>4, <1>5, <2>1 DEF Range
<1>7. \A b \in Range(table'[s]) : b \in N \/ b \in Range(table[s])
  BY <1>4 DEF Range
<1>8. ASSUME NEW b \in Blocks
      PROVE  b \in Range(table'[s]) <=> b \in N \/ (b \in Range(table[s])
                                                    /\ ~\E i \in Shared(s) : table[s][i] = b)
  <2>1. CASE b \in N
    BY <1>4, <2>1
  <2>2. CASE b \notin N /\ b \notin Range(table[s])
    BY <1>7, <2>2
  <2>3. CASE b \notin N /\ b \in Range(table[s])
    <3>1. PICK j \in DOMAIN table[s] : table[s][j] = b
      BY <2>3 DEF Range
    <3>2. j \in DOMAIN table'[s]
      BY <1>2, <1>3, <1>4
    <3>3. CASE j \in Shared(s)
      <4>1. SUFFICES ASSUME b \in Range(table'[s]) PROVE FALSE
        BY <2>3, <3>1, <3>3
      <4>2. PICK i \in DOMAIN table'[s] : table'[s][i] = b
        BY <4>1 DEF Range
      <4>3. i \in DOMAIN table[s] /\ i \notin Shared(s) /\ table[s][i] = b
        BY <1>4, <2>3, <4>2
      <4>4. i = j
        BY <1>1, <3>1, <4>3 DEF IsInjective
      <4>5. QED
        BY <3>3, <4>3, <4>4
    <3>4. CASE j \notin Shared(s)
      <4>1. table'[s][j] = b
        BY <1>4, <3>1, <3>2, <3>4
      <4>2. b \in Range(table'[s])
        BY <3>2, <4>1 DEF Range
      <4>3. ~\E i \in Shared(s) : table[s][i] = b
        BY <1>1, <1>3, <3>1, <3>4 DEF IsInjective
      <4>4. QED
        BY <2>3, <4>2, <4>3
    <3>5. QED
      BY <3>3, <3>4
  <2>4. QED
    BY <2>1, <2>2, <2>3
<1>9. \A b \in Blocks : (\E i \in Shared(s) : table[s][i] = b) => b \in Range(table[s]) /\ refCount[b] > 1
  BY <1>3 DEF Range
<1>10. TableInv'
  <2>1. CountsMatchTables'
    <3>1. ASSUME NEW b \in Blocks
          PROVE  refCount'[b] = refCount[b] + (IF b \in Range(table'[s]) THEN 1 ELSE 0)
                                            - (IF b \in Range(table[s]) THEN 1 ELSE 0)
      <4>1. refCount[b] \in Nat /\ (b \in N => refCount[b] = 0)
        BY <1>1, <1>4, <1>5 DEF TypeInv
      <4>2. refCount'[b] = IF b \in N THEN 1 ELSE IF \E i \in Shared(s) : table[s][i] = b
                                       THEN refCount[b] - 1 ELSE refCount[b]
        BY <1>4
      <4>3. b \in Range(table[s]) => b \notin N
        BY <1>6
      <4>4. QED
        BY <1>8, <1>9, <4>1, <4>2, <4>3
    <3>2. table' = [table EXCEPT ![s] = table'[s]]
      BY <1>1, <1>4 DEF TypeInv
    <3> DEFINE t == table'[s]
    <3>3. table' = [table EXCEPT ![s] = t]
      BY <3>2
    <3>4. \A b \in Blocks : refCount'[b] = refCount[b] + (IF b \in Range(t) THEN 1 ELSE 0)
                                            - (IF b \in Range(table[s]) THEN 1 ELSE 0)
      BY <3>1
    <3> HIDE DEF t
    <3>5. QED
      BY <1>1, <3>3, <3>4, OneTableCounts
  <2>2. SUFFICES ASSUME NEW q \in Seqs
                 PROVE  /\ IsInjective(table'[q])
                        /\ Range(table'[q]) \subseteq
                              IF status'[q] = "SWAPPED" THEN CpuBlocks ELSE GpuBlocks
    BY <2>1 DEF TableInv
  <2>3. CASE q = s
    BY <1>1, <1>4, <1>5, <1>7, <2>3
  <2>4. CASE q # s
    BY <1>4, <2>4 DEF BlocksInv, TableInv
  <2>5. QED
    BY <2>3, <2>4
<1>11. HashInv'
  BY <1>1, <1>4, HashesStay
<1>12. refCount' \in [Blocks -> Nat] /\ hash' \in [Blocks -> Seq(Nat)]
       /\ computed' \in [Blocks -> BOOLEAN] /\ seen' \in [Seqs -> Nat]
  <2>1. \A b \in Blocks : refCount[b] \in Nat
    BY <1>1 DEF TypeInv
  <2>2. refCount' \in [Blocks -> Nat]
    BY <1>4, <1>9, <2>1
  <2>3. Len(tokens[s]) \in Nat
    BY <1>1 DEF TypeInv
  <2>4. QED
    BY <1>1, <1>4, <2>2, <2>3 DEF TypeInv
<1>13. pending' \in [copies : SUBSET (Blocks \X Blocks),
                     moves : SUBSET (Blocks \X Blocks), fresh : SUBSET Blocks]
       /\ pending'.moves = pending.moves \cup {}
  <2> DEFINE C == {<<table[s][i], table'[s][i]>> : i \in Shared(s)}
  <2>1. C \in SUBSET (Blocks \X Blocks)
    <3>1. SUFFICES ASSUME NEW i \in Shared(s) PROVE table[s][i] \in Blocks /\ table'[s][i] \in Blocks
      OBVIOUS
    <3>2. i \in DOMAIN table[s] /\ i \in DOMAIN table'[s]
      BY <1>2, <1>3, <1>4
    <3>3. table[s] \in Seq(Blocks) /\ table'[s] \in Seq(Blocks)
      BY <1>3, <1>4
    <3>4. QED
      BY <3>2, <3>3
  <2>2. AddPending(C, {}, N)
    BY <1>4
  <2> HIDE DEF C
  <2>3. QED
    BY <1>1, <2>1, <2>2, PendingType
<1>14. Cardinality(FreeIn(GpuBlocks)) - NumTaken(s) <= Cardinality(FreeIn(GpuBlocks)')
  <2>1. FreeIn(GpuBlocks) \subseteq FreeIn(GpuBlocks)' \cup N
    <3>1. SUFFICES ASSUME NEW x \in FreeIn(GpuBlocks), x \notin N PROVE refCount'[x] = 0
      BY DEF FreeIn
    <3>2. x \in Blocks /\ refCount[x] = 0
      BY DEF FreeIn, Blocks
    <3>3. ~\E i \in Shared(s) : table[s][i] = x
      BY <1>9, <3>2
    <3>4. QED
      BY <1>4, <3>1, <3>2, <3>3
  <2>2. FreeIn(GpuBlocks) \in SUBSET Blocks /\ FreeIn(GpuBlocks)' \in SUBSET Blocks
    BY DEF FreeIn, Blocks
  <2>3. QED
    BY <1>4, <2>1, <2>2, FreeShrinks
<1>15. /\ \A q \in Seqs : q # s => table'[q] = table[q] /\ seen'[q] = seen[q]
       /\ seen'[s] = Len(tokens[s])
  BY <1>1, <1>4 DEF TypeInv
<1>16. QED
  BY <1>2, <1>4, <1>7, <1>10, <1>11, <1>12, <1>13, <1>14, <1>15 DEF BlockInv, BlockTypes
-----------------------------------------------------------------------------
(***************************************************************************)
(* free() and fork(), of both managers                                     *)
(***************************************************************************)
LEMMA FreeTablesKeep ==
    ASSUME BlocksInv, NEW S \in SUBSET Seqs, FreeTables(S), UNCHANGED <<setup, pending>>,
           \A s \in Seqs : s \notin S => status'[s] = status[s]
    PROVE  /\ BlockInv'
           /\ \A s \in Seqs : /\ table'[s] = IF s \in S THEN << >> ELSE table[s]
                              /\ seen'[s] = IF s \in S THEN 0 ELSE seen[s]
           /\ \A b \in Blocks : refCount[b] = 0 => refCount'[b] = 0
           /\ FreeIn(GpuBlocks) \subseteq FreeIn(GpuBlocks)'
<1>1. TypeInv /\ TableInv /\ CountsMatchTables /\ HashInv
  BY DEF BlocksInv, TableInv
<1>2. /\ table' = [s \in Seqs |-> IF s \in S THEN << >> ELSE table[s]]
      /\ seen' = [s \in Seqs |-> IF s \in S THEN 0 ELSE seen[s]]
      /\ UNCHANGED <<hash, computed>>
  BY DEF FreeTables
<1>3. /\ CountsMatchTables' /\ refCount' \in [Blocks -> Nat]
      /\ \A b \in Blocks : refCount[b] = 0 => refCount'[b] = 0
  BY <1>1, FreeTablesCounts
<1>4. TableInv'
  <2>1. SUFFICES ASSUME NEW s \in Seqs
                 PROVE  /\ IsInjective(table'[s])
                        /\ Range(table'[s]) \subseteq
                              IF status'[s] = "SWAPPED" THEN CpuBlocks ELSE GpuBlocks
    BY <1>3 DEF TableInv
  <2>2. CASE s \in S
    <3>1. table'[s] = << >>
      BY <1>2, <2>2
    <3>2. Range(<< >>) = {} /\ IsInjective(<< >>)
      BY DEF Range, IsInjective
    <3>3. QED
      BY <3>1, <3>2
  <2>3. CASE s \notin S
    <3>1. table'[s] = table[s] /\ status'[s] = status[s]
      BY <1>2, <2>3
    <3>2. QED
      BY <1>1, <3>1 DEF TableInv
  <2>4. QED
    BY <2>2, <2>3
<1>5. HashInv'
  <2>1. CASE UsesV2
    BY <1>1, <1>2, <2>1, HashesStay
  <2>2. CASE ~UsesV2
    <3>1. ~UsesV2' /\ Unnamed' = Unnamed /\ OneBlockPerHash'
      BY <1>1, <1>2, <2>2 DEF UsesV2, HashInv, OneBlockPerHash, Unnamed
    <3>2. \A b \in Blocks : /\ hash'[b] = << >> => ~computed'[b]
                            /\ refCount'[b] > 0 => hash'[b] \notin {<< >>, Unnamed}
      <4>1. \A b \in Blocks : refCount[b] \in Nat /\ refCount'[b] \in Nat
        BY <1>1, <1>3 DEF TypeInv
      <4>2. \A b \in Blocks : refCount'[b] > 0 => refCount[b] > 0
        BY <1>3, <4>1
      <4>3. QED
        BY <1>1, <1>2, <2>2, <4>2 DEF HashInv
    <3>3. ASSUME NEW s \in Seqs, NEW i \in DOMAIN table'[s]
          PROVE  FitsAt(hash'[table'[s][i]], i)
      <4>1. DOMAIN << >> = {}
        OBVIOUS
      <4>2. s \notin S /\ table'[s] = table[s]
        BY <1>2, <3>3, <4>1
      <4>3. QED
        BY <1>1, <1>2, <2>2, <3>3, <4>2 DEF HashInv
    <3>4. QED
      BY <3>1, <3>2, <3>3 DEF HashInv
  <2>3. QED
    BY <2>1, <2>2
<1>6. table' \in [Seqs -> Seq(Blocks)] /\ seen' \in [Seqs -> Nat]
      /\ hash' \in [Blocks -> Seq(Nat)] /\ computed' \in [Blocks -> BOOLEAN]
      /\ pending' \in [copies : SUBSET (Blocks \X Blocks),
                       moves : SUBSET (Blocks \X Blocks), fresh : SUBSET Blocks]
  <2>1. << >> \in Seq(Blocks)
    OBVIOUS
  <2>2. QED
    BY <1>1, <1>2, <2>1 DEF TypeInv
<1>7. FreeIn(GpuBlocks) \subseteq FreeIn(GpuBlocks)'
  BY <1>3 DEF FreeIn, Blocks
<1>8. QED
  BY <1>2, <1>3, <1>4, <1>5, <1>6, <1>7 DEF BlockInv, BlockTypes

LEMMA ForkTableKeeps ==
    ASSUME BlocksInv, NEW s \in Seqs, NEW c \in Seqs, status[s] = "RUNNING", status[c] = "UNUSED",
           ForkTable(s, c), UNCHANGED <<setup, pending>>,
           status'[c] = "RUNNING", \A q \in Seqs : q # c => status'[q] = status[q]
    PROVE  /\ BlockInv' /\ table'[c] = table[s] /\ seen'[c] = seen[s]
           /\ \A q \in Seqs : q # c => table'[q] = table[q] /\ seen'[q] = seen[q]
<1>1. TypeInv /\ TableInv /\ CountsMatchTables /\ HashInv /\ table[c] = << >>
  BY DEF BlocksInv, TableInv, StatusInv, Placed
<1>2. /\ table' = [table EXCEPT ![c] = table[s]]
      /\ refCount' = [b \in Blocks |-> IF b \in Range(table[s]) THEN refCount[b] + 1
                                       ELSE refCount[b]]
      /\ seen' = [seen EXCEPT ![c] = seen[s]]
      /\ UNCHANGED <<hash, computed>>
  BY DEF ForkTable
<1>3. /\ table'[c] = table[s] /\ seen'[c] = seen[s]
      /\ \A q \in Seqs : q # c => table'[q] = table[q] /\ seen'[q] = seen[q]
  BY <1>1, <1>2 DEF TypeInv
<1>4. TableInv'
  <2>1. CountsMatchTables'
    <3>1. Range(table[c]) = {}
      BY <1>1 DEF Range
    <3> DEFINE t == table[s]
    <3>2. \A b \in Blocks : refCount'[b] = refCount[b] + (IF b \in Range(t) THEN 1 ELSE 0)
                                             - (IF b \in Range(table[c]) THEN 1 ELSE 0)
      BY <1>1, <1>2, <3>1 DEF TypeInv
    <3>3. table' = [table EXCEPT ![c] = t]
      BY <1>2
    <3> HIDE DEF t
    <3>4. QED
      BY <1>1, <3>2, <3>3, OneTableCounts
  <2>2. SUFFICES ASSUME NEW q \in Seqs
                 PROVE  /\ IsInjective(table'[q])
                        /\ Range(table'[q]) \subseteq
                              IF status'[q] = "SWAPPED" THEN CpuBlocks ELSE GpuBlocks
    BY <2>1 DEF TableInv
  <2>3. CASE q = c
    BY <1>1, <1>3, <2>3 DEF TableInv
  <2>4. CASE q # c
    BY <1>1, <1>3, <2>4 DEF TableInv
  <2>5. QED
    BY <2>3, <2>4
<1>5. \A b \in Blocks : refCount'[b] \in Nat /\ (refCount'[b] > 0 => refCount[b] > 0)
  <2>1. \A b \in Range(table[s]) : refCount[b] > 0
    BY <1>1, HeldIsCounted DEF Range
  <2>2. \A b \in Blocks : refCount[b] \in Nat
    BY <1>1 DEF TypeInv
  <2>3. QED
    BY <1>2, <2>1, <2>2
<1>6. HashInv'
  <2>1. CASE UsesV2
    BY <1>1, <1>2, <2>1, HashesStay
  <2>2. CASE ~UsesV2
    <3>1. ~UsesV2' /\ Unnamed' = Unnamed /\ OneBlockPerHash'
      BY <1>1, <1>2, <2>2 DEF UsesV2, HashInv, OneBlockPerHash, Unnamed
    <3>2. \A b \in Blocks : /\ hash'[b] = << >> => ~computed'[b]
                            /\ refCount'[b] > 0 => hash'[b] \notin {<< >>, Unnamed}
      BY <1>1, <1>2, <1>5, <2>2 DEF HashInv
    <3>3. \A q \in Seqs : \A i \in DOMAIN table'[q] : FitsAt(hash'[table'[q][i]], i)
      <4>1. \A q \in Seqs : \E p \in Seqs : table'[q] = table[p]
        BY <1>3
      <4>2. QED
        BY <1>1, <1>2, <2>2, <4>1 DEF HashInv
    <3>4. QED
      BY <3>1, <3>2, <3>3 DEF HashInv
  <2>3. QED
    BY <2>1, <2>2
<1>7. table' \in [Seqs -> Seq(Blocks)] /\ seen' \in [Seqs -> Nat]
      /\ hash' \in [Blocks -> Seq(Nat)] /\ computed' \in [Blocks -> BOOLEAN]
      /\ refCount' \in [Blocks -> Nat]
      /\ pending' \in [copies : SUBSET (Blocks \X Blocks),
                       moves : SUBSET (Blocks \X Blocks), fresh : SUBSET Blocks]
  <2>1. refCount' \in [Blocks -> Nat]
    BY <1>2, <1>5
  <2>2. QED
    BY <1>1, <1>2, <2>1 DEF TypeInv
<1>8. QED
  BY <1>3, <1>4, <1>6, <1>7 DEF BlockInv, BlockTypes
-----------------------------------------------------------------------------
(***************************************************************************)
(* Requests, and what a step leaves alone                                  *)
(***************************************************************************)
\* A step after which the same requests are live, in the same order.
LEMMA ArrivalStays ==
    ASSUME ArrivalInv, UNCHANGED arrival, \A r \in Requests : Live(r)' = {} <=> Live(r) = {}
    PROVE  ArrivalInv'
BY DEF ArrivalInv

\* No sequence comes or goes.
LEMMA LiveStays ==
    ASSUME ArrivalInv, UNCHANGED arrival,
           \A s \in Seqs : status'[s] = "UNUSED" <=> status[s] = "UNUSED"
    PROVE  ArrivalInv' /\ \A r \in Requests : Live(r)' = Live(r)
<1>1. \A r \in Requests : Live(r)' = Live(r)
  BY DEF Live
<1>2. QED
  BY <1>1, ArrivalStays

\* The unfinished sequences of an owner.
LEMMA OwnerIs ==
    ASSUME NEW s \in Seqs
    PROVE  /\ Owner[s] \in Requests
           /\ status[s] # "UNUSED" => s \in Live(Owner[s])
           /\ status[s] = "RUNNING" => s \in Group(s)
BY KVCacheAssumption DEF Live, Group, SeqsWith

\* Two unfinished sequences of which neither request came first have one owner.
LEMMA NeitherFirst ==
    ASSUME ArrivalInv, NEW s \in Seqs, NEW q \in Seqs,
           status[s] # "UNUSED", status[q] # "UNUSED",
           <<Owner[s], Owner[q]>> \notin arrival, <<Owner[q], Owner[s]>> \notin arrival
    PROVE  Owner[s] = Owner[q]
<1>1. Owner[s] \in Requests /\ Owner[q] \in Requests /\ Live(Owner[s]) # {} /\ Live(Owner[q]) # {}
  BY OwnerIs
<1>2. QED
  BY <1>1 DEF ArrivalInv

LEMMA EarliestAreOne ==
    ASSUME ArrivalInv, RoundInv, NEW s \in Earliest(todo), NEW q \in Earliest(todo)
    PROVE  s \in Seqs /\ q \in Seqs /\ Owner[s] = Owner[q] /\ Group(s) = Group(q)
<1>1. s \in todo /\ q \in todo /\ todo \subseteq Running
  BY DEF Earliest, RoundInv
<1>2. /\ s \in Seqs /\ q \in Seqs /\ status[s] = "RUNNING" /\ status[q] = "RUNNING"
      /\ <<Owner[s], Owner[q]>> \notin arrival /\ <<Owner[q], Owner[s]>> \notin arrival
  BY <1>1 DEF Earliest, Running
<1>3. Owner[s] = Owner[q]
  BY <1>2, NeitherFirst
<1>4. QED
  BY <1>2, <1>3 DEF Group

\* The blocks are left alone, and no sequence is swapped.
LEMMA BlocksStay ==
    ASSUME BlocksInv, UNCHANGED setup, UNCHANGED blockVars, UNCHANGED pending,
           \A s \in Seqs : status'[s] = "SWAPPED" <=> status[s] = "SWAPPED"
    PROVE  BlockInv'
<1>1. UNCHANGED <<table, hash, refCount, computed, seen, pending, setup>>
  BY DEF blockVars
<1>2. BlockTypes'
  BY <1>1 DEF BlocksInv, TypeInv, BlockTypes
<1>3. TableInv'
  BY <1>1 DEF BlocksInv, TableInv, CountsMatchTables, NumFrees
<1>4. HashInv'
  BY <1>1 DEF BlocksInv, HashInv, OneBlockPerHash, UsesV2
<1>5. QED
  BY <1>2, <1>3, <1>4 DEF BlockInv
-----------------------------------------------------------------------------
(***************************************************************************)
(* Steps of a round                                                        *)
(***************************************************************************)
LEMMA AddRequestKeeps ==
    ASSUME BlocksInv, NEW r \in Requests, NEW p \in Prompts[r], AddRequest(r, p)
    PROVE  BlocksInv'
<1> DEFINE s == First[r]
<1>1. s \in Seqs /\ Owner[s] = r /\ p \in Seq(Tokens) /\ p # << >>
  BY KVCacheAssumption DEF Tokens
<1>2. /\ TypeInv /\ StatusInv /\ ArrivalInv /\ RoundInv
      /\ TableInv /\ FitInv /\ HashInv /\ PromiseInv /\ ProposalInv
  BY DEF BlocksInv
<1> HIDE DEF s
<1>3. /\ phase = "idle" /\ Live(r) = {}
      /\ status' = [status EXCEPT ![s] = "WAITING"] /\ tokens' = [tokens EXCEPT ![s] = p]
      /\ arrival' = arrival \cup ({q \in Requests : Live(q) # {}} \X {r})
      /\ UNCHANGED <<setup, phase, todo, batch, pending>>
      /\ UNCHANGED <<table, hash, refCount, computed, seen>> /\ UNCHANGED proposal
  BY DEF AddRequest, blockVars, cacheVars, s
<1>4. status[s] = "UNUSED" /\ \A q \in Seqs : Owner[q] = r => status[q] = "UNUSED"
  BY <1>1, <1>3 DEF Live
<1>5. /\ \A q \in Seqs : status'[q] = IF q = s THEN "WAITING" ELSE status[q]
      /\ \A q \in Seqs : tokens'[q] = IF q = s THEN p ELSE tokens[q]
  BY <1>1, <1>2, <1>3 DEF TypeInv
<1>6. TypeInv'
  <2>1. status' \in [Seqs -> Statuses] /\ tokens' \in [Seqs -> Seq(Tokens)]
    BY <1>1, <1>2, <1>3 DEF TypeInv, Statuses
  <2>2. arrival' \in SUBSET (Requests \X Requests)
    BY <1>2, <1>3 DEF TypeInv
  <2>3. QED
    BY <1>2, <1>3, <2>1, <2>2 DEF TypeInv
<1>7. StatusInv'
  <2>1. \A q \in Seqs : Placed(q)' <=> Placed(q)
    BY <1>4, <1>5 DEF Placed
  <2>2. \A q \in Seqs : /\ tokens'[q] = << >> <=> status'[q] = "UNUSED"
                        /\ ~Placed(q)' => table'[q] = << >> /\ seen'[q] = 0
    BY <1>1, <1>2, <1>3, <1>5, <2>1 DEF StatusInv
  <2>3. ASSUME NEW x \in Seqs, NEW q \in Seqs, Owner[x] = Owner[q],
               status'[x] # "UNUSED", status'[q] # "UNUSED"
        PROVE  status'[x] = status'[q] /\ (status'[x] = "WAITING" => x = q)
    BY <1>1, <1>2, <1>4, <1>5, <2>3 DEF StatusInv
  <2>4. UsesV2' => Swapped' = {}
    <3>1. UsesV2 => \A q \in Seqs : status[q] # "SWAPPED"
      BY <1>2 DEF StatusInv, Swapped
    <3>2. \A q \in Seqs : status'[q] = "SWAPPED" => status[q] = "SWAPPED"
      BY <1>5
    <3>3. UsesV2' => UsesV2
      BY <1>3 DEF UsesV2
    <3>4. QED
      BY <3>1, <3>2, <3>3 DEF Swapped
  <2>5. QED
    BY <2>2, <2>3, <2>4 DEF StatusInv, Placed
<1>8. ArrivalInv'
  <2>1. \A q \in Requests : Live(q)' = IF q = r THEN {s} ELSE Live(q)
    BY <1>1, <1>4, <1>5 DEF Live
  <2>2. \A q \in Requests : <<q, r>> \notin arrival /\ <<r, q>> \notin arrival
    BY <1>2, <1>3 DEF ArrivalInv
  <2>3. \A x, y \in Requests : <<x, y>> \in arrival' <=>
                                  <<x, y>> \in arrival \/ (y = r /\ Live(x) # {})
    BY <1>3
  <2>4. \A q \in Requests : Live(q)' # {} <=> (q = r \/ Live(q) # {})
    BY <1>3, <2>1
  <2>5. ASSUME NEW x \in Requests, NEW y \in Requests
        PROVE  /\ <<x, y>> \in arrival' =>
                      Live(x)' # {} /\ Live(y)' # {} /\ <<y, x>> \notin arrival'
               /\ Live(x)' # {} /\ Live(y)' # {} /\ x # y =>
                      <<x, y>> \in arrival' \/ <<y, x>> \in arrival'
    <3>1. /\ <<x, y>> \in arrival => Live(x) # {} /\ Live(y) # {} /\ <<y, x>> \notin arrival
          /\ Live(x) # {} /\ Live(y) # {} /\ x # y => <<x, y>> \in arrival \/ <<y, x>> \in arrival
      BY <1>2 DEF ArrivalInv
    <3>2. /\ <<x, y>> \in arrival' <=> <<x, y>> \in arrival \/ (y = r /\ Live(x) # {})
          /\ <<y, x>> \in arrival' <=> <<y, x>> \in arrival \/ (x = r /\ Live(y) # {})
      BY <2>3
    <3>3. QED
      BY <1>3, <2>2, <2>4, <3>1, <3>2
  <2>6. QED
    BY <2>5 DEF ArrivalInv
<1>9. RoundInv'
  BY <1>2, <1>3 DEF RoundInv, Decoding, UsesV2
<1>10. BlockInv'
  <2>1. \A q \in Seqs : status'[q] = "SWAPPED" <=> status[q] = "SWAPPED"
    BY <1>4, <1>5
  <2>2. QED
    BY <1>3, <2>1, BlocksStay DEF blockVars
<1>11. FitInv'
  <2>1. \A q \in Seqs : Placed(q)' => q # s /\ Placed(q)
    BY <1>4, <1>5 DEF Placed
  <2>2. QED
    BY <1>2, <1>3, <1>5, <2>1 DEF FitInv, UsesV2, HasItsSlots, NumBlocks
<1>12. PromiseInv' /\ ProposalInv'
  BY <1>2, <1>3 DEF PromiseInv, ProposalInv, Decoding
<1>13. QED
  BY <1>6, <1>7, <1>8, <1>9, <1>10, <1>11, <1>12 DEF BlocksInv, BlockInv

\* The number of blocks a number of tokens needs, of a sequence that keeps its
\* tokens and its table.
LEMMA FitStays ==
    ASSUME FitInv, UNCHANGED setup, NEW s \in Seqs, Placed(s),
           Len(table'[s]) = Len(table[s]), table'[s] = << >> <=> table[s] = << >>,
           seen'[s] = seen[s], tokens'[s] = tokens[s], HasItsSlots(s)' => HasItsSlots(s)
    PROVE  IF UsesV2'
           THEN /\ seen'[s] <= Len(tokens'[s]) /\ seen'[s] <= Len(table'[s]) * BlockSize
                /\ HasItsSlots(s)' => seen'[s] = Len(tokens'[s])
           ELSE /\ seen'[s] = 0 /\ table'[s] # << >>
                /\ Len(table'[s]) \in {NumBlocks(s)' - 1, NumBlocks(s)'}
                /\ HasItsSlots(s)' => Len(table'[s]) = NumBlocks(s)'
<1>1. NumBlocks(s)' = NumBlocks(s) /\ (UsesV2' <=> UsesV2)
  BY DEF NumBlocks, UsesV2
<1>2. QED
  BY <1>1 DEF FitInv

LEMMA StartDecodeKeeps ==
    ASSUME BlocksInv, StartDecode
    PROVE  BlocksInv'
<1>1. /\ TypeInv /\ StatusInv /\ ArrivalInv /\ RoundInv
      /\ TableInv /\ FitInv /\ HashInv /\ PromiseInv /\ ProposalInv
  BY DEF BlocksInv
<1>2. /\ phase = "idle" /\ phase' = "decode" /\ todo' = Running
      /\ UNCHANGED <<batch, pending, setup, status, tokens, arrival>>
      /\ UNCHANGED <<table, hash, refCount, computed, seen>> /\ UNCHANGED proposal
  BY DEF StartDecode, seqVars, blockVars, cacheVars
<1>3. batch = {} /\ pending = NothingPending /\ pending.moves = {}
  BY <1>1, <1>2 DEF RoundInv, NothingPending
<1>4. TypeInv'
  <2>1. todo' \in SUBSET Seqs /\ phase' \in Phases
    BY <1>2 DEF Running, Phases
  <2>2. QED
    BY <1>1, <1>2, <2>1 DEF TypeInv
<1>5. StatusInv'
  BY <1>1, <1>2 DEF StatusInv, UsesV2, Swapped, Placed
<1>6. ArrivalInv'
  BY <1>1, <1>2, LiveStays
<1>7. RoundInv'
  BY <1>1, <1>2, <1>3 DEF RoundInv, UsesV2, Running
<1>8. BlockInv'
  BY <1>2, BlocksStay DEF blockVars
<1>9. FitInv'
  BY <1>1, <1>2, <1>3 DEF FitInv, UsesV2, HasItsSlots, NumBlocks, Placed
<1>10. PromiseInv' /\ ProposalInv'
  BY <1>1, <1>2, <1>3 DEF PromiseInv, ProposalInv, SwappedIn
<1>11. QED
  BY <1>4, <1>5, <1>6, <1>7, <1>8, <1>9, <1>10 DEF BlocksInv, BlockInv

LEMMA AdmitKeeps ==
    ASSUME BlocksInv, NEW s \in Seqs, Admit(s)
    PROVE  BlocksInv'
<1>1. /\ TypeInv /\ StatusInv /\ ArrivalInv /\ RoundInv
      /\ TableInv /\ FitInv /\ HashInv /\ PromiseInv /\ ProposalInv
  BY DEF BlocksInv
<1>2. /\ phase \in {"idle", "prefill"} /\ status[s] = "WAITING" /\ Swapped = {}
      /\ IF UsesV2 THEN AllocateTableV2(s) ELSE AllocateTable(s)
      /\ SetStatus({s}, "RUNNING") /\ phase' = "prefill" /\ batch' = batch \cup {s}
      /\ UNCHANGED <<setup, tokens, arrival, todo, proposal>>
  BY DEF Admit, cacheVars
<1>3. /\ status' = [q \in Seqs |-> IF q = s THEN "RUNNING" ELSE status[q]]
      /\ \A q \in Seqs : status'[q] = IF q = s THEN "RUNNING" ELSE status[q]
  BY <1>2 DEF SetStatus
<1>4. /\ BlockInv' /\ pending'.moves = pending.moves
      /\ \A q \in Seqs : q # s => table'[q] = table[q] /\ seen'[q] = seen[q]
      /\ seen' \in [Seqs -> Nat]
  <2>1. CASE UsesV2
    BY <1>2, <2>1, AllocateTableV2Keeps DEF BlockInv, BlockTypes
  <2>2. CASE ~UsesV2
    BY <1>2, <2>2, AllocateTableKeeps DEF BlockInv, BlockTypes
  <2>3. QED
    BY <2>1, <2>2
<1>5. IF UsesV2 THEN seen'[s] = Len(tokens[s]) /\ Len(table'[s]) = NumBlocks(s)
      ELSE seen'[s] = 0 /\ Len(table'[s]) = NumBlocks(s) /\ table'[s] # << >>
  <2>1. CASE UsesV2
    BY <1>2, <2>1, AllocateTableV2Keeps
  <2>2. CASE ~UsesV2
    <3>1. seen'[s] = seen[s] /\ Len(table'[s]) = NumBlocks(s) /\ table'[s] # << >>
      BY <1>2, <2>2, AllocateTableKeeps
    <3>2. seen[s] = 0
      BY <1>1, <1>2 DEF StatusInv, Placed
    <3>3. QED
      BY <2>2, <3>1, <3>2
  <2>3. QED
    BY <2>1, <2>2
<1>6. TypeInv'
  <2>1. status' \in [Seqs -> Statuses]
    BY <1>1, <1>3 DEF TypeInv, Statuses
  <2>2. phase' \in Phases /\ batch' \in SUBSET Seqs
    BY <1>1, <1>2 DEF TypeInv, Phases
  <2>3. QED
    BY <1>1, <1>2, <1>4, <2>1, <2>2 DEF TypeInv, BlockInv, BlockTypes
<1>7. StatusInv'
  <2>1. \A q \in Seqs : /\ tokens'[q] = << >> <=> status'[q] = "UNUSED"
                        /\ ~Placed(q)' => table'[q] = << >> /\ seen'[q] = 0
    BY <1>1, <1>2, <1>3, <1>4 DEF StatusInv, Placed
  <2>2. ASSUME NEW x \in Seqs, NEW q \in Seqs, Owner[x] = Owner[q],
               status'[x] # "UNUSED", status'[q] # "UNUSED"
        PROVE  status'[x] = status'[q] /\ (status'[x] = "WAITING" => x = q)
    BY <1>1, <1>2, <1>3, <2>2 DEF StatusInv
  <2>3. Swapped' = {}
    BY <1>2, <1>3 DEF Swapped
  <2>4. QED
    BY <2>1, <2>2, <2>3 DEF StatusInv, Placed
<1>8. ArrivalInv'
  BY <1>1, <1>2, <1>3, LiveStays
<1>9. RoundInv'
  <2>1. todo = {}
    BY <1>1, <1>2 DEF RoundInv
  <2>2. todo' \cup batch' \subseteq Running'
    BY <1>1, <1>2, <1>3, <2>1 DEF RoundInv, Running
  <2>3. QED
    BY <1>1, <1>2, <1>4, <2>1, <2>2 DEF RoundInv, UsesV2, Decoding
<1>10. FitInv'
  <2>1. ASSUME NEW q \in Seqs, Placed(q)', q # s
        PROVE  Placed(q) /\ (HasItsSlots(q)' => HasItsSlots(q))
    BY <1>2, <1>3, <2>1 DEF Placed, HasItsSlots
  <2>2. NumBlocks(s)' = NumBlocks(s) /\ (UsesV2' <=> UsesV2)
    BY <1>2 DEF NumBlocks, UsesV2
  <2>3. Len(tokens[s]) \in Nat /\ Len(tokens[s]) <= NumBlocks(s) * BlockSize /\ NumBlocks(s) \in Nat
    BY <1>1, CeilIs DEF TypeInv, NumBlocks
  <2>4. \A q \in Seqs : Placed(q)' /\ q # s =>
            IF UsesV2'
            THEN /\ seen'[q] <= Len(tokens'[q]) /\ seen'[q] <= Len(table'[q]) * BlockSize
                 /\ HasItsSlots(q)' => seen'[q] = Len(tokens'[q])
            ELSE /\ seen'[q] = 0 /\ table'[q] # << >>
                 /\ Len(table'[q]) \in {NumBlocks(q)' - 1, NumBlocks(q)'}
                 /\ HasItsSlots(q)' => Len(table'[q]) = NumBlocks(q)'
    BY <1>1, <1>2, <1>4, <2>1, FitStays
  <2>5. QED
    BY <1>2, <1>5, <2>2, <2>3, <2>4 DEF FitInv
<1>11. PromiseInv' /\ ProposalInv'
  BY <1>1, <1>2 DEF PromiseInv, ProposalInv, Decoding
<1>12. QED
  BY <1>4, <1>6, <1>7, <1>8, <1>9, <1>10, <1>11 DEF BlocksInv, BlockInv
-----------------------------------------------------------------------------
(***************************************************************************)
(* Slots for a group                                                       *)
(***************************************************************************)
\* The blocks that are counted for one sequence.
NeedsOf(s) == IF UsesV2 THEN SlotsFor(s) ELSE 1

LEMMA RunningFits ==
    ASSUME BlocksInv, NEW s \in Running
    PROVE  /\ s \in Seqs /\ status[s] = "RUNNING" /\ Placed(s) /\ tokens[s] # << >>
           /\ NeedsOf(s) \in Nat
           /\ UsesV2 => NumTaken(s) \in Nat /\ NumTaken(s) <= SlotsFor(s)
<1>1. TypeInv /\ StatusInv /\ FitInv
  BY DEF BlocksInv
<1>2. s \in Seqs /\ status[s] = "RUNNING" /\ Placed(s) /\ tokens[s] # << >>
  BY <1>1 DEF Running, Placed, StatusInv
<1>3. CASE UsesV2
  <2>1. seen[s] <= Len(tokens[s]) /\ seen[s] <= Len(table[s]) * BlockSize
    BY <1>1, <1>2, <1>3 DEF FitInv
  <2>2. QED
    BY <1>1, <1>2, <1>3, <2>1, SlotsFit DEF NeedsOf
<1>4. CASE ~UsesV2
  BY <1>2, <1>4 DEF NeedsOf
<1>5. QED
  BY <1>2, <1>3, <1>4

\* What a set of running sequences needs: one of them less needs its part less,
\* and fewer need no more.
LEMMA SlotsNeededIs ==
    ASSUME BlocksInv, NEW S \in SUBSET Running
    PROVE  /\ SlotsNeeded(S) \in Nat
           /\ \A T \in SUBSET S : SlotsNeeded(T) \in Nat /\ SlotsNeeded(T) <= SlotsNeeded(S)
           /\ \A s \in S : SlotsNeeded(S) = NeedsOf(s) + SlotsNeeded(S \ {s})
<1>1. S \in SUBSET Seqs /\ IsFiniteSet(S) /\ \A s \in S : NeedsOf(s) \in Nat
  BY RunningFits, SeqSets DEF Running
<1>2. CASE UsesV2
  <2> DEFINE F(T) == [s \in T |-> NumTouched(s, NumUnseen(s) + NumLookaheadSlots)]
  <2>1. \A s \in S : F(S)[s] = NeedsOf(s) /\ F(S)[s] \in Nat
    BY <1>1, <1>2 DEF NeedsOf, SlotsFor
  <2>2. \A T \in SUBSET S : SlotsNeeded(T) = SumOver(F(T), T)
    BY <1>2 DEF SlotsNeeded
  <2>3. \A T \in SUBSET S : \A s \in T : F(S)[s] = F(T)[s]
    OBVIOUS
  <2>4. ASSUME NEW T \in SUBSET S
        PROVE  SlotsNeeded(T) = SumOver(F(S), T)
    <3>1. IsFiniteSet(T) /\ \A s \in T : F(T)[s] = F(S)[s]
      BY <1>1, <2>3, FS_Subset
    <3>2. SlotsNeeded(T) = SumOver(F(T), T)
      BY <2>2
    <3> HIDE DEF F
    <3>3. QED
      BY <3>1, <3>2, SumSame
  <2> HIDE DEF F
  <2>5. \A T \in SUBSET S : SumOver(F(S), T) \in Nat /\ SumOver(F(S), T) <= SumOver(F(S), S)
    BY <1>1, <2>1, SumMonotone
  <2>6. \A s \in S : SumOver(F(S), S) = F(S)[s] + SumOver(F(S), S \ {s})
    <3>1. \A s \in S : F(S)[s] \in Int
      BY <2>1
    <3>2. QED
      BY <1>1, <3>1, SumRemoves
  <2>7. S \in SUBSET S /\ \A s \in S : S \ {s} \in SUBSET S
    OBVIOUS
  <2>8. QED
    BY <2>1, <2>4, <2>5, <2>6, <2>7
<1>3. CASE ~UsesV2
  <2>1. \A T \in SUBSET S : SlotsNeeded(T) = Cardinality(T)
    BY <1>3 DEF SlotsNeeded
  <2>2. \A T \in SUBSET S : Cardinality(T) \in Nat /\ Cardinality(T) <= Cardinality(S)
    BY <1>1, FS_Subset, FS_CardinalityType
  <2>3. \A s \in S : Cardinality(S) = 1 + Cardinality(S \ {s})
    <3>1. Cardinality(S) \in Nat
      BY <2>2
    <3>2. ASSUME NEW s \in S
          PROVE  Cardinality(S) = 1 + Cardinality(S \ {s})
      <4>1. IsFiniteSet(S) /\ S # {}
        BY <1>1
      <4>2. Cardinality(S \ {s}) = Cardinality(S) - 1
        BY <4>1, ChosenElement
      <4>3. QED
        BY <3>1, <4>2
    <3>3. QED
      BY <3>2
  <2>4. QED
    BY <1>3, <2>1, <2>2, <2>3 DEF NeedsOf
<1>4. QED
  BY <1>2, <1>3

LEMMA SlotsNeededStays ==
    ASSUME NEW T \in SUBSET Seqs, UNCHANGED setup,
           \A q \in T : seen'[q] = seen[q] /\ tokens'[q] = tokens[q]
    PROVE  SlotsNeeded(T)' = SlotsNeeded(T)
<1> DEFINE f == [s \in T |-> NumTouched(s, NumUnseen(s) + NumLookaheadSlots)]
           g == [s \in T |-> (NumTouched(s, NumUnseen(s) + NumLookaheadSlots))']
<1>1. \A s \in T : f[s] = g[s]
  BY DEF NumTouched, NumUnseen, NumLookaheadSlots
<1>2. f = g
  BY <1>1
<1>3. UsesV2' <=> UsesV2
  BY DEF UsesV2
<1>4. SlotsNeeded(T) = IF UsesV2 THEN SumOver(f, T) ELSE Cardinality(T)
  BY DEF SlotsNeeded
<1>5. SlotsNeeded(T)' = IF UsesV2' THEN SumOver(g, T) ELSE Cardinality(T)
  BY DEF SlotsNeeded
<1>6. QED
  BY <1>2, <1>3, <1>4, <1>5

\* What append_slots() of either manager does for a sequence.
LEMMA SlotsTaken ==
    ASSUME BlocksInv, NEW s \in Running, UNCHANGED <<setup, status, tokens>>,
           IF UsesV2 THEN AppendTokenIds(s) ELSE AppendSlot(s)
    PROVE  /\ BlockInv' /\ pending'.moves = pending.moves
           /\ \A q \in Seqs : q # s => table'[q] = table[q] /\ seen'[q] = seen[q]
           /\ IF UsesV2 THEN seen'[s] = Len(tokens[s]) /\ Len(tokens[s]) <= Len(table'[s]) * BlockSize
              ELSE seen'[s] = seen[s] /\ Len(table'[s]) = NumBlocks(s) /\ table'[s] # << >>
           /\ Cardinality(FreeIn(GpuBlocks)) - NeedsOf(s) <= Cardinality(FreeIn(GpuBlocks)')
<1>1. TypeInv /\ s \in Seqs /\ status[s] = "RUNNING"
  BY RunningFits DEF BlocksInv
<1>2. Cardinality(FreeIn(GpuBlocks)) \in Nat /\ Cardinality(FreeIn(GpuBlocks)') \in Nat
  BY BlockSets DEF FreeIn, Blocks
<1>3. CASE UsesV2
  <2>1. PICK N \in SUBSET Blocks : TokensAppended(s, N)
    BY <1>1, <1>3, AppendTokenIdsIs
  <2>2. /\ BlockInv' /\ pending'.moves = pending.moves
        /\ \A q \in Seqs : q # s => table'[q] = table[q] /\ seen'[q] = seen[q]
        /\ seen'[s] = Len(tokens[s])
        /\ Len(tokens[s]) + NumLookaheadSlots <= Len(table'[s]) * BlockSize
        /\ Cardinality(FreeIn(GpuBlocks)) - NumTaken(s) <= Cardinality(FreeIn(GpuBlocks)')
    BY <1>1, <1>3, <2>1, AppendTokenIdsKeeps
  <2>3. NumTaken(s) \in Nat /\ NumTaken(s) <= SlotsFor(s) /\ NeedsOf(s) \in Nat /\ NeedsOf(s) = SlotsFor(s)
    BY <1>3, RunningFits DEF NeedsOf
  <2>4. Len(tokens[s]) \in Nat /\ Len(table'[s]) \in Nat
    BY <1>1, <2>2 DEF TypeInv, BlockInv, BlockTypes
  <2>5. Len(table'[s]) * BlockSize \in Nat /\ NumLookaheadSlots \in Nat
    BY <2>4, LookaheadIs, Products
  <2>6. Len(tokens[s]) <= Len(table'[s]) * BlockSize
    BY <2>2, <2>4, <2>5
  <2>7. Cardinality(FreeIn(GpuBlocks)) - NeedsOf(s) <= Cardinality(FreeIn(GpuBlocks)')
    BY <1>2, <2>2, <2>3
  <2>8. QED
    BY <1>3, <2>2, <2>6, <2>7
<1>4. CASE ~UsesV2
  <2>1. /\ SlotGiven(s) /\ pending'.moves = pending.moves
        /\ pending' \in [copies : SUBSET (Blocks \X Blocks),
                         moves : SUBSET (Blocks \X Blocks), fresh : SUBSET Blocks]
    BY <1>1, <1>4, AppendSlotKeeps
  <2>2. BlockInv'
    BY <1>1, <2>1 DEF BlockInv, BlockTypes, SlotGiven, TypeInv
  <2>3. QED
    BY <1>1, <1>4, <2>1, <2>2 DEF SlotGiven, NeedsOf
<1>5. QED
  BY <1>3, <1>4

\* A group that has slots: they are still there for each of its sequences.
LEMMA HasSlotsMeans ==
    ASSUME BlocksInv, Decoding, NEW s \in todo, HasSlots(s), ~SwappedIn
    PROVE  /\ Group(s) \cap todo \in SUBSET Running
           /\ SlotsNeeded(Group(s) \cap todo) <= Cardinality(FreeIn(GpuBlocks))
<1>1. Group(s) \in SUBSET Running /\ Group(s) \cap todo \in SUBSET Group(s)
  BY DEF Group, SeqsWith, Running
<1>2. CASE Group(s) \cap batch # {}
  BY <1>1, <1>2 DEF BlocksInv, PromiseInv
<1>3. CASE Group(s) \cap batch = {}
  <2>1. SlotsNeeded(Group(s)) <= Cardinality(FreeIn(GpuBlocks))
    BY <1>3 DEF HasSlots, CanAppendSlots, CanAppendSlotsV2, SlotsNeeded
  <2>2. /\ SlotsNeeded(Group(s)) \in Nat /\ SlotsNeeded(Group(s) \cap todo) \in Nat
        /\ SlotsNeeded(Group(s) \cap todo) <= SlotsNeeded(Group(s))
    BY <1>1, SlotsNeededIs
  <2>3. Cardinality(FreeIn(GpuBlocks)) \in Nat
    BY BlockSets DEF FreeIn, Blocks
  <2>4. QED
    BY <1>1, <2>1, <2>2, <2>3
<1>4. QED
  BY <1>2, <1>3

LEMMA AppendSlotsKeeps ==
    ASSUME BlocksInv, NEW s \in Seqs, AppendSlots(s)
    PROVE  BlocksInv'
<1>1. /\ TypeInv /\ StatusInv /\ ArrivalInv /\ RoundInv
      /\ TableInv /\ FitInv /\ HashInv /\ PromiseInv /\ ProposalInv
  BY DEF BlocksInv
<1>2. /\ Decoding /\ s \in Earliest(todo) /\ HasSlots(s)
      /\ IF UsesV2 THEN AppendTokenIds(s) ELSE AppendSlot(s)
      /\ todo' = todo \ {s} /\ batch' = batch \cup {s}
      /\ UNCHANGED <<phase, setup, status, tokens, arrival, proposal>>
  BY DEF AppendSlots, seqVars, cacheVars
<1>3. s \in todo /\ todo \subseteq Running /\ batch \subseteq Running /\ s \in Running
  BY <1>1, <1>2 DEF Earliest, RoundInv
<1>4. /\ BlockInv' /\ pending'.moves = pending.moves
      /\ \A q \in Seqs : q # s => table'[q] = table[q] /\ seen'[q] = seen[q]
      /\ IF UsesV2 THEN seen'[s] = Len(tokens[s]) /\ Len(tokens[s]) <= Len(table'[s]) * BlockSize
         ELSE seen'[s] = seen[s] /\ Len(table'[s]) = NumBlocks(s) /\ table'[s] # << >>
      /\ Cardinality(FreeIn(GpuBlocks)) - NeedsOf(s) <= Cardinality(FreeIn(GpuBlocks)')
  BY <1>2, <1>3, SlotsTaken
<1>5. Decoding' /\ (UsesV2' <=> UsesV2) /\ (SwappedIn' <=> SwappedIn)
      /\ Running' = Running /\ \A q \in Seqs : Group(q)' = Group(q)
  BY <1>2, <1>4 DEF Decoding, UsesV2, SwappedIn, Running, Group, SeqsWith
<1>6. TypeInv'
  <2>1. todo' \in SUBSET Seqs /\ batch' \in SUBSET Seqs
    BY <1>1, <1>2 DEF TypeInv
  <2>2. QED
    BY <1>1, <1>2, <1>4, <2>1 DEF TypeInv, BlockInv, BlockTypes
<1>7. StatusInv'
  <2>1. Placed(s)
    BY <1>3, RunningFits
  <2>2. \A q \in Seqs : Placed(q)' <=> Placed(q)
    BY <1>2 DEF Placed
  <2>3. \A q \in Seqs : /\ tokens'[q] = << >> <=> status'[q] = "UNUSED"
                        /\ ~Placed(q)' => table'[q] = << >> /\ seen'[q] = 0
    BY <1>1, <1>2, <1>4, <2>1, <2>2 DEF StatusInv
  <2>4. QED
    BY <1>1, <1>2, <1>5, <2>3 DEF StatusInv, Placed, Swapped
<1>8. ArrivalInv'
  BY <1>1, <1>2, LiveStays
<1>9. ASSUME NEW x \in todo', NEW q \in batch', Owner[x] = Owner[q]
      PROVE  x \in Earliest(todo)
  <2>1. CASE q = s
    BY <1>2, <1>9, <2>1 DEF Earliest
  <2>2. CASE q # s
    BY <1>1, <1>2, <1>9, <2>2 DEF RoundInv
  <2>3. QED
    BY <2>1, <2>2
<1>10. RoundInv'
  <2>1. \A x \in todo' : x \in Earliest(todo) => x \in Earliest(todo)'
    BY <1>2 DEF Earliest
  <2>2. todo' \cup batch' \subseteq Running' /\ todo' \cap batch' = {}
    BY <1>1, <1>2, <1>3, <1>5 DEF RoundInv
  <2>3. phase \notin {"idle", "prefill", "outputs"}
    BY <1>2 DEF Decoding
  <2>4. QED
    BY <1>1, <1>2, <1>4, <1>5, <1>9, <2>1, <2>2, <2>3 DEF RoundInv
<1>11. FitInv'
  <2>2. ASSUME NEW q \in Seqs, Placed(q)', q # s
        PROVE  Placed(q) /\ (HasItsSlots(q)' => HasItsSlots(q))
    BY <1>2, <2>2 DEF Placed, HasItsSlots
  <2>3. \A q \in Seqs : Placed(q)' /\ q # s =>
            IF UsesV2'
            THEN /\ seen'[q] <= Len(tokens'[q]) /\ seen'[q] <= Len(table'[q]) * BlockSize
                 /\ HasItsSlots(q)' => seen'[q] = Len(tokens'[q])
            ELSE /\ seen'[q] = 0 /\ table'[q] # << >>
                 /\ Len(table'[q]) \in {NumBlocks(q)' - 1, NumBlocks(q)'}
                 /\ HasItsSlots(q)' => Len(table'[q]) = NumBlocks(q)'
    BY <1>1, <1>2, <1>4, <2>2, FitStays
  <2>4. ~UsesV2 => seen[s] = 0
    BY <1>1, <1>3, RunningFits DEF FitInv
  <2>5. Len(tokens[s]) \in Nat /\ tokens'[s] = tokens[s] /\ NumBlocks(s)' = NumBlocks(s)
    BY <1>1, <1>2 DEF TypeInv, NumBlocks
  <2>6. QED
    BY <1>4, <1>5, <2>3, <2>4, <2>5 DEF FitInv
<1>12. PromiseInv'
  <2>1. ASSUME NEW x \in todo', SwappedIn
        PROVE  FALSE
    <3>1. todo = {s} /\ x \in todo /\ x # s
      BY <1>1, <1>2, <1>3, <2>1 DEF PromiseInv
    <3>2. QED
      BY <3>1
  <2>2. ASSUME NEW x \in todo', (Group(x) \cap batch)' # {}, ~SwappedIn
        PROVE  SlotsNeeded(Group(x) \cap todo)' <= Cardinality(FreeIn(GpuBlocks)')
    <3>1. x \in todo /\ x \in Seqs /\ status[x] = "RUNNING"
      BY <1>2, <1>3 DEF Running
    <3>2. PICK q \in batch' : q \in Group(x)
      BY <1>5, <2>2, <3>1
    <3>3. Owner[x] = Owner[q]
      BY <3>2 DEF Group, SeqsWith
    <3>4. Group(x) = Group(s) /\ s \in Group(s)
      BY <1>1, <1>2, <1>3, <1>9, <3>2, <3>3, EarliestAreOne, OwnerIs, RunningFits
    <3>5. /\ Group(s) \cap todo \in SUBSET Running /\ s \in Group(s) \cap todo
          /\ SlotsNeeded(Group(s) \cap todo) <= Cardinality(FreeIn(GpuBlocks))
      BY <1>2, <1>3, <2>2, <3>4, HasSlotsMeans
    <3>6. PICK S \in SUBSET Running : S = Group(s) \cap todo
      BY <3>5
    <3>7. /\ SlotsNeeded(S) = NeedsOf(s) + SlotsNeeded(S \ {s})
          /\ SlotsNeeded(S) \in Nat /\ SlotsNeeded(S \ {s}) \in Nat
      BY <3>5, <3>6, SlotsNeededIs
    <3>8. PICK T \in SUBSET Seqs : T = S \ {s}
      BY DEF Running
    <3>9. SlotsNeeded(T)' = SlotsNeeded(T)
      BY <1>2, <1>4, <3>8, SlotsNeededStays
    <3>10. Group(x)' \cap todo' = T
      BY <1>2, <1>5, <3>1, <3>4, <3>6, <3>8
    <3>11. SlotsNeeded(Group(x) \cap todo)' = SlotsNeeded(T)'
      BY <3>10 DEF SlotsNeeded
    <3>12. Cardinality(FreeIn(GpuBlocks)) \in Nat /\ Cardinality(FreeIn(GpuBlocks)') \in Nat
      BY BlockSets DEF FreeIn, Blocks
    <3>13. NeedsOf(s) \in Nat
      BY <1>3, RunningFits
    <3>14. QED
      BY <1>4, <3>5, <3>6, <3>7, <3>8, <3>9, <3>11, <3>12, <3>13
  <2>3. QED
    BY <1>5, <2>1, <2>2 DEF PromiseInv
<1>13. ProposalInv'
  BY <1>1, <1>2 DEF ProposalInv
<1>14. QED
  BY <1>4, <1>6, <1>7, <1>8, <1>10, <1>11, <1>12, <1>13 DEF BlocksInv, BlockInv

\* A running sequence that is not swapped out for want of a second one is alone.
LEMMA RunningAlone ==
    ASSUME BlocksInv, NEW s \in Running, ~SwapsOut(Owner[s])
    PROVE  \A q \in Seqs : Owner[q] = Owner[s] /\ status[q] # "UNUSED" => q = s
<1>1. ASSUME NEW q \in Seqs, Owner[q] = Owner[s], status[q] # "UNUSED", q # s
      PROVE  FALSE
  <2> DEFINE G == SeqsWith(Owner[s], "RUNNING")
  <2>1. s \in G /\ q \in G
    BY <1>1, RunningFits DEF SeqsWith, BlocksInv, StatusInv
  <2>2. IsFiniteSet(G) /\ Cardinality(G) \in Nat /\ ~(Cardinality(G) > 1)
    BY SeqSets DEF SwapsOut, SeqsWith
  <2> HIDE DEF G
  <2>3. /\ IsFiniteSet(G \ {s}) /\ Cardinality(G \ {s}) = Cardinality(G) - 1
        /\ q \in G \ {s} /\ Cardinality(G \ {s}) \in Nat
    <3>1. IsFiniteSet(G \ {s}) /\ Cardinality(G \ {s}) = Cardinality(G) - 1
      BY <2>1, <2>2, FS_RemoveElement
    <3>2. QED
      BY <1>1, <2>1, <3>1, FS_CardinalityType
  <2>4. Cardinality(G \ {s}) # 0
    BY <2>3, FS_EmptySet
  <2>5. QED
    BY <2>2, <2>3, <2>4
<1>2. QED
  BY <1>1

LEMMA PreemptByRecomputeKeeps ==
    ASSUME BlocksInv, NEW s \in Seqs, PreemptByRecompute(s)
    PROVE  BlocksInv'
<1>1. /\ TypeInv /\ StatusInv /\ ArrivalInv /\ RoundInv
      /\ TableInv /\ FitInv /\ HashInv /\ PromiseInv /\ ProposalInv
  BY DEF BlocksInv
<1>2. /\ Decoding /\ Victim(s) /\ ~SwapsOut(Owner[s])
      /\ FreeTables({s}) /\ SetStatus({s}, "WAITING")
      /\ phase' = "preempted" /\ todo' = todo \ {s}
      /\ UNCHANGED <<setup, tokens, arrival, batch, pending, proposal>>
  BY DEF PreemptByRecompute, cacheVars
<1>3. s \in todo /\ todo \subseteq Running /\ batch \subseteq Running /\ s \in Running
      /\ s \notin batch
  BY <1>1, <1>2 DEF Victim, Latest, RoundInv
<1>4. status[s] = "RUNNING" /\ \A q \in Seqs : Owner[q] = Owner[s] /\ status[q] # "UNUSED" => q = s
  BY <1>2, <1>3, RunningAlone, RunningFits
<1>5. \A q \in Seqs : status'[q] = IF q = s THEN "WAITING" ELSE status[q]
  BY <1>2 DEF SetStatus
<1>6. /\ BlockInv' /\ FreeIn(GpuBlocks) \subseteq FreeIn(GpuBlocks)'
      /\ \A q \in Seqs : /\ table'[q] = IF q = s THEN << >> ELSE table[q]
                         /\ seen'[q] = IF q = s THEN 0 ELSE seen[q]
  <2> DEFINE S == {s}
  <2>1. FreeTables(S) /\ S \in SUBSET Seqs /\ \A q \in Seqs : q \notin S => status'[q] = status[q]
    BY <1>2, <1>5
  <2> HIDE DEF S
  <2>2. /\ BlockInv' /\ FreeIn(GpuBlocks) \subseteq FreeIn(GpuBlocks)'
        /\ \A q \in Seqs : /\ table'[q] = IF q \in S THEN << >> ELSE table[q]
                           /\ seen'[q] = IF q \in S THEN 0 ELSE seen[q]
    BY <1>2, <2>1, FreeTablesKeep
  <2>3. QED
    BY <2>2 DEF S
<1>7. TypeInv'
  <2>1. status' \in [Seqs -> Statuses]
    BY <1>1, <1>2 DEF TypeInv, Statuses, SetStatus
  <2>2. todo' \in SUBSET Seqs /\ phase' \in Phases
    BY <1>1, <1>2 DEF TypeInv, Phases
  <2>3. QED
    BY <1>1, <1>2, <1>6, <2>1, <2>2 DEF TypeInv, BlockInv, BlockTypes
<1>8. StatusInv'
  <2>1. ~Placed(s)' /\ \A q \in Seqs : q # s => (Placed(q)' <=> Placed(q))
    BY <1>5 DEF Placed
  <2>2. \A q \in Seqs : /\ tokens'[q] = << >> <=> status'[q] = "UNUSED"
                        /\ ~Placed(q)' => table'[q] = << >> /\ seen'[q] = 0
    BY <1>1, <1>2, <1>4, <1>5, <1>6, <2>1 DEF StatusInv
  <2>3. ASSUME NEW x \in Seqs, NEW q \in Seqs, Owner[x] = Owner[q],
               status'[x] # "UNUSED", status'[q] # "UNUSED"
        PROVE  status'[x] = status'[q] /\ (status'[x] = "WAITING" => x = q)
    BY <1>1, <1>4, <1>5, <2>3 DEF StatusInv
  <2>4. UsesV2' => Swapped' = {}
    <3>1. UsesV2 => \A q \in Seqs : status[q] # "SWAPPED"
      BY <1>1 DEF StatusInv, Swapped
    <3>2. \A q \in Seqs : status'[q] = "SWAPPED" => status[q] = "SWAPPED"
      BY <1>5
    <3>3. UsesV2' => UsesV2
      BY <1>2 DEF UsesV2
    <3>4. QED
      BY <3>1, <3>2, <3>3 DEF Swapped
  <2>5. QED
    BY <2>2, <2>3, <2>4 DEF StatusInv, Placed
<1>9. ArrivalInv'
  BY <1>1, <1>2, <1>4, <1>5, LiveStays
<1>10. RoundInv'
  <2>1. \A x \in todo' : x \in Earliest(todo) => x \in Earliest(todo)'
    BY <1>2 DEF Earliest
  <2>2. todo' \cup batch' \subseteq Running' /\ todo' \cap batch' = {}
    BY <1>1, <1>2, <1>3, <1>5 DEF RoundInv, Running
  <2>3. QED
    BY <1>1, <1>2, <2>1, <2>2 DEF RoundInv, UsesV2, Decoding
<1>11. FitInv'
  <2>1. ASSUME NEW q \in Seqs, Placed(q)'
        PROVE  q # s /\ Placed(q) /\ (HasItsSlots(q)' => HasItsSlots(q))
    BY <1>2, <1>5, <2>1 DEF Placed, HasItsSlots
  <2>2. \A q \in Seqs : Placed(q)' =>
            IF UsesV2'
            THEN /\ seen'[q] <= Len(tokens'[q]) /\ seen'[q] <= Len(table'[q]) * BlockSize
                 /\ HasItsSlots(q)' => seen'[q] = Len(tokens'[q])
            ELSE /\ seen'[q] = 0 /\ table'[q] # << >>
                 /\ Len(table'[q]) \in {NumBlocks(q)' - 1, NumBlocks(q)'}
                 /\ HasItsSlots(q)' => Len(table'[q]) = NumBlocks(q)'
    BY <1>1, <1>2, <1>6, <2>1, FitStays
  <2>3. QED
    BY <2>2 DEF FitInv
<1>12. PromiseInv'
  <2>1. ~SwappedIn'
    BY <1>2 DEF SwappedIn
  <2>2. ASSUME NEW x \in todo', (Group(x) \cap batch)' # {}
        PROVE  SlotsNeeded(Group(x) \cap todo)' <= Cardinality(FreeIn(GpuBlocks)')
    <3>1. x \in todo /\ x \in Seqs /\ status[x] = "RUNNING" /\ x # s /\ Owner[x] # Owner[s]
      BY <1>2, <1>3, <1>4 DEF Running
    <3>2. Group(x)' = Group(x) /\ s \notin Group(x)
      BY <1>5, <3>1 DEF Group, SeqsWith
    <3>3. SlotsNeeded(Group(x) \cap todo) <= Cardinality(FreeIn(GpuBlocks))
      BY <1>1, <1>2, <2>2, <3>1, <3>2 DEF PromiseInv
    <3>4. PICK T \in SUBSET Running : T = Group(x) \cap todo
      BY <1>3
    <3>5. T \in SUBSET Seqs /\ Group(x)' \cap todo' = T /\ s \notin T
      BY <1>2, <3>2, <3>4 DEF Running
    <3>6. SlotsNeeded(T)' = SlotsNeeded(T) /\ SlotsNeeded(T) \in Nat
      BY <1>2, <1>6, <3>5, SlotsNeededStays, SlotsNeededIs
    <3>7. SlotsNeeded(Group(x) \cap todo)' = SlotsNeeded(T)'
      BY <3>5 DEF SlotsNeeded
    <3>8. /\ Cardinality(FreeIn(GpuBlocks)) \in Nat /\ Cardinality(FreeIn(GpuBlocks)') \in Nat
          /\ Cardinality(FreeIn(GpuBlocks)) <= Cardinality(FreeIn(GpuBlocks)')
      <4>1. FreeIn(GpuBlocks) \in SUBSET Blocks /\ FreeIn(GpuBlocks)' \in SUBSET Blocks
        BY DEF FreeIn, Blocks
      <4>2. QED
        BY <1>6, <4>1, BlockSets, FS_Subset
    <3>9. QED
      BY <3>3, <3>4, <3>6, <3>7, <3>8
  <2>3. QED
    BY <2>1, <2>2 DEF PromiseInv
<1>13. ProposalInv'
  BY <1>1, <1>2 DEF ProposalInv
<1>14. QED
  BY <1>6, <1>7, <1>8, <1>9, <1>10, <1>11, <1>12, <1>13 DEF BlocksInv, BlockInv

\* A group that has been given slots is not preempted.
LEMMA VictimHasNone ==
    ASSUME BlocksInv, Decoding, NEW s \in Seqs, Victim(s)
    PROVE  Group(s) \cap batch = {}
<1>1. s \in Latest(todo) /\ s \in todo /\ ArrivalInv /\ RoundInv /\ s \in Running
  BY DEF Victim, Latest, BlocksInv, RoundInv
<1>2. PICK q \in Earliest(todo) : ~HasSlots(q)
  BY DEF Victim
<1>3. SUFFICES ASSUME NEW y \in Group(s) \cap batch PROVE FALSE
  OBVIOUS
<1>4. Owner[s] = Owner[y]
  BY <1>3 DEF Group, SeqsWith
<1>5. s \in Earliest(todo)
  BY <1>1, <1>3, <1>4 DEF RoundInv
<1>6. Group(q) = Group(s)
  BY <1>1, <1>2, <1>5, EarliestAreOne
<1>7. QED
  BY <1>2, <1>3, <1>6 DEF HasSlots

LEMMA PreemptBySwapKeeps ==
    ASSUME BlocksInv, NEW r \in Requests, PreemptBySwap(r)
    PROVE  BlocksInv'
<1>1. /\ TypeInv /\ StatusInv /\ ArrivalInv /\ RoundInv
      /\ TableInv /\ FitInv /\ HashInv /\ PromiseInv /\ ProposalInv
  BY DEF BlocksInv
<1>2. PICK S \in SUBSET Seqs : S = SeqsWith(r, "RUNNING")
  BY DEF SeqsWith
<1>3. /\ Decoding /\ ~UsesV2 /\ (\E s \in S : Victim(s))
      /\ MoveTables(S, CpuBlocks) /\ SetStatus(S, "SWAPPED")
      /\ phase' = "preempted" /\ todo' = todo \ S
      /\ UNCHANGED <<setup, tokens, arrival, batch, proposal>>
  BY <1>2 DEF PreemptBySwap, cacheVars
<1>4. \A q \in Seqs : q \in S <=> Owner[q] = r /\ status[q] = "RUNNING"
  BY <1>2 DEF SeqsWith
<1>5. \A q \in Seqs : status'[q] = IF q \in S THEN "SWAPPED" ELSE status[q]
  BY <1>3 DEF SetStatus
<1>6. S \cap batch = {}
  <2>1. PICK s \in S : Victim(s)
    BY <1>3
  <2>2. Group(s) = S
    BY <1>2, <1>4, <2>1 DEF Group
  <2>3. QED
    BY <1>3, <2>1, <2>2, VictimHasNone
<1>7. /\ BlockInv' /\ seen' = seen
      /\ \A q \in Seqs : Len(table'[q]) = Len(table[q]) /\ (table'[q] = << >> <=> table[q] = << >>)
      /\ FreeIn(GpuBlocks) \subseteq FreeIn(GpuBlocks)'
  <2>1. \A s \in S : Range(table[s]) \subseteq GpuBlocks
    BY <1>1, <1>4 DEF TableInv
  <2>2. GpuBlocks \cap CpuBlocks = {}
    BY KVCacheAssumption
  <2>3. QED
    BY <1>3, <2>1, <2>2, MoveTablesKeeps
<1>8. TypeInv'
  <2>1. status' \in [Seqs -> Statuses]
    BY <1>1, <1>3 DEF TypeInv, Statuses, SetStatus
  <2>2. todo' \in SUBSET Seqs /\ phase' \in Phases
    BY <1>1, <1>3 DEF TypeInv, Phases
  <2>3. QED
    BY <1>1, <1>3, <1>7, <2>1, <2>2 DEF TypeInv, BlockInv, BlockTypes
<1>9. StatusInv'
  <2>1. \A q \in Seqs : Placed(q)' <=> Placed(q)
    BY <1>4, <1>5 DEF Placed
  <2>2. \A q \in Seqs : /\ tokens'[q] = << >> <=> status'[q] = "UNUSED"
                        /\ ~Placed(q)' => table'[q] = << >> /\ seen'[q] = 0
    BY <1>1, <1>3, <1>4, <1>5, <1>7, <2>1 DEF StatusInv
  <2>3. ASSUME NEW x \in Seqs, NEW q \in Seqs, Owner[x] = Owner[q],
               status'[x] # "UNUSED", status'[q] # "UNUSED"
        PROVE  status'[x] = status'[q] /\ (status'[x] = "WAITING" => x = q)
    BY <1>1, <1>4, <1>5, <2>3 DEF StatusInv
  <2>4. ~UsesV2'
    BY <1>3 DEF UsesV2
  <2>5. QED
    BY <2>2, <2>3, <2>4 DEF StatusInv, Placed
<1>10. ArrivalInv'
  BY <1>1, <1>3, <1>4, <1>5, LiveStays
<1>11. RoundInv'
  <2>1. \A x \in todo' : x \in Earliest(todo) => x \in Earliest(todo)'
    BY <1>3 DEF Earliest
  <2>2. todo' \cup batch' \subseteq Running' /\ todo' \cap batch' = {}
    BY <1>1, <1>3, <1>5, <1>6 DEF RoundInv, Running
  <2>3. QED
    BY <1>1, <1>3, <2>1, <2>2 DEF RoundInv, UsesV2, Decoding
<1>12. FitInv'
  <2>1. ASSUME NEW q \in Seqs, Placed(q)'
        PROVE  Placed(q) /\ (HasItsSlots(q)' => HasItsSlots(q))
    BY <1>3, <1>4, <1>5, <2>1 DEF Placed, HasItsSlots
  <2>2. \A q \in Seqs : Placed(q)' =>
            IF UsesV2'
            THEN /\ seen'[q] <= Len(tokens'[q]) /\ seen'[q] <= Len(table'[q]) * BlockSize
                 /\ HasItsSlots(q)' => seen'[q] = Len(tokens'[q])
            ELSE /\ seen'[q] = 0 /\ table'[q] # << >>
                 /\ Len(table'[q]) \in {NumBlocks(q)' - 1, NumBlocks(q)'}
                 /\ HasItsSlots(q)' => Len(table'[q]) = NumBlocks(q)'
    BY <1>1, <1>3, <1>7, <2>1, FitStays
  <2>3. QED
    BY <2>2 DEF FitInv
<1>13. PromiseInv'
  <2>1. ~SwappedIn'
    BY <1>3 DEF SwappedIn
  <2>2. ASSUME NEW x \in todo', (Group(x) \cap batch)' # {}
        PROVE  SlotsNeeded(Group(x) \cap todo)' <= Cardinality(FreeIn(GpuBlocks)')
    <3>1. x \in todo /\ x \in Seqs /\ status[x] = "RUNNING" /\ x \notin S /\ Owner[x] # r
      BY <1>1, <1>3, <1>4 DEF RoundInv, Running
    <3>2. Group(x)' = Group(x) /\ Group(x) \cap S = {}
      BY <1>4, <1>5, <3>1 DEF Group, SeqsWith
    <3>3. SlotsNeeded(Group(x) \cap todo) <= Cardinality(FreeIn(GpuBlocks))
      BY <1>1, <1>3, <2>2, <3>1, <3>2 DEF PromiseInv
    <3>4. PICK T \in SUBSET Running : T = Group(x) \cap todo
      BY <1>1 DEF RoundInv
    <3>5. T \in SUBSET Seqs /\ Group(x)' \cap todo' = T
      BY <1>3, <3>2, <3>4 DEF Running
    <3>6. SlotsNeeded(T)' = SlotsNeeded(T) /\ SlotsNeeded(T) \in Nat
      BY <1>3, <1>7, <3>5, SlotsNeededStays, SlotsNeededIs
    <3>7. SlotsNeeded(Group(x) \cap todo)' = SlotsNeeded(T)'
      BY <3>5 DEF SlotsNeeded
    <3>8. /\ Cardinality(FreeIn(GpuBlocks)) \in Nat /\ Cardinality(FreeIn(GpuBlocks)') \in Nat
          /\ Cardinality(FreeIn(GpuBlocks)) <= Cardinality(FreeIn(GpuBlocks)')
      <4>1. FreeIn(GpuBlocks) \in SUBSET Blocks /\ FreeIn(GpuBlocks)' \in SUBSET Blocks
        BY DEF FreeIn, Blocks
      <4>2. QED
        BY <1>7, <4>1, BlockSets, FS_Subset
    <3>9. QED
      BY <3>3, <3>4, <3>6, <3>7, <3>8
  <2>3. QED
    BY <2>1, <2>2 DEF PromiseInv
<1>14. ProposalInv'
  BY <1>1, <1>3 DEF ProposalInv
<1>15. QED
  BY <1>7, <1>8, <1>9, <1>10, <1>11, <1>12, <1>13, <1>14 DEF BlocksInv, BlockInv

LEMMA SwapInKeeps ==
    ASSUME BlocksInv, NEW s \in Seqs, SwapIn(s)
    PROVE  BlocksInv'
<1>1. /\ TypeInv /\ StatusInv /\ ArrivalInv /\ RoundInv
      /\ TableInv /\ FitInv /\ HashInv /\ PromiseInv /\ ProposalInv
  BY DEF BlocksInv
<1>2. /\ phase = "decode" /\ todo = {} /\ s \in Earliest(Swapped)
      /\ SeqsWith(Owner[s], "SWAPPED") = {s} /\ CanSwapIn(Owner[s])
      /\ MoveTables({s}, GpuBlocks) /\ SetStatus({s}, "RUNNING") /\ todo' = {s}
      /\ UNCHANGED <<setup, tokens, arrival, phase, batch, proposal>>
  BY DEF SwapIn, cacheVars
<1>3. status[s] = "SWAPPED" /\ ~UsesV2
  BY <1>1, <1>2 DEF Earliest, Swapped, StatusInv
<1>4. \A q \in Seqs : Owner[q] = Owner[s] /\ status[q] # "UNUSED" => q = s
  <2>1. ASSUME NEW q \in Seqs, Owner[q] = Owner[s], status[q] # "UNUSED"
        PROVE  q = s
    <3>1. status[q] = "SWAPPED"
      BY <1>1, <1>3, <2>1 DEF StatusInv
    <3>2. q \in SeqsWith(Owner[s], "SWAPPED")
      BY <2>1, <3>1 DEF SeqsWith
    <3>3. QED
      BY <1>2, <3>2
  <2>2. QED
    BY <2>1
<1>5. \A q \in Seqs : status'[q] = IF q = s THEN "RUNNING" ELSE status[q]
  BY <1>2 DEF SetStatus
<1>6. /\ BlockInv' /\ seen' = seen
      /\ \A q \in Seqs : Len(table'[q]) = Len(table[q]) /\ (table'[q] = << >> <=> table[q] = << >>)
      /\ Cardinality(FreeIn(GpuBlocks)) - Cardinality(BlocksOf({s})) <= Cardinality(FreeIn(GpuBlocks)')
  <2> DEFINE S == {s}
  <2>1. \A q \in S : Range(table[q]) \subseteq CpuBlocks
    BY <1>1, <1>3 DEF TableInv
  <2>2. GpuBlocks \cap CpuBlocks = {} /\ CpuBlocks \cap GpuBlocks = {}
    BY KVCacheAssumption
  <2>3. S \in SUBSET Seqs /\ MoveTables(S, GpuBlocks) /\ SetStatus(S, "RUNNING")
    BY <1>2
  <2> HIDE DEF S
  <2>4. /\ BlockInv' /\ seen' = seen
        /\ \A q \in Seqs : Len(table'[q]) = Len(table[q]) /\ (table'[q] = << >> <=> table[q] = << >>)
        /\ Cardinality(FreeIn(GpuBlocks)) - Cardinality(BlocksOf(S)) <= Cardinality(FreeIn(GpuBlocks)')
    BY <1>2, <1>3, <2>1, <2>2, <2>3, MoveTablesKeeps
  <2>5. QED
    BY <2>4 DEF S
<1>7. FreeIn(GpuBlocks)' # {}
  <2>1. Live(Owner[s]) = {s}
    BY <1>3, <1>4 DEF Live
  <2>2. Cardinality(FreeIn(GpuBlocks)) - (Cardinality(BlocksOf({s})) + Cardinality({s}))
           >= WatermarkBlocks
    BY <1>2, <2>1 DEF CanSwapIn
  <2>3. Cardinality({s}) = 1 /\ WatermarkBlocks \in Nat
    BY FS_Singleton, KVCacheAssumption
  <2>4. /\ FreeIn(GpuBlocks) \in SUBSET Blocks /\ FreeIn(GpuBlocks)' \in SUBSET Blocks
        /\ BlocksOf({s}) \in SUBSET Blocks
    BY <1>1 DEF FreeIn, Blocks, BlocksOf, Range, TypeInv
  <2>5. /\ Cardinality(FreeIn(GpuBlocks)) \in Nat /\ Cardinality(FreeIn(GpuBlocks)') \in Nat
        /\ Cardinality(BlocksOf({s})) \in Nat
    BY <2>4, BlockSets
  <2>6. Cardinality(FreeIn(GpuBlocks)') # 0
    BY <1>6, <2>2, <2>3, <2>5
  <2>7. QED
    BY <2>6, FS_EmptySet
<1>8. TypeInv'
  <2>1. status' \in [Seqs -> Statuses]
    BY <1>1, <1>2 DEF TypeInv, Statuses, SetStatus
  <2>2. todo' \in SUBSET Seqs
    BY <1>2
  <2>3. QED
    BY <1>1, <1>2, <1>6, <2>1, <2>2 DEF TypeInv, BlockInv, BlockTypes
<1>9. StatusInv'
  <2>1. \A q \in Seqs : Placed(q)' <=> Placed(q)
    BY <1>3, <1>5 DEF Placed
  <2>2. \A q \in Seqs : /\ tokens'[q] = << >> <=> status'[q] = "UNUSED"
                        /\ ~Placed(q)' => table'[q] = << >> /\ seen'[q] = 0
    BY <1>1, <1>2, <1>3, <1>5, <1>6, <2>1 DEF StatusInv
  <2>3. ASSUME NEW x \in Seqs, NEW q \in Seqs, Owner[x] = Owner[q],
               status'[x] # "UNUSED", status'[q] # "UNUSED"
        PROVE  status'[x] = status'[q] /\ (status'[x] = "WAITING" => x = q)
    BY <1>1, <1>3, <1>4, <1>5, <2>3 DEF StatusInv
  <2>4. ~UsesV2'
    BY <1>2, <1>3 DEF UsesV2
  <2>5. QED
    BY <2>2, <2>3, <2>4 DEF StatusInv, Placed
<1>10. ArrivalInv'
  BY <1>1, <1>2, <1>3, <1>5, LiveStays
<1>11. s \notin batch /\ Running' = Running \cup {s} /\ batch \subseteq Running
  BY <1>1, <1>3, <1>5 DEF RoundInv, Running
<1>12. RoundInv'
  <2>1. s \in Earliest(todo)'
    <3>1. <<Owner[s], Owner[s]>> \notin arrival
      BY <1>1, OwnerIs DEF ArrivalInv
    <3>2. QED
      BY <1>2, <3>1 DEF Earliest
  <2>2. todo' \cup batch' \subseteq Running' /\ todo' \cap batch' = {}
    BY <1>2, <1>11
  <2>3. ~UsesV2'
    BY <1>2, <1>3 DEF UsesV2
  <2>4. QED
    BY <1>1, <1>2, <2>1, <2>2, <2>3 DEF RoundInv, Decoding
<1>13. FitInv'
  <2>1. ASSUME NEW q \in Seqs, Placed(q)'
        PROVE  Placed(q) /\ (HasItsSlots(q)' => HasItsSlots(q))
    BY <1>2, <1>3, <1>5, <2>1 DEF Placed, HasItsSlots
  <2>2. \A q \in Seqs : Placed(q)' =>
            IF UsesV2'
            THEN /\ seen'[q] <= Len(tokens'[q]) /\ seen'[q] <= Len(table'[q]) * BlockSize
                 /\ HasItsSlots(q)' => seen'[q] = Len(tokens'[q])
            ELSE /\ seen'[q] = 0 /\ table'[q] # << >>
                 /\ Len(table'[q]) \in {NumBlocks(q)' - 1, NumBlocks(q)'}
                 /\ HasItsSlots(q)' => Len(table'[q]) = NumBlocks(q)'
    BY <1>1, <1>2, <1>6, <2>1, FitStays
  <2>3. QED
    BY <2>2 DEF FitInv
<1>14. PromiseInv'
  <2>1. (Group(s) \cap batch)' = {}
    BY <1>2, <1>4, <1>5, <1>11 DEF Group, SeqsWith
  <2>2. QED
    BY <1>2, <1>7, <2>1 DEF PromiseInv
<1>15. ProposalInv'
  BY <1>1, <1>2 DEF ProposalInv
<1>16. QED
  BY <1>6, <1>8, <1>9, <1>10, <1>12, <1>13, <1>14, <1>15 DEF BlocksInv, BlockInv
-----------------------------------------------------------------------------
(***************************************************************************)
(* The model runs                                                          *)
(***************************************************************************)
\* Proposals are tokens, as many as there are lookahead slots or none.
LEMMA ProposalsAre ==
    ASSUME NEW S \in SUBSET Seqs, NEW p \in Proposals(S)
    PROVE  /\ p \in [Seqs -> Seq(Tokens)]
           /\ \A s \in Seqs : Len(p[s]) = IF s \in S THEN NumLookaheadSlots ELSE 0
           /\ \A s \in Seqs : s \notin S \/ NumLookaheadSlots = 0 => p[s] = << >>
<1> DEFINE N == NumLookaheadSlots
           Drafts == [1..N -> UNION Range(Vocabulary)]
<1>1. N \in Nat
  BY LookaheadIs
<1> HIDE DEF N
<1>2. UNION Range(Vocabulary) \subseteq Tokens
  BY KVCacheAssumption DEF Range, Tokens
<1>3. PICK f \in [S -> Drafts] : p = [s \in Seqs |-> IF s \in S THEN f[s] ELSE << >>]
  BY DEF Proposals, N
<1>4. ASSUME NEW s \in Seqs
      PROVE  /\ p[s] \in Seq(Tokens) /\ Len(p[s]) = IF s \in S THEN N ELSE 0
             /\ s \notin S \/ N = 0 => p[s] = << >>
  <2>1. CASE s \notin S
    BY <1>3, <2>1
  <2>2. CASE s \in S
    <3>1. p[s] = f[s] /\ f[s] \in [1..N -> UNION Range(Vocabulary)]
      BY <1>3, <2>2
    <3>2. p[s] \in [1..N -> Tokens]
      BY <1>2, <3>1
    <3>3. p[s] \in Seq(Tokens) /\ Len(p[s]) = N
      BY <1>1, <3>2
    <3>4. N = 0 => p[s] = << >>
      BY <3>3, EmptySeq
    <3>5. QED
      BY <2>2, <3>3, <3>4
  <2>3. QED
    BY <2>1, <2>2
<1>5. DOMAIN p = Seqs /\ p = [s \in Seqs |-> p[s]]
  BY <1>3
<1>6. QED
  BY <1>4, <1>5 DEF N

\* The blocks that are marked computed are in use.
LEMMA MarkedAreHeld ==
    ASSUME BlocksInv, ~UsesV2, NEW s \in batch, NEW b \in Marked(s)
    PROVE  b \in Blocks /\ refCount[b] > 0
<1> DEFINE n == Len(tokens[s]) \div BlockSize - 1
<1>1. s \in Seqs /\ Placed(s) /\ TypeInv /\ FitInv /\ TableInv /\ HasItsSlots(s)
  BY RunningFits DEF BlocksInv, RoundInv, HasItsSlots
<1>2. Len(table[s]) = NumBlocks(s) /\ Len(tokens[s]) \in Nat /\ DOMAIN table[s] = 1..Len(table[s])
  BY <1>1 DEF FitInv, TypeInv
<1>3. PICK i \in 1..n : b = table[s][i]
  BY DEF Marked
<1> DEFINE d == Len(tokens[s]) \div BlockSize
           c == NumBlocks(s)
<1>4. /\ d \in Nat /\ Len(tokens[s]) % BlockSize \in 0..BlockSize - 1
      /\ Len(tokens[s]) = d * BlockSize + (Len(tokens[s]) % BlockSize)
      /\ c \in Nat /\ Len(tokens[s]) <= c * BlockSize /\ BlockSize \in Nat \ {0}
  BY <1>2, DivMod, CeilIs, KVCacheAssumption DEF NumBlocks
<1> HIDE DEF d, c
<1>5. d <= c
  <2>1. d * BlockSize \in Nat /\ c * BlockSize \in Nat /\ (c + 1) * BlockSize = c * BlockSize + BlockSize
    BY <1>4
  <2>2. d * BlockSize <= Len(tokens[s]) /\ Len(tokens[s]) < (c + 1) * BlockSize
    <3> DEFINE L == Len(tokens[s])
               R == L % BlockSize
               D == d * BlockSize
               C == c * BlockSize
    <3>1. /\ D \in Nat /\ C \in Nat /\ R \in 0..BlockSize - 1
          /\ L = D + R /\ L <= C /\ (c + 1) * BlockSize = C + BlockSize
      BY ONLY <1>4, <2>1, Zenon
    <3> HIDE DEF L, R, D, C
    <3>2. D <= L /\ L < C + BlockSize
      BY <3>1, KVCacheAssumption
    <3>3. QED
      BY <3>1, <3>2 DEF L, D
  <2>3. QED
    BY <1>2, <1>4, <2>2, BlockIndex
<1>6. i \in DOMAIN table[s]
  <2>1. i \in 1..d - 1
    BY <1>3 DEF d
  <2>2. i \in 1..c
    BY <1>4, <1>5, <2>1
  <2>3. QED
    BY <1>2, <2>2 DEF c
<1>7. QED
  BY <1>1, <1>3, <1>6, HeldIsCounted DEF TableInv

LEMMA ExecuteKeeps ==
    ASSUME BlocksInv, Execute
    PROVE  BlocksInv'
<1>1. /\ TypeInv /\ StatusInv /\ ArrivalInv /\ RoundInv
      /\ TableInv /\ FitInv /\ HashInv /\ PromiseInv /\ ProposalInv
  BY DEF BlocksInv
<1>2. /\ phase = "prefill" \/ (Decoding /\ todo = {})
      /\ IF UsesV2 THEN UNCHANGED computed ELSE MarkComputed
      /\ pending' = NothingPending /\ todo' = batch /\ batch' = {}
      /\ phase' = (IF batch = {} THEN "idle" ELSE "outputs")
      /\ hash' = RememberedHash
      /\ UNCHANGED <<table, refCount, seen, setup, status, tokens, arrival>>
  BY DEF Execute, seqVars
<1>3. PICK S \in SUBSET Seqs : proposal' \in Proposals(S)
  <2> DEFINE S == IF phase = "prefill" THEN {} ELSE {s \in batch : Speculates(s)}
  <2>1. S \in SUBSET Seqs /\ proposal' \in Proposals(S)
    BY <1>1 DEF Execute, TypeInv
  <2>2. QED
    BY <2>1
<1>4. hash' \in [Blocks -> Seq(Nat)] /\ computed' \in [Blocks -> BOOLEAN]
  <2>1. Unnamed \in Seq(Nat)
    BY DEF Unnamed
  <2>2. QED
    BY <1>1, <1>2, <2>1 DEF RememberedHash, MarkComputed, TypeInv
<1>5. TypeInv'
  <2>1. /\ todo' \in SUBSET Seqs /\ batch' \in SUBSET Seqs /\ phase' \in Phases
        /\ pending' \in [copies : SUBSET (Blocks \X Blocks), moves : SUBSET (Blocks \X Blocks),
                         fresh : SUBSET Blocks]
    BY <1>1, <1>2 DEF TypeInv, Phases, NothingPending
  <2>2. proposal' \in [Seqs -> Seq(Tokens)]
    BY <1>3, ProposalsAre
  <2>3. QED
    BY <1>1, <1>2, <1>4, <2>1, <2>2 DEF TypeInv
<1>6. StatusInv'
  BY <1>1, <1>2 DEF StatusInv, UsesV2, Swapped, Placed
<1>7. ArrivalInv'
  BY <1>1, <1>2, LiveStays
<1>8. RoundInv'
  <2>1. NothingPending.moves = {}
    BY DEF NothingPending
  <2>2. QED
    BY <1>1, <1>2, <2>1 DEF RoundInv, UsesV2, Running, Decoding
<1>9. TableInv'
  BY <1>1, <1>2 DEF TableInv, CountsMatchTables, NumFrees
<1>10. FitInv'
  BY <1>1, <1>2 DEF FitInv, UsesV2, HasItsSlots, NumBlocks, Placed
<1>11. HashInv'
  <2>1. \A b \in Blocks : /\ hash'[b] \in {hash[b], Unnamed} /\ Unnamed # << >>
                          /\ hash'[b] = << >> <=> hash[b] = << >>
                          /\ refCount[b] > 0 => hash'[b] = hash[b]
    <3>1. Unnamed # << >>
      BY DEF Unnamed
    <3>2. QED
      BY <1>1, <1>2, <3>1 DEF RememberedHash, TypeInv
  <2>2. CASE UsesV2
    BY <1>1, <1>2, <2>1, <2>2 DEF HashInv, UsesV2, RememberedHash
  <2>3. CASE ~UsesV2
    <3>1. \A b \in Blocks : hash'[b] = << >> => ~computed'[b]
      BY <1>1, <1>2, <2>1, <2>3, MarkedAreHeld DEF HashInv, MarkComputed
    <3>2. \A b \in Blocks : refCount'[b] > 0 => hash'[b] \notin {<< >>, Unnamed}
      BY <1>1, <1>2, <2>1, <2>3 DEF HashInv
    <3>3. ASSUME NEW s \in Seqs, NEW i \in DOMAIN table'[s]
          PROVE  FitsAt(hash'[table'[s][i]], i)
      <4>1. table'[s][i] \in Blocks /\ refCount[table'[s][i]] > 0 /\ table'[s][i] = table[s][i]
        BY <1>1, <1>2, <3>3, HeldIsCounted DEF TableInv
      <4>2. QED
        BY <1>1, <1>2, <2>1, <2>3, <3>3, <4>1 DEF HashInv
    <3>4. OneBlockPerHash'
      <4>1. OneBlockPerHash /\ GpuBlocks \subseteq Blocks /\ CpuBlocks \subseteq Blocks
        BY <1>1, <2>3 DEF HashInv, Blocks
      <4>2. QED
        BY <2>1, <4>1 DEF OneBlockPerHash
    <3>5. ~UsesV2'
      BY <1>2, <2>3 DEF UsesV2
    <3>6. QED
      BY <3>1, <3>2, <3>3, <3>4, <3>5 DEF HashInv, FitsAt, IsDefault
  <2>4. QED
    BY <2>2, <2>3
<1>12. PromiseInv'
  BY <1>2 DEF PromiseInv, Decoding
<1>13. ProposalInv'
  BY <1>2, <1>3, ProposalsAre DEF ProposalInv, NumLookaheadSlots
<1>14. QED
  BY <1>5, <1>6, <1>7, <1>8, <1>9, <1>10, <1>11, <1>12, <1>13 DEF BlocksInv
-----------------------------------------------------------------------------
(***************************************************************************)
(* The outputs are processed                                               *)
(***************************************************************************)
\* The next output is that of a sequence which has all its slots.
LEMMA NextOutputIs ==
    ASSUME BlocksInv, NEW s \in Seqs, NextOutput(s)
    PROVE  /\ s \in Running /\ s \in todo /\ status[s] = "RUNNING" /\ HasItsSlots(s)
           /\ todo' = todo \ {s} /\ todo' \in SUBSET Seqs /\ batch' = batch /\ pending' = pending
           /\ batch = {} /\ pending = NothingPending /\ phase = "outputs"
           /\ phase' \in {"idle", "outputs"} /\ (phase' = "idle" => todo' = {})
           /\ proposal' \in [Seqs -> Seq(Tokens)]
           /\ setup' = setup => ProposalInv'
<1>1. /\ TypeInv /\ RoundInv /\ ProposalInv
      /\ phase = "outputs" /\ s \in Earliest(todo) /\ todo' = todo \ {s}
      /\ phase' = (IF todo' = {} THEN "idle" ELSE "outputs")
      /\ proposal' = [proposal EXCEPT ![s] = << >>] /\ batch' = batch /\ pending' = pending
  BY DEF NextOutput, BlocksInv
<1>2. s \in todo /\ s \in Running /\ status[s] = "RUNNING" /\ HasItsSlots(s)
  BY <1>1 DEF Earliest, RoundInv, Running, HasItsSlots
<1>3. todo' \in SUBSET Seqs /\ batch = {} /\ pending = NothingPending
  BY <1>1 DEF RoundInv, TypeInv
<1>4. << >> \in Seq(Tokens)
  OBVIOUS
<1>5. proposal' \in [Seqs -> Seq(Tokens)] /\ (setup' = setup => ProposalInv')
  BY <1>1, <1>4 DEF TypeInv, ProposalInv
<1>6. QED
  BY <1>1, <1>2, <1>3, <1>5

\* The tokens of one sequence are extended.
LEMMA TokensGrow ==
    ASSUME BlocksInv, NEW s \in Seqs, NextOutput(s), NEW t \in Seq(Tokens), t # << >>,
           Len(tokens[s]) <= Len(t), UsesV2 \/ Len(t) = Len(tokens[s]) + 1,
           tokens' = [tokens EXCEPT ![s] = t],
           UNCHANGED <<setup, status, arrival>>, UNCHANGED blockVars
    PROVE  BlocksInv'
<1>1. /\ TypeInv /\ StatusInv /\ ArrivalInv /\ RoundInv
      /\ TableInv /\ FitInv /\ HashInv /\ PromiseInv /\ ProposalInv
  BY DEF BlocksInv
<1>2. /\ s \in Running /\ s \in todo /\ status[s] = "RUNNING" /\ HasItsSlots(s)
      /\ todo' = todo \ {s} /\ todo' \in SUBSET Seqs /\ batch' = batch /\ pending' = pending
      /\ batch = {} /\ pending = NothingPending /\ phase = "outputs"
      /\ phase' \in {"idle", "outputs"} /\ (phase' = "idle" => todo' = {})
      /\ proposal' \in [Seqs -> Seq(Tokens)]
      /\ ProposalInv'
  BY NextOutputIs
<1>3. UNCHANGED <<table, hash, refCount, computed, seen>>
  BY DEF blockVars
<1>4. \A q \in Seqs : tokens'[q] = IF q = s THEN t ELSE tokens[q]
  BY <1>1 DEF TypeInv
<1>5. TypeInv'
  <2>1. tokens' \in [Seqs -> Seq(Tokens)] /\ phase' \in Phases
    BY <1>1, <1>2 DEF TypeInv, Phases
  <2>2. QED
    BY <1>1, <1>2, <1>3, <2>1 DEF TypeInv
<1>6. StatusInv'
  <2>1. \A q \in Seqs : tokens'[q] = << >> <=> status'[q] = "UNUSED"
    BY <1>1, <1>2, <1>4 DEF StatusInv
  <2>2. QED
    BY <1>1, <1>3, <2>1 DEF StatusInv, Placed, UsesV2, Swapped
<1>7. ArrivalInv'
  BY <1>1, LiveStays
<1>8. RoundInv'
  BY <1>1, <1>2 DEF RoundInv, UsesV2, Running, Decoding
<1>9. BlockInv'
  BY <1>2, BlocksStay
<1>10. FitInv'
  <2>1. ASSUME NEW q \in Seqs, Placed(q)', q # s
        PROVE  Placed(q) /\ (HasItsSlots(q)' => HasItsSlots(q))
    BY <1>2, <2>1 DEF Placed, HasItsSlots
  <2>2. \A q \in Seqs : Placed(q)' /\ q # s =>
            IF UsesV2'
            THEN /\ seen'[q] <= Len(tokens'[q]) /\ seen'[q] <= Len(table'[q]) * BlockSize
                 /\ HasItsSlots(q)' => seen'[q] = Len(tokens'[q])
            ELSE /\ seen'[q] = 0 /\ table'[q] # << >>
                 /\ Len(table'[q]) \in {NumBlocks(q)' - 1, NumBlocks(q)'}
                 /\ HasItsSlots(q)' => Len(table'[q]) = NumBlocks(q)'
    BY <1>1, <1>3, <1>4, <2>1, FitStays
  <2>3. ~HasItsSlots(s)' /\ Placed(s) /\ Len(tokens[s]) \in Nat /\ Len(t) \in Nat /\ seen[s] \in Nat
    BY <1>1, <1>2 DEF HasItsSlots, Placed, TypeInv
  <2>4. UsesV2 => seen[s] <= Len(t) /\ seen[s] <= Len(table[s]) * BlockSize
    BY <1>1, <2>3 DEF FitInv
  <2>5. ~UsesV2 => /\ seen[s] = 0 /\ table[s] # << >>
                   /\ Len(table[s]) \in {CeilDiv(Len(t), BlockSize) - 1, CeilDiv(Len(t), BlockSize)}
    <3>1. SUFFICES ASSUME ~UsesV2
                   PROVE  /\ seen[s] = 0 /\ table[s] # << >>
                          /\ Len(table[s]) \in {CeilDiv(Len(t), BlockSize) - 1, CeilDiv(Len(t), BlockSize)}
      OBVIOUS
    <3>2. seen[s] = 0 /\ table[s] # << >> /\ Len(table[s]) = CeilDiv(Len(tokens[s]), BlockSize)
      BY <1>1, <1>2, <2>3, <3>1 DEF FitInv, NumBlocks
    <3>3. /\ CeilDiv(Len(t), BlockSize) \in {CeilDiv(Len(tokens[s]), BlockSize),
                                             CeilDiv(Len(tokens[s]), BlockSize) + 1}
          /\ CeilDiv(Len(tokens[s]), BlockSize) \in Nat
      BY <2>3, <3>1, CeilGrows, CeilIs
    <3>4. QED
      BY <3>2, <3>3
  <2>6. UsesV2' <=> UsesV2
    BY DEF UsesV2
  <2>7. NumBlocks(s)' = CeilDiv(Len(t), BlockSize)
    BY <1>4 DEF NumBlocks
  <2>8. QED
    BY <1>3, <1>4, <2>2, <2>3, <2>4, <2>5, <2>6, <2>7 DEF FitInv
<1>11. PromiseInv'
  BY <1>2 DEF PromiseInv, Decoding
<1>12. QED
  BY <1>2, <1>5, <1>6, <1>7, <1>8, <1>9, <1>10, <1>11 DEF BlocksInv, BlockInv

\* What is sampled at a position is a token.
LEMMA SampledAre ==
    ASSUME TypeInv, NEW s \in Seqs, NEW n \in Nat \ {0}, n <= Longest(s)
    PROVE  Vocabulary[n] \subseteq Tokens
<1>1. /\ setup \in Setups /\ Owner[s] \in Requests /\ MaxLen[setup][Owner[s]] \in Nat
      /\ NumSpeculativeTokens \in Nat
      /\ 1..MaxLen[setup][Owner[s]] + NumSpeculativeTokens \subseteq DOMAIN Vocabulary
  BY KVCacheAssumption DEF TypeInv
<1>2. n \in DOMAIN Vocabulary
  BY <1>1 DEF Longest
<1>3. QED
  BY <1>2, KVCacheAssumption DEF Tokens

LEMMA AppendTokenKeeps ==
    ASSUME BlocksInv, NEW s \in Seqs, AppendToken(s)
    PROVE  BlocksInv'
<1>1. TypeInv
  BY DEF BlocksInv
<1>2. tokens[s] \in Seq(Tokens) /\ Len(tokens[s]) \in Nat
  BY <1>1 DEF TypeInv
<1>3. /\ Len(tokens[s]) < Longest(s) /\ NextOutput(s)
      /\ UNCHANGED <<setup, status, arrival>> /\ UNCHANGED blockVars
  BY DEF AppendToken
<1>4. PICK x \in Vocabulary[Position(s)] : tokens' = [tokens EXCEPT ![s] = Append(tokens[s], x)]
  BY DEF AppendToken
<1>5. x \in Tokens
  <2>1. Longest(s) \in Nat
    BY <1>1, KVCacheAssumption DEF Longest, TypeInv
  <2>2. Position(s) \in Nat \ {0} /\ Position(s) <= Longest(s)
    BY <1>2, <1>3, <2>1 DEF Position
  <2>3. QED
    BY <1>1, <1>4, <2>2, SampledAre
<1>6. PICK t \in Seq(Tokens) : /\ t = Append(tokens[s], x) /\ t # << >>
                               /\ Len(t) = Len(tokens[s]) + 1
  <2> DEFINE u == Append(tokens[s], x)
  <2>1. u \in Seq(Tokens) /\ Len(u) = Len(tokens[s]) + 1
    BY <1>2, <1>5, AppendProperties
  <2> HIDE DEF u
  <2>2. u # << >>
    BY <1>2, <2>1, EmptySeq
  <2>3. QED
    BY <2>1, <2>2 DEF u
<1>7. Len(tokens[s]) <= Len(t) /\ tokens' = [tokens EXCEPT ![s] = t]
  BY <1>2, <1>4, <1>6
<1>8. QED
  BY <1>3, <1>6, <1>7, TokensGrow

LEMMA AppendAcceptedKeeps ==
    ASSUME BlocksInv, NEW s \in Seqs, AppendAccepted(s)
    PROVE  BlocksInv'
<1>1. TypeInv /\ ProposalInv
  BY DEF BlocksInv
<1>2. /\ tokens[s] \in Seq(Tokens) /\ Len(tokens[s]) \in Nat
      /\ proposal[s] \in Seq(Tokens) /\ Len(proposal[s]) \in Nat
  BY <1>1 DEF TypeInv
<1>3. /\ proposal[s] # << >> /\ NextOutput(s)
      /\ UNCHANGED <<setup, status, arrival>> /\ UNCHANGED blockVars
  BY DEF AppendAccepted
<1>4. PICK a \in AcceptedTokens(s) : /\ Len(tokens[s]) + Len(a) <= Longest(s)
                                     /\ tokens' = [tokens EXCEPT ![s] = tokens[s] \o a]
  BY DEF AppendAccepted
<1>5. UsesV2
  BY <1>1, <1>3 DEF ProposalInv, UsesV2
<1>6. a \in Seq(Tokens) /\ a # << >>
  <2>1. CASE a = proposal[s]
    BY <1>2, <1>3, <2>1
  <2>2. CASE a # proposal[s]
    <3>1. PICK n \in 0..Len(proposal[s]) - 1 :
               a \in {Append(SubSeq(proposal[s], 1, n), x) : x \in Vocabulary[Len(tokens[s]) + n + 1]}
      BY <1>4, <2>2 DEF AcceptedTokens
    <3>2. PICK x \in Vocabulary[Len(tokens[s]) + n + 1] : a = Append(SubSeq(proposal[s], 1, n), x)
      BY <3>1
    <3>3. n \in Nat /\ SubSeq(proposal[s], 1, n) \in Seq(Tokens) /\ Len(SubSeq(proposal[s], 1, n)) = n
      <4>1. n \in Nat /\ 1..n \subseteq 1..Len(proposal[s])
        BY <1>2, <3>1
      <4>2. \A i \in 1..n : proposal[s][i] \in Tokens
        BY <1>2, <4>1
      <4>3. QED
        BY <1>2, <4>1, <4>2, SubSeqProperties
    <3>4. Len(a) = n + 1
      <4>1. SubSeq(proposal[s], 1, n) \in Seq(Tokens \cup {x})
        BY <3>3
      <4>2. QED
        BY <3>2, <3>3, <4>1, AppendProperties
    <3>5. x \in Tokens
      <4>1. Len(tokens[s]) + n + 1 \in Nat \ {0} /\ Len(tokens[s]) + n + 1 <= Longest(s)
        <5>1. PICK m \in Nat : m = Len(tokens[s])
          BY <1>2
        <5>2. m + Len(a) <= Longest(s) /\ n \in Nat
          BY <1>4, <3>3, <5>1
        <5>3. m + n + 1 \in Nat \ {0} /\ m + n + 1 <= Longest(s)
          BY <3>4, <5>2
        <5>4. QED
          BY <5>1, <5>3
      <4>2. QED
        BY <1>1, <3>2, <4>1, SampledAre
    <3>6. QED
      BY <3>2, <3>3, <3>5
  <2>3. QED
    BY <2>1, <2>2
<1>7. /\ tokens[s] \o a \in Seq(Tokens) /\ Len(tokens[s] \o a) = Len(tokens[s]) + Len(a)
      /\ Len(a) \in Nat /\ Len(a) > 0
  BY <1>2, <1>6, EmptySeq
<1>8. Len(tokens[s]) <= Len(tokens[s] \o a) /\ tokens[s] \o a # << >>
  BY <1>2, <1>7
<1>9. QED
  BY <1>3, <1>4, <1>5, <1>7, <1>8, TokensGrow

LEMMA ForkKeeps ==
    ASSUME BlocksInv, NEW s \in Seqs, NEW c \in Seqs, Fork(s, c)
    PROVE  BlocksInv'
<1>1. /\ TypeInv /\ StatusInv /\ ArrivalInv /\ RoundInv
      /\ TableInv /\ FitInv /\ HashInv /\ PromiseInv /\ ProposalInv
  BY DEF BlocksInv
<1>2. /\ Len(tokens[s]) < Longest(s) /\ Owner[c] = Owner[s] /\ status[c] = "UNUSED"
      /\ NextOutput(s) /\ SetStatus({c}, "RUNNING") /\ ForkTable(s, c)
      /\ UNCHANGED <<setup, arrival>>
  BY DEF Fork
<1>3. /\ s \in Running /\ s \in todo /\ status[s] = "RUNNING" /\ HasItsSlots(s)
      /\ todo' = todo \ {s} /\ todo' \in SUBSET Seqs /\ batch' = batch /\ pending' = pending
      /\ batch = {} /\ pending = NothingPending /\ phase = "outputs"
      /\ phase' \in {"idle", "outputs"} /\ (phase' = "idle" => todo' = {})
      /\ proposal' \in [Seqs -> Seq(Tokens)]
      /\ ProposalInv' /\ s # c /\ c \notin todo
  <2>1. s # c /\ \A q \in todo : status[q] = "RUNNING"
    BY <1>1, <1>2, NextOutputIs DEF RoundInv, Running
  <2>2. QED
    BY <1>2, <2>1, NextOutputIs
<1>4. PICK x \in Vocabulary[Position(s)], y \in Vocabulary[Position(s)] :
           tokens' = [tokens EXCEPT ![s] = Append(tokens[s], x), ![c] = Append(tokens[s], y)]
  BY <1>3 DEF Fork
<1>5. tokens[s] \in Seq(Tokens) /\ Len(tokens[s]) \in Nat /\ x \in Tokens /\ y \in Tokens
  <2>1. tokens[s] \in Seq(Tokens) /\ Len(tokens[s]) \in Nat
    BY <1>1 DEF TypeInv
  <2>2. Longest(s) \in Nat
    BY <1>1, KVCacheAssumption DEF Longest, TypeInv
  <2>3. Position(s) \in Nat \ {0} /\ Position(s) <= Longest(s)
    BY <1>2, <2>1, <2>2 DEF Position
  <2>4. QED
    BY <1>1, <1>4, <2>1, <2>3, SampledAre
<1>6. /\ \A q \in Seqs : q \in {s, c} => /\ tokens'[q] \in Seq(Tokens) /\ tokens'[q] # << >>
                                         /\ Len(tokens'[q]) = Len(tokens[s]) + 1
      /\ \A q \in Seqs : q \notin {s, c} => tokens'[q] = tokens[q]
      /\ tokens' \in [Seqs -> Seq(Tokens)]
  <2> DEFINE t == Append(tokens[s], x)
             u == Append(tokens[s], y)
  <2>1. /\ t \in Seq(Tokens) /\ Len(t) = Len(tokens[s]) + 1
        /\ u \in Seq(Tokens) /\ Len(u) = Len(tokens[s]) + 1
    BY <1>5, AppendProperties
  <2>2. tokens' = [tokens EXCEPT ![s] = t, ![c] = u]
    BY <1>4
  <2> HIDE DEF t, u
  <2>3. t # << >> /\ u # << >>
    BY <1>5, <2>1, EmptySeq
  <2>4. tokens \in [Seqs -> Seq(Tokens)]
    BY <1>1 DEF TypeInv
  <2>5. tokens'[s] = t /\ tokens'[c] = u /\ \A q \in Seqs : q \notin {s, c} => tokens'[q] = tokens[q]
    BY <1>3, <2>2, <2>4
  <2>6. tokens' \in [Seqs -> Seq(Tokens)]
    BY <2>1, <2>2, <2>4
  <2>7. QED
    BY <2>1, <2>3, <2>5, <2>6
<1>7. \A q \in Seqs : status'[q] = IF q = c THEN "RUNNING" ELSE status[q]
  BY <1>2 DEF SetStatus
<1>8. /\ BlockInv' /\ table'[c] = table[s] /\ seen'[c] = seen[s]
      /\ \A q \in Seqs : q # c => table'[q] = table[q] /\ seen'[q] = seen[q]
  BY <1>2, <1>3, <1>7, ForkTableKeeps
<1>9. TypeInv'
  <2>1. status' \in [Seqs -> Statuses] /\ phase' \in Phases
    BY <1>1, <1>2, <1>3 DEF TypeInv, Phases, Statuses, SetStatus
  <2>2. QED
    BY <1>1, <1>2, <1>3, <1>6, <1>8, <2>1 DEF TypeInv, BlockInv, BlockTypes
<1>10. StatusInv'
  <2>1. \A q \in Seqs : Placed(q)' <=> (q = c \/ Placed(q))
    BY <1>7 DEF Placed
  <2>2. \A q \in Seqs : tokens'[q] = << >> <=> status'[q] = "UNUSED"
    BY <1>1, <1>3, <1>6, <1>7 DEF StatusInv
  <2>3. \A q \in Seqs : ~Placed(q)' => table'[q] = << >> /\ seen'[q] = 0
    BY <1>1, <1>8, <2>1 DEF StatusInv
  <2>4. \A q \in Seqs : Owner[q] = Owner[s] /\ status[q] # "UNUSED" => status[q] = "RUNNING"
    BY <1>1, <1>3 DEF StatusInv
  <2>5. ASSUME NEW z \in Seqs, NEW q \in Seqs, Owner[z] = Owner[q],
               status'[z] # "UNUSED", status'[q] # "UNUSED"
        PROVE  status'[z] = status'[q] /\ (status'[z] = "WAITING" => z = q)
    BY <1>1, <1>2, <1>7, <2>4, <2>5 DEF StatusInv
  <2>6. UsesV2' => Swapped' = {}
    <3>1. UsesV2 => \A q \in Seqs : status[q] # "SWAPPED"
      BY <1>1 DEF StatusInv, Swapped
    <3>2. \A q \in Seqs : status'[q] = "SWAPPED" => status[q] = "SWAPPED"
      BY <1>7
    <3>3. UsesV2' => UsesV2
      BY <1>2 DEF UsesV2
    <3>4. QED
      BY <3>1, <3>2, <3>3 DEF Swapped
  <2>7. QED
    BY <2>2, <2>3, <2>5, <2>6 DEF StatusInv, Placed
<1>11. ArrivalInv'
  <2>1. \A r \in Requests : Live(r)' = {} <=> Live(r) = {}
    BY <1>2, <1>3, <1>7 DEF Live
  <2>2. QED
    BY <1>1, <1>2, <2>1, ArrivalStays
<1>12. RoundInv'
  <2>1. todo' \subseteq Running'
    BY <1>1, <1>3, <1>7 DEF RoundInv, Running
  <2>2. QED
    BY <1>1, <1>2, <1>3, <2>1 DEF RoundInv, UsesV2, Decoding
<1>13. FitInv'
  <2>1. ASSUME NEW q \in Seqs, Placed(q)', q \notin {s, c}
        PROVE  Placed(q) /\ (HasItsSlots(q)' => HasItsSlots(q))
    BY <1>3, <1>7, <2>1 DEF Placed, HasItsSlots
  <2>2. \A q \in Seqs : Placed(q)' /\ q \notin {s, c} =>
            IF UsesV2'
            THEN /\ seen'[q] <= Len(tokens'[q]) /\ seen'[q] <= Len(table'[q]) * BlockSize
                 /\ HasItsSlots(q)' => seen'[q] = Len(tokens'[q])
            ELSE /\ seen'[q] = 0 /\ table'[q] # << >>
                 /\ Len(table'[q]) \in {NumBlocks(q)' - 1, NumBlocks(q)'}
                 /\ HasItsSlots(q)' => Len(table'[q]) = NumBlocks(q)'
    BY <1>1, <1>2, <1>6, <1>8, <2>1, FitStays
  <2>3. Placed(s) /\ Len(tokens[s]) \in Nat /\ seen[s] \in Nat
    BY <1>1, <1>3 DEF Placed, TypeInv
  <2>4. \A q \in {s, c} : ~HasItsSlots(q)' /\ table'[q] = table[s] /\ seen'[q] = seen[s]
    BY <1>3, <1>8 DEF HasItsSlots
  <2>5. UsesV2 => seen[s] <= Len(tokens[s]) + 1 /\ seen[s] <= Len(table[s]) * BlockSize
    BY <1>1, <2>3 DEF FitInv
  <2>6. ~UsesV2 => /\ seen[s] = 0 /\ table[s] # << >>
                   /\ Len(table[s]) \in {CeilDiv(Len(tokens[s]) + 1, BlockSize) - 1,
                                         CeilDiv(Len(tokens[s]) + 1, BlockSize)}
    <3>1. SUFFICES ASSUME ~UsesV2
                   PROVE  /\ seen[s] = 0 /\ table[s] # << >>
                          /\ Len(table[s]) \in {CeilDiv(Len(tokens[s]) + 1, BlockSize) - 1,
                                                CeilDiv(Len(tokens[s]) + 1, BlockSize)}
      OBVIOUS
    <3>2. seen[s] = 0 /\ table[s] # << >> /\ Len(table[s]) = CeilDiv(Len(tokens[s]), BlockSize)
      BY <1>1, <1>3, <2>3, <3>1 DEF FitInv, NumBlocks
    <3>3. /\ CeilDiv(Len(tokens[s]) + 1, BlockSize) \in {CeilDiv(Len(tokens[s]), BlockSize),
                                                         CeilDiv(Len(tokens[s]), BlockSize) + 1}
          /\ CeilDiv(Len(tokens[s]), BlockSize) \in Nat
      BY <2>3, CeilGrows, CeilIs
    <3>4. QED
      BY <3>2, <3>3
  <2>7. UsesV2' <=> UsesV2
    BY <1>2 DEF UsesV2
  <2>8. \A q \in {s, c} : NumBlocks(q)' = CeilDiv(Len(tokens[s]) + 1, BlockSize)
    BY <1>6 DEF NumBlocks
  <2>9. \A q \in {s, c} : Len(tokens'[q]) = Len(tokens[s]) + 1
    BY <1>6
  <2>10. QED
    BY <2>2, <2>4, <2>5, <2>6, <2>7, <2>8, <2>9 DEF FitInv
<1>14. PromiseInv'
  BY <1>3 DEF PromiseInv, Decoding
<1>15. QED
  BY <1>3, <1>8, <1>9, <1>10, <1>11, <1>12, <1>13, <1>14 DEF BlocksInv, BlockInv

\* Sequences that stop, or are aborted, between two rounds.
LEMMA ReleaseKeeps ==
    ASSUME BlocksInv, NEW S \in SUBSET Seqs, Release(S), phase \in {"idle", "outputs"},
           phase' \in {"idle", "outputs"}, phase' = "idle" => todo' = {},
           phase' = "outputs" => phase = "outputs",
           todo' = todo \ S, UNCHANGED <<batch, pending>>,
           proposal' \in [Seqs -> Seq(Tokens)], ProposalInv'
    PROVE  BlocksInv'
<1>1. /\ TypeInv /\ StatusInv /\ ArrivalInv /\ RoundInv
      /\ TableInv /\ FitInv /\ HashInv /\ PromiseInv /\ ProposalInv
  BY DEF BlocksInv
<1>2. /\ FreeTables(S) /\ SetStatus(S, "UNUSED") /\ setup' = setup
      /\ tokens' = [s \in Seqs |-> IF s \in S THEN << >> ELSE tokens[s]]
      /\ arrival' = {x \in arrival : \A r \in {x[1], x[2]} : ~(Live(r) \subseteq S)}
  BY DEF Release
<1>3. \A q \in Seqs : status'[q] = IF q \in S THEN "UNUSED" ELSE status[q]
  BY <1>2 DEF SetStatus
<1>4. /\ BlockInv'
      /\ \A q \in Seqs : /\ table'[q] = IF q \in S THEN << >> ELSE table[q]
                         /\ seen'[q] = IF q \in S THEN 0 ELSE seen[q]
  BY <1>2, <1>3, FreeTablesKeep
<1>5. TypeInv'
  <2>1. status' \in [Seqs -> Statuses] /\ phase' \in Phases
    BY <1>1, <1>2 DEF TypeInv, Phases, Statuses, SetStatus
  <2>2. tokens' \in [Seqs -> Seq(Tokens)]
    BY <1>1, <1>2 DEF TypeInv
  <2>3. arrival' \in SUBSET (Requests \X Requests) /\ todo' \in SUBSET Seqs
    BY <1>1, <1>2 DEF TypeInv
  <2>4. QED
    BY <1>1, <1>2, <1>4, <2>1, <2>2, <2>3 DEF TypeInv, BlockInv, BlockTypes
<1>6. StatusInv'
  <2>1. \A q \in Seqs : Placed(q)' <=> (q \notin S /\ Placed(q))
    BY <1>3 DEF Placed
  <2>2. \A q \in Seqs : /\ tokens'[q] = << >> <=> status'[q] = "UNUSED"
                        /\ ~Placed(q)' => table'[q] = << >> /\ seen'[q] = 0
    BY <1>1, <1>2, <1>3, <1>4, <2>1 DEF StatusInv
  <2>3. ASSUME NEW x \in Seqs, NEW q \in Seqs, Owner[x] = Owner[q],
               status'[x] # "UNUSED", status'[q] # "UNUSED"
        PROVE  status'[x] = status'[q] /\ (status'[x] = "WAITING" => x = q)
    BY <1>1, <1>3, <2>3 DEF StatusInv
  <2>4. UsesV2' => Swapped' = {}
    <3>1. UsesV2 => \A q \in Seqs : status[q] # "SWAPPED"
      BY <1>1 DEF StatusInv, Swapped
    <3>2. \A q \in Seqs : status'[q] = "SWAPPED" => status[q] = "SWAPPED"
      BY <1>3
    <3>3. UsesV2' => UsesV2
      BY <1>2 DEF UsesV2
    <3>4. QED
      BY <3>1, <3>2, <3>3 DEF Swapped
  <2>5. QED
    BY <2>2, <2>3, <2>4 DEF StatusInv, Placed
<1>7. ArrivalInv'
  <2>1. \A r \in Requests : Live(r)' = Live(r) \ S /\ (Live(r)' = {} <=> Live(r) \subseteq S)
    BY <1>3 DEF Live
  <2>2. \A r, q \in Requests : <<r, q>> \in arrival' <=>
            <<r, q>> \in arrival /\ Live(r)' # {} /\ Live(q)' # {}
    <3>1. ASSUME NEW r \in Requests, NEW q \in Requests
          PROVE  <<r, q>> \in arrival' <=>
                     <<r, q>> \in arrival /\ ~(Live(r) \subseteq S) /\ ~(Live(q) \subseteq S)
      <4>1. <<r, q>>[1] = r /\ <<r, q>>[2] = q
        OBVIOUS
      <4>2. QED
        BY <1>2, <4>1
    <3>2. QED
      BY <2>1, <3>1
  <2>3. QED
    BY <1>1, <2>1, <2>2 DEF ArrivalInv
<1>8. RoundInv'
  <2>1. todo' \subseteq Running' /\ batch = {} /\ pending = NothingPending
    BY <1>1, <1>3 DEF RoundInv, Running
  <2>2. QED
    BY <1>1, <1>2, <2>1 DEF RoundInv, UsesV2, Decoding
<1>9. FitInv'
  <2>1. ASSUME NEW q \in Seqs, Placed(q)'
        PROVE  q \notin S /\ Placed(q) /\ (HasItsSlots(q)' => HasItsSlots(q))
    BY <1>3, <2>1 DEF Placed, HasItsSlots
  <2>2. \A q \in Seqs : Placed(q)' =>
            IF UsesV2'
            THEN /\ seen'[q] <= Len(tokens'[q]) /\ seen'[q] <= Len(table'[q]) * BlockSize
                 /\ HasItsSlots(q)' => seen'[q] = Len(tokens'[q])
            ELSE /\ seen'[q] = 0 /\ table'[q] # << >>
                 /\ Len(table'[q]) \in {NumBlocks(q)' - 1, NumBlocks(q)'}
                 /\ HasItsSlots(q)' => Len(table'[q]) = NumBlocks(q)'
    BY <1>1, <1>2, <1>4, <2>1, FitStays
  <2>3. QED
    BY <2>2 DEF FitInv
<1>10. PromiseInv'
  BY DEF PromiseInv, Decoding
<1>11. QED
  BY <1>4, <1>5, <1>6, <1>7, <1>8, <1>9, <1>10 DEF BlocksInv, BlockInv

LEMMA StopKeeps ==
    ASSUME BlocksInv, NEW s \in Seqs, Stop(s)
    PROVE  BlocksInv'
<1> DEFINE S == {s}
<1>1. NextOutput(s) /\ Release(S) /\ S \in SUBSET Seqs
  BY DEF Stop
<1>2. /\ todo' = todo \ S /\ UNCHANGED <<batch, pending, setup>> /\ phase = "outputs"
      /\ phase' \in {"idle", "outputs"} /\ (phase' = "idle" => todo' = {})
      /\ proposal' \in [Seqs -> Seq(Tokens)] /\ ProposalInv'
  BY <1>1, NextOutputIs DEF Release
<1> HIDE DEF S
<1>3. QED
  BY <1>1, <1>2, ReleaseKeeps

LEMMA AbortKeeps ==
    ASSUME BlocksInv, NEW r \in Requests, Abort(r)
    PROVE  BlocksInv'
<1>1. PICK S \in SUBSET Seqs : S = Live(r)
  BY DEF Live
<1>2. /\ phase = "idle" /\ Release(S) /\ UNCHANGED <<proposal, phase, todo, batch, pending, setup>>
  BY <1>1 DEF Abort, Release
<1>3. todo = {} /\ proposal \in [Seqs -> Seq(Tokens)] /\ ProposalInv
  BY <1>2 DEF BlocksInv, RoundInv, TypeInv
<1>4. ProposalInv' /\ todo' = todo \ S
  BY <1>2, <1>3 DEF ProposalInv
<1>5. QED
  BY <1>2, <1>3, <1>4, ReleaseKeeps
-----------------------------------------------------------------------------
(***************************************************************************)
(* Blocks, counts, hashes and promises, for every setup                    *)
(***************************************************************************)
LEMMA InitBlocksInv == Init => BlocksInv
<1>1. SUFFICES ASSUME Init PROVE BlocksInv
  OBVIOUS
<1>2. /\ setup \in Setups
      /\ \A s \in Seqs : /\ status[s] = "UNUSED" /\ tokens[s] = << >> /\ table[s] = << >>
                         /\ seen[s] = 0 /\ proposal[s] = << >>
      /\ \A b \in Blocks : hash[b] = << >> /\ refCount[b] = 0 /\ computed[b] = FALSE
      /\ arrival = {} /\ phase = "idle" /\ todo = {} /\ batch = {} /\ pending = NothingPending
  BY <1>1 DEF Init
<1>3. TypeInv
  BY <1>1 DEF TypeInv, Init, Statuses, Phases, NothingPending
<1>4. StatusInv /\ ArrivalInv
  BY <1>2 DEF StatusInv, ArrivalInv, Live, Swapped
<1>5. RoundInv
  <2>1. NothingPending.moves = {}
    BY DEF NothingPending
  <2>2. QED
    BY <1>2, <2>1 DEF RoundInv, Decoding
<1>6. TableInv
  <2>1. \A s \in Seqs : Range(table[s]) = {} /\ IsInjective(table[s])
    BY <1>2 DEF Range, IsInjective
  <2>2. \A b \in Blocks : NumFrees(b, Seqs) = 0
    <3>1. \A b \in Blocks : {s \in Seqs : b \in Range(table[s])} = {}
      BY <2>1
    <3>2. QED
      BY <3>1, FS_EmptySet DEF NumFrees
  <2>3. QED
    BY <1>2, <2>1, <2>2 DEF TableInv, CountsMatchTables
<1>7. FitInv
  BY <1>2 DEF FitInv, Placed
<1>8. HashInv
  <2>1. \A s \in Seqs : DOMAIN table[s] = {}
    BY <1>2
  <2>2. GpuBlocks \subseteq Blocks /\ CpuBlocks \subseteq Blocks
    BY DEF Blocks
  <2>3. OneBlockPerHash
    BY <1>2, <2>2 DEF OneBlockPerHash
  <2>4. QED
    BY <1>2, <2>1, <2>3 DEF HashInv
<1>9. PromiseInv /\ ProposalInv
  BY <1>2 DEF PromiseInv, ProposalInv, Decoding
<1>10. QED
  BY <1>3, <1>4, <1>5, <1>6, <1>7, <1>8, <1>9 DEF BlocksInv

LEMMA NextBlocksInv == BlocksInv /\ [Next]_vars => BlocksInv'
<1>1. SUFFICES ASSUME BlocksInv, [Next]_vars PROVE BlocksInv'
  OBVIOUS
<1>2. CASE StartDecode
  BY <1>1, <1>2, StartDecodeKeeps
<1>3. CASE Execute
  BY <1>1, <1>3, ExecuteKeeps
<1>4. ASSUME NEW r \in Requests, NEW p \in Prompts[r], AddRequest(r, p)
      PROVE  BlocksInv'
  BY <1>1, <1>4, AddRequestKeeps
<1>5. ASSUME NEW r \in Requests, PreemptBySwap(r)
      PROVE  BlocksInv'
  BY <1>1, <1>5, PreemptBySwapKeeps
<1>6. ASSUME NEW r \in Requests, Abort(r)
      PROVE  BlocksInv'
  BY <1>1, <1>6, AbortKeeps
<1>7. ASSUME NEW s \in Seqs, Admit(s)
      PROVE  BlocksInv'
  BY <1>1, <1>7, AdmitKeeps
<1>8. ASSUME NEW s \in Seqs, AppendSlots(s)
      PROVE  BlocksInv'
  BY <1>1, <1>8, AppendSlotsKeeps
<1>9. ASSUME NEW s \in Seqs, PreemptByRecompute(s)
      PROVE  BlocksInv'
  BY <1>1, <1>9, PreemptByRecomputeKeeps
<1>10. ASSUME NEW s \in Seqs, SwapIn(s)
      PROVE  BlocksInv'
  BY <1>1, <1>10, SwapInKeeps
<1>11. ASSUME NEW s \in Seqs, AppendToken(s)
      PROVE  BlocksInv'
  BY <1>1, <1>11, AppendTokenKeeps
<1>12. ASSUME NEW s \in Seqs, AppendAccepted(s)
      PROVE  BlocksInv'
  BY <1>1, <1>12, AppendAcceptedKeeps
<1>13. ASSUME NEW s \in Seqs, NEW c \in Seqs, Fork(s, c)
      PROVE  BlocksInv'
  BY <1>1, <1>13, ForkKeeps
<1>14. ASSUME NEW s \in Seqs, Stop(s)
      PROVE  BlocksInv'
  BY <1>1, <1>14, StopKeeps
<1>15. CASE UNCHANGED vars
  <2>1. UNCHANGED <<setup, status, tokens, table, hash, refCount, computed, seen, proposal,
                    arrival, phase, todo, batch, pending>>
    BY <1>15 DEF vars
  <2>2. /\ TypeInv /\ StatusInv /\ ArrivalInv /\ RoundInv
        /\ TableInv /\ FitInv /\ HashInv /\ PromiseInv /\ ProposalInv
    BY <1>1 DEF BlocksInv
  <2>3. TypeInv'
    BY <2>1, <2>2 DEF TypeInv
  <2>4. StatusInv'
    BY <2>1, <2>2 DEF StatusInv, UsesV2, Swapped, Placed
  <2>5. ArrivalInv'
    BY <2>1, <2>2, LiveStays
  <2>6. RoundInv'
    BY <2>1, <2>2 DEF RoundInv, Running, UsesV2, Decoding, Earliest
  <2>7. BlockInv'
    BY <1>1, <2>1, BlocksStay DEF blockVars
  <2>8. FitInv' /\ ProposalInv'
    BY <2>1, <2>2 DEF FitInv, ProposalInv, UsesV2, HasItsSlots, NumBlocks, Placed
  <2>9. PromiseInv'
    BY <2>1, <2>2 DEF PromiseInv, Decoding, Group, SeqsWith, SlotsNeeded, FreeIn, SwappedIn,
       UsesV2, NumTouched, NumUnseen, NumLookaheadSlots
  <2>10. QED
    BY <2>3, <2>4, <2>5, <2>6, <2>7, <2>8, <2>9 DEF BlocksInv, BlockInv
<1>16. QED
  BY <1>1, <1>2, <1>3, <1>4, <1>5, <1>6, <1>7, <1>8, <1>9, <1>10, <1>11, <1>12, <1>13, <1>14, <1>15
     DEF Next

LEMMA SpecBlocksInv == Spec => []BlocksInv
BY InitBlocksInv, NextBlocksInv, PTL DEF Spec

\* The variables keep their types, and a table has room for the tokens in it.
\* A block in use is one of the right device, and one that was created if
\* allocators look blocks up by hash (BlockSpaceManagerV1, BlockSpaceManagerV2).
THEOREM KVCacheTypes == Spec => []KVCacheTypeOK
<1>1. BlocksInv => KVCacheTypeOK
  <2>1. SUFFICES ASSUME BlocksInv PROVE KVCacheTypeOK
    OBVIOUS
  <2>2. /\ TypeInv /\ StatusInv /\ ArrivalInv /\ RoundInv
        /\ TableInv /\ FitInv /\ HashInv
    BY <2>1 DEF BlocksInv
  <2>3. ASSUME NEW s \in Seqs
        PROVE  /\ Range(tokens[s]) \subseteq Nat \ {0}
               /\ Range(table[s]) \subseteq IF status[s] = "SWAPPED" THEN CpuBlocks ELSE GpuBlocks
               /\ seen[s] \in 0..MinOf(Len(tokens[s]), Len(table[s]) * BlockSize)
    <3>1. Range(tokens[s]) \subseteq Nat \ {0}
      BY <2>2 DEF TypeInv, Range, Tokens
    <3>2. /\ Len(tokens[s]) \in Nat /\ Len(table[s]) \in Nat /\ Len(table[s]) * BlockSize \in Nat
          /\ seen[s] \in Nat
      <4>1. Len(tokens[s]) \in Nat /\ Len(table[s]) \in Nat /\ seen[s] \in Nat
        BY <2>2 DEF TypeInv
      <4>2. QED
        BY <4>1, Products
    <3>3. seen[s] <= Len(tokens[s]) /\ seen[s] <= Len(table[s]) * BlockSize
      BY <2>2, <3>2 DEF FitInv, StatusInv
    <3>4. QED
      BY <2>2, <3>1, <3>2, <3>3 DEF MinOf, TableInv
  <2>4. refCount \in [Blocks -> 0..Cardinality(Seqs)]
    <3>1. ASSUME NEW b \in Blocks
          PROVE  refCount[b] \in 0..Cardinality(Seqs)
      <4>1. Holders(b) \in SUBSET Seqs /\ refCount[b] = Cardinality(Holders(b)) /\ refCount[b] \in Nat
        BY <2>2, HoldersCount DEF Holders, TableInv
      <4>2. Cardinality(Holders(b)) <= Cardinality(Seqs) /\ Cardinality(Seqs) \in Nat
        BY <4>1, SeqSets, FS_Subset, KVCacheAssumption
      <4>3. QED
        BY <4>1, <4>2
    <3>2. QED
      BY <2>2, <3>1 DEF TypeInv
  <2>5. \A b \in Blocks : hash[b] = << >> => (refCount[b] = 0 \/ UsesV2) /\ ~computed[b]
    BY <2>2 DEF HashInv, TypeInv
  <2>6. QED
    BY <2>2, <2>3, <2>4, <2>5 DEF KVCacheTypeOK, TypeInv, RoundInv, ArrivalInv, Statuses, Phases
<1>2. QED
  BY <1>1, SpecBlocksInv, PTL

\* No block is freed twice, lost, or evicted while a sequence reads it: its count
\* is the number of tables it is in (free(), fork(), append_slots(), swap()).
THEOREM CountsAreRight == Spec => []CountsMatchTables
<1>1. BlocksInv => CountsMatchTables
  BY DEF BlocksInv, TableInv
<1>2. QED
  BY <1>1, SpecBlocksInv, PTL

\* cached_blocks and the evictor never meet two blocks of a device with one
\* hash: the assertions of CachedBlockAllocator hold.
THEOREM HashesAreUnique == Spec => []OneBlockPerHash
<1>1. BlocksInv => OneBlockPerHash
  <2>1. SUFFICES ASSUME BlocksInv PROVE OneBlockPerHash
    OBVIOUS
  <2>2. GpuBlocks \subseteq Blocks /\ CpuBlocks \subseteq Blocks
    BY DEF Blocks
  <2>3. QED
    BY <2>1, <2>2 DEF BlocksInv, HashInv, OneBlockPerHash
<1>2. QED
  BY <1>1, SpecBlocksInv, PTL

\* A sequence of a group that can_append_slots() or can_swap_in() let through
\* finds all the blocks it takes: no group takes what was promised to another,
\* and NoFreeBlocksError is never raised.
THEOREM PromisesAreKept == Spec => []SlotsArePromisedOnce
<1>1. BlocksInv => SlotsArePromisedOnce
  <2>1. SUFFICES ASSUME BlocksInv, NEW s \in Earliest(todo), Decoding, HasSlots(s)
                 PROVE  (IF UsesV2 THEN NumTaken(s)
                         ELSE IF NeedsBlock(s) \/ refCount[LastBlock(s)] > 1 THEN 1 ELSE 0)
                          <= Cardinality(FreeIn(GpuBlocks))
    BY DEF SlotsArePromisedOnce
  <2>2. s \in todo /\ s \in Running
    BY <2>1 DEF Earliest, BlocksInv, RoundInv
  <2>3. FreeIn(GpuBlocks) \in SUBSET Blocks
    BY DEF FreeIn, Blocks
  <2>4. Cardinality(FreeIn(GpuBlocks)) \in Nat /\ IsFiniteSet(FreeIn(GpuBlocks))
    BY <2>3, BlockSets
  <2>5. CASE SwappedIn
    <3>1. FreeIn(GpuBlocks) # {} /\ ~UsesV2
      BY <2>1, <2>2, <2>5 DEF BlocksInv, PromiseInv, RoundInv, SwappedIn
    <3>2. Cardinality(FreeIn(GpuBlocks)) > 0
      BY <2>4, <3>1, FS_EmptySet
    <3>3. QED
      BY <2>4, <3>1, <3>2
  <2>6. CASE ~SwappedIn
    <3>1. /\ Group(s) \cap todo \in SUBSET Running
          /\ SlotsNeeded(Group(s) \cap todo) <= Cardinality(FreeIn(GpuBlocks))
      BY <2>1, <2>2, <2>6, HasSlotsMeans
    <3>2. PICK S \in SUBSET Running : S = Group(s) \cap todo
      BY <3>1
    <3>3. s \in S
      <4>1. s \in Seqs /\ status[s] = "RUNNING"
        BY <2>1, <2>2, RunningFits
      <4>2. QED
        BY <2>2, <3>2, <4>1, OwnerIs
    <3>4. /\ SlotsNeeded(S) = NeedsOf(s) + SlotsNeeded(S \ {s}) /\ NeedsOf(s) \in Nat
          /\ SlotsNeeded(S \ {s}) \in Nat
      BY <2>1, <2>2, <3>3, SlotsNeededIs, RunningFits
    <3>5. NeedsOf(s) <= Cardinality(FreeIn(GpuBlocks))
      BY <2>4, <3>1, <3>2, <3>4
    <3>6. UsesV2 => NumTaken(s) \in Nat /\ NumTaken(s) <= NeedsOf(s)
      BY <2>1, <2>2, RunningFits DEF NeedsOf
    <3>7. ~UsesV2 => NeedsOf(s) = 1
      BY DEF NeedsOf
    <3>8. QED
      BY <2>4, <3>4, <3>5, <3>6, <3>7
  <2>7. QED
    BY <2>5, <2>6
<1>2. QED
  BY <1>1, SpecBlocksInv, PTL
-----------------------------------------------------------------------------
(***************************************************************************)
(* Block manager V2: what the blocks hold                                  *)
(***************************************************************************)
\* Blocks are shared within a group, and not at all with lookahead slots.  The
\* new blocks of a round are held by one of its sequences alone; the blocks they
\* are copied from are not new, and are not given back before the round ends.
SharingInv ==
    /\ \A s, q \in Seqs : Range(table[s]) \cap Range(table[q]) # {} => Owner[s] = Owner[q]
    /\ NumLookaheadSlots > 0 => \A b \in Blocks : refCount[b] <= 1
    /\ \A b \in pending.fresh : refCount[b] = 1 /\ \E s \in batch : b \in Range(table[s])
    /\ \A x \in pending.copies :
          /\ x[2] \in pending.fresh /\ x[1] \notin pending.fresh
          /\ \A y \in pending.copies : y[2] = x[2] => y[1] = x[1]
          /\ \E q \in Running : x[1] \in Range(table[q]) /\ Group(q) \cap batch # {}

\* There is room for what the model writes, in blocks no other sequence holds.
Room(s) == Len(table[s]) * BlockSize
InOutputs(s) == phase = "outputs" /\ s \in todo
RoomInv ==
    /\ \A s \in Running :
          /\ Len(tokens[s]) - 1 <= Room(s)
          /\ ~HasItsSlots(s) => seen[s] < Len(tokens[s])
          /\ InOutputs(s) => Len(tokens[s]) + Len(proposal[s]) <= Room(s)
    /\ \A s \in batch :
          IF phase = "prefill"
          THEN \A b \in Range(table[s]) : b \in pending.fresh
          ELSE /\ Len(tokens[s]) + NumLookaheadSlots <= Room(s)
               /\ \A p \in Len(tokens[s])..Len(tokens[s]) + NumLookaheadSlots :
                     refCount[BlockAt(s, p)] = 1
    /\ \A s \in Seqs : proposal[s] # << >> => InOutputs(s)

\* Where the contents of a block are found, the copies of the round once made.
Sources(b) ==
    IF b \in pending.fresh THEN {x \in Blocks : <<x, b>> \in pending.copies} ELSE {b}

\* The first n positions of s, and of what was proposed for it, are in a cache.
Text(s) == tokens[s] \o proposal[s]
HoldsUpTo(cache, s, n) ==
    \A p \in 1..n : \E x \in Sources(BlockAt(s, p)) :
        cache[x][OffsetAt(p)] = SubSeq(Text(s), 1, p)

\* How far either model got with s: a new token is in neither cache, and of what
\* was proposed the last one is not in the draft model's.
TargetEnd(s) == IF InOutputs(s) THEN Len(tokens[s]) + Len(proposal[s]) ELSE Len(tokens[s]) - 1
DraftEnd(s) == IF InOutputs(s) /\ proposal[s] = << >> THEN Len(tokens[s])
               ELSE Len(tokens[s]) + Len(proposal[s]) - 1
Drafted(s) == setup = "speculative decoding" /\ Speculates(s)
FindsItsTokens(s) ==
    /\ HoldsUpTo(kv, s, TargetEnd(s))
    /\ Drafted(s) => HoldsUpTo(draft, s, DraftEnd(s))

Admitted(s) == phase = "prefill" /\ s \in batch
ContentInv == \A s \in Running : ~Admitted(s) => FindsItsTokens(s)

V2Inv == UsesV2 => SharingInv /\ RoomInv /\ ContentInv
HoldsTheirTokens == BlocksInv /\ UsesV2 /\ SharingInv /\ RoomInv /\ ContentInv

\* A position for which there is room is in a block of the sequence.
LEMMA BlockWithin ==
    ASSUME TypeInv, NEW s \in Seqs, NEW p \in Nat \ {0}, p <= Room(s)
    PROVE  /\ PlaceOf(p) \in DOMAIN table[s] /\ BlockAt(s, p) = table[s][PlaceOf(p)]
           /\ BlockAt(s, p) \in Range(table[s]) /\ BlockAt(s, p) \in Blocks
<1>1. table[s] \in Seq(Blocks) /\ Len(table[s]) \in Nat /\ DOMAIN table[s] = 1..Len(table[s])
  BY DEF TypeInv
<1>2. PlaceOf(p) \in DOMAIN table[s]
  BY <1>1, PlaceWithin DEF Room
<1>3. QED
  BY <1>1, <1>2 DEF BlockAt, PlaceOf, Range

\* No two positions share an entry.
LEMMA EntriesDiffer ==
    ASSUME TypeInv, TableInv, NEW s \in Seqs, NEW p \in Nat \ {0}, NEW q \in Nat \ {0},
           p <= Room(s), q <= Room(s), BlockAt(s, p) = BlockAt(s, q), OffsetAt(p) = OffsetAt(q)
    PROVE  p = q
<1>1. /\ PlaceOf(p) \in DOMAIN table[s] /\ BlockAt(s, p) = table[s][PlaceOf(p)]
      /\ PlaceOf(q) \in DOMAIN table[s] /\ BlockAt(s, q) = table[s][PlaceOf(q)]
  BY BlockWithin
<1>2. PlaceOf(p) = PlaceOf(q)
  BY <1>1 DEF TableInv, IsInjective
<1>3. QED
  BY <1>2, Places

\* A block with one reference is in one table.
LEMMA HeldAlone ==
    ASSUME TypeInv, CountsMatchTables, NEW s \in Seqs, NEW b \in Range(table[s]), NEW q \in Seqs,
           b \in Range(table[q]), refCount[b] = 1
    PROVE  q = s
<1>1. b \in Blocks
  BY DEF TypeInv, Range
<1>2. s \in Holders(b) /\ q \in Holders(b)
  BY DEF Holders
<1>3. Holders(b) = {s}
  BY <1>1, <1>2, HoldersCount
<1>4. QED
  BY <1>2, <1>3

\* A block in a table is not free.
LEMMA HeldIsNotFree ==
    ASSUME TypeInv, CountsMatchTables, NEW s \in Seqs, NEW b \in Range(table[s])
    PROVE  b \in Blocks /\ refCount[b] > 0 /\ \A pool : b \notin FreeIn(pool)
<1>1. PICK i \in DOMAIN table[s] : b = table[s][i]
  BY DEF Range
<1>2. b \in Blocks /\ refCount[b] > 0
  BY <1>1, HeldIsCounted
<1>3. QED
  BY <1>2 DEF FreeIn

LEMMA RoomIs ==
    ASSUME TypeInv, NEW s \in Seqs
    PROVE  /\ Room(s) \in Nat /\ Len(tokens[s]) \in Nat /\ Len(proposal[s]) \in Nat
           /\ Len(table[s]) \in Nat
<1>1. Len(tokens[s]) \in Nat /\ Len(proposal[s]) \in Nat /\ Len(table[s]) \in Nat
  BY DEF TypeInv
<1>2. QED
  BY <1>1, Products DEF Room

\* Neither model got further than there is room.
LEMMA EndsWithin ==
    ASSUME TypeInv, StatusInv, RoomInv, NEW s \in Running
    PROVE  /\ TargetEnd(s) \in Nat /\ DraftEnd(s) \in Nat
           /\ TargetEnd(s) <= Room(s) /\ DraftEnd(s) <= Room(s) /\ DraftEnd(s) <= TargetEnd(s)
           /\ Len(tokens[s]) > 0
<1>1. /\ s \in Seqs /\ Len(tokens[s]) \in Nat /\ Len(proposal[s]) \in Nat /\ Room(s) \in Nat
  BY RoomIs DEF Running
<1>2. tokens[s] # << >> /\ tokens[s] \in Seq(Tokens) /\ proposal[s] \in Seq(Tokens)
  BY <1>1 DEF Running, StatusInv, TypeInv
<1>3. Len(tokens[s]) > 0 /\ (proposal[s] = << >> => Len(proposal[s]) = 0)
      /\ (proposal[s] # << >> => Len(proposal[s]) > 0)
  BY <1>1, <1>2, EmptySeq
<1>4. /\ Len(tokens[s]) - 1 <= Room(s) /\ (proposal[s] # << >> => InOutputs(s))
      /\ InOutputs(s) => Len(tokens[s]) + Len(proposal[s]) <= Room(s)
  BY <1>1 DEF RoomInv
<1> DEFINE L == Len(tokens[s])
           P == Len(proposal[s])
           R == Room(s)
           T == TargetEnd(s)
           D == DraftEnd(s)
<1>5. CASE InOutputs(s)
  <2>1. T = L + P /\ D = IF proposal[s] = << >> THEN L ELSE L + P - 1
    BY <1>5 DEF TargetEnd, DraftEnd
  <2> HIDE DEF L, P, R, T, D
  <2>2. L \in Nat /\ P \in Nat /\ R \in Nat /\ L > 0 /\ L + P <= R
        /\ (proposal[s] # << >> => P > 0)
    BY <1>1, <1>3, <1>4, <1>5 DEF L, P, R
  <2>3. T \in Nat /\ D \in Nat /\ T <= R /\ D <= R /\ D <= T
    BY <2>1, <2>2
  <2>4. QED
    BY <1>3, <2>3 DEF T, D, R
<1>6. CASE ~InOutputs(s)
  <2>1. P = 0 /\ T = L - 1 /\ D = L + P - 1
    BY <1>3, <1>4, <1>6 DEF TargetEnd, DraftEnd
  <2> HIDE DEF L, P, R, T, D
  <2>2. L \in Nat /\ R \in Nat /\ L > 0 /\ L - 1 <= R
    BY <1>1, <1>3, <1>4 DEF L, R
  <2>3. T \in Nat /\ D \in Nat /\ T <= R /\ D <= R /\ D <= T
    BY <2>1, <2>2
  <2>4. QED
    BY <1>3, <2>3 DEF T, D, R
<1>7. QED
  BY <1>5, <1>6

\* A block in use is not new to the round, or it has one holder.
LEMMA FreshHaveOneHolder ==
    ASSUME TypeInv, SharingInv
    PROVE  /\ pending.fresh \subseteq Blocks
           /\ \A b \in pending.fresh : refCount[b] = 1
           /\ \A b \in Blocks : b \notin pending.fresh => Sources(b) = {b}
           /\ \A b \in Blocks : Sources(b) \subseteq Blocks
BY DEF TypeInv, SharingInv, Sources
\* A sequence finds its tokens again where its blocks, and what they are copied
\* from, are the same for the tokens it already had.
LEMMA TokensStay ==
    ASSUME UNCHANGED <<setup, kv, draft>>, NEW s \in Seqs, FindsItsTokens(s),
           TargetEnd(s) \in Nat, DraftEnd(s) \in Nat, TargetEnd(s)' \in Nat, DraftEnd(s)' \in Nat,
           TargetEnd(s)' <= TargetEnd(s), DraftEnd(s)' <= TargetEnd(s)',
           Drafted(s)' => Drafted(s) /\ DraftEnd(s)' <= DraftEnd(s),
           \A p \in 1..TargetEnd(s)' :
               /\ Sources(BlockAt(s, p))' = Sources(BlockAt(s, p))
               /\ SubSeq(Text(s), 1, p)' = SubSeq(Text(s), 1, p)
    PROVE  FindsItsTokens(s)'
<1> DEFINE T == TargetEnd(s)
           U == TargetEnd(s)'
           D == DraftEnd(s)
           F == DraftEnd(s)'
<1>1. T \in Nat /\ U \in Nat /\ D \in Nat /\ F \in Nat /\ U <= T /\ F <= U
  OBVIOUS
<1> HIDE DEF T, U, D, F
<1>2. 1..U \subseteq 1..T /\ 1..F \subseteq 1..U
  BY <1>1
<1>3. HoldsUpTo(kv, s, TargetEnd(s))'
  <2>1. ASSUME NEW p \in 1..U
        PROVE  \E x \in Sources(BlockAt(s, p))' : kv'[x][OffsetAt(p)] = SubSeq(Text(s), 1, p)'
    <3>1. PICK x \in Sources(BlockAt(s, p)) : kv[x][OffsetAt(p)] = SubSeq(Text(s), 1, p)
      BY <1>2 DEF FindsItsTokens, HoldsUpTo, T
    <3>2. QED
      BY <3>1 DEF U
  <2>2. QED
    BY <2>1 DEF HoldsUpTo, OffsetAt, U
<1>4. Drafted(s)' => HoldsUpTo(draft, s, DraftEnd(s))'
  <2>1. ASSUME Drafted(s)', NEW p \in 1..F
        PROVE  \E x \in Sources(BlockAt(s, p))' : draft'[x][OffsetAt(p)] = SubSeq(Text(s), 1, p)'
    <3>1. Drafted(s) /\ F <= D
      BY <2>1 DEF F, D
    <3>2. p \in 1..D /\ p \in 1..U
      BY <1>1, <1>2, <3>1
    <3>3. PICK x \in Sources(BlockAt(s, p)) : draft[x][OffsetAt(p)] = SubSeq(Text(s), 1, p)
      BY <3>1, <3>2 DEF FindsItsTokens, HoldsUpTo, D
    <3>4. QED
      BY <3>2, <3>3 DEF U
  <2>2. QED
    BY <2>1 DEF HoldsUpTo, OffsetAt, F
<1>5. QED
  BY <1>3, <1>4 DEF FindsItsTokens

\* So does one the step does not touch.
LEMMA UntouchedStays ==
    ASSUME HoldsTheirTokens, UNCHANGED <<setup, kv, draft>>, NEW s \in Running, FindsItsTokens(s),
           table'[s] = table[s], tokens'[s] = tokens[s], proposal'[s] = proposal[s],
           InOutputs(s)' <=> InOutputs(s),
           \A b \in Range(table[s]) : Sources(b)' = Sources(b)
    PROVE  FindsItsTokens(s)'
<1>1. TypeInv /\ StatusInv /\ RoomInv /\ s \in Seqs
  BY DEF HoldsTheirTokens, BlocksInv, Running
<1>2. /\ TargetEnd(s) \in Nat /\ DraftEnd(s) \in Nat
      /\ TargetEnd(s) <= Room(s) /\ DraftEnd(s) <= TargetEnd(s)
  BY <1>1, EndsWithin
<1>3. TargetEnd(s)' = TargetEnd(s) /\ DraftEnd(s)' = DraftEnd(s)
  BY DEF TargetEnd, DraftEnd
<1>4. Drafted(s)' <=> Drafted(s)
  BY DEF Drafted, Speculates, NumLookaheadSlots
<1>5. ASSUME NEW p \in 1..TargetEnd(s)
      PROVE  /\ Sources(BlockAt(s, p))' = Sources(BlockAt(s, p))
             /\ SubSeq(Text(s), 1, p)' = SubSeq(Text(s), 1, p)
  <2>1. p \in Nat \ {0} /\ p <= Room(s)
    BY <1>1, <1>2, RoomIs
  <2>2. PICK b \in Range(table[s]) : b = BlockAt(s, p)
    BY <1>1, <2>1, BlockWithin
  <2>3. BlockAt(s, p)' = b
    BY <2>2 DEF BlockAt
  <2>4. Sources(BlockAt(s, p))' = Sources(b)'
    BY <2>3 DEF Sources
  <2>5. SubSeq(Text(s), 1, p)' = SubSeq(Text(s), 1, p)
    BY DEF Text
  <2>6. QED
    BY <2>2, <2>4, <2>5
<1>6. QED
  BY <1>1, <1>2, <1>3, <1>4, <1>5, TokensStay

\* What the actions before the model runs leave alone.
LEMMA BeforeOutputs ==
    ASSUME HoldsTheirTokens, phase # "outputs"
    PROVE  /\ \A s \in Seqs : ~InOutputs(s) /\ proposal[s] = << >>
           /\ \A s \in Seqs : HasItsSlots(s) <=> s \in batch
           /\ pending.moves = {}
BY DEF HoldsTheirTokens, RoomInv, InOutputs, HasItsSlots, BlocksInv, RoundInv

LEMMA AddRequestHolds ==
    ASSUME HoldsTheirTokens, NEW r \in Requests, NEW p \in Prompts[r], AddRequest(r, p)
    PROVE  (SharingInv /\ RoomInv /\ ContentInv)'
<1>1. /\ TypeInv /\ StatusInv /\ RoundInv /\ SharingInv /\ RoomInv /\ ContentInv
  BY DEF HoldsTheirTokens, BlocksInv
<1>2. /\ phase = "idle" /\ Live(r) = {}
      /\ status' = [status EXCEPT ![First[r]] = "WAITING"]
      /\ tokens' = [tokens EXCEPT ![First[r]] = p]
      /\ UNCHANGED <<setup, phase, todo, batch, pending, table, hash, refCount, computed, seen,
                     kv, draft, proposal>>
  BY DEF AddRequest, blockVars, cacheVars
<1>3. First[r] \in Seqs /\ status[First[r]] = "UNUSED"
  BY <1>2, KVCacheAssumption DEF Live
<1>4. Running' = Running /\ First[r] \notin Running
  BY <1>1, <1>2, <1>3 DEF Running, TypeInv
<1>5. \A s \in Running : tokens'[s] = tokens[s] /\ s \in Seqs
  BY <1>1, <1>2, <1>4 DEF Running, TypeInv
<1>6. batch = {} /\ pending = NothingPending
  BY <1>1, <1>2 DEF RoundInv
<1>7. SharingInv'
  <2>1. pending.fresh = {} /\ pending.copies = {}
    BY <1>6 DEF NothingPending
  <2>2. QED
    BY <1>1, <1>2, <2>1 DEF SharingInv, NumLookaheadSlots
<1>8. RoomInv'
  BY <1>1, <1>2, <1>4, <1>5, <1>6 DEF RoomInv, Room, HasItsSlots, InOutputs
<1>9. ContentInv'
  <2>1. ASSUME NEW s \in Running
        PROVE  FindsItsTokens(s)'
    <3>1. FindsItsTokens(s)
      BY <1>1, <1>2 DEF ContentInv, Admitted
    <3>2. \A b : Sources(b)' = Sources(b)
      BY <1>2 DEF Sources
    <3>3. QED
      BY <1>2, <1>5, <3>1, <3>2, UntouchedStays DEF InOutputs
  <2>2. QED
    BY <1>4, <2>1 DEF ContentInv
<1>10. QED
  BY <1>7, <1>8, <1>9

LEMMA StartDecodeHolds ==
    ASSUME HoldsTheirTokens, StartDecode
    PROVE  (SharingInv /\ RoomInv /\ ContentInv)'
<1>1. /\ TypeInv /\ StatusInv /\ RoundInv /\ SharingInv /\ RoomInv /\ ContentInv
  BY DEF HoldsTheirTokens, BlocksInv
<1>2. /\ phase = "idle" /\ phase' = "decode"
      /\ UNCHANGED <<setup, status, tokens, batch, pending, table, refCount, seen,
                     kv, draft, proposal>>
  BY DEF StartDecode, seqVars, blockVars, cacheVars
<1>3. Running' = Running /\ \A s \in Running : s \in Seqs
  BY <1>2 DEF Running
<1>4. batch = {} /\ pending = NothingPending
  BY <1>1, <1>2 DEF RoundInv
<1>5. SharingInv'
  <2>1. pending.fresh = {} /\ pending.copies = {}
    BY <1>4 DEF NothingPending
  <2>2. QED
    BY <1>1, <1>2, <2>1 DEF SharingInv, NumLookaheadSlots
<1>6. RoomInv'
  BY <1>1, <1>2, <1>3, <1>4 DEF RoomInv, Room, HasItsSlots, InOutputs
<1>7. ContentInv'
  <2>1. ASSUME NEW s \in Running
        PROVE  FindsItsTokens(s)'
    <3>1. FindsItsTokens(s)
      BY <1>1, <1>2 DEF ContentInv, Admitted
    <3>2. \A b : Sources(b)' = Sources(b)
      BY <1>2 DEF Sources
    <3>3. QED
      BY <1>2, <1>3, <3>1, <3>2, UntouchedStays DEF InOutputs
  <2>2. QED
    BY <1>3, <2>1 DEF ContentInv
<1>8. QED
  BY <1>5, <1>6, <1>7
\* A prompt is given free blocks, so none that another sequence holds.
LEMMA AdmitHolds ==
    ASSUME HoldsTheirTokens, NEW s \in Seqs, Admit(s)
    PROVE  (SharingInv /\ RoomInv /\ ContentInv)'
<1>1. /\ TypeInv /\ StatusInv /\ RoundInv /\ TableInv /\ SharingInv /\ RoomInv /\ ContentInv
      /\ BlocksInv /\ UsesV2 /\ CountsMatchTables
  BY DEF HoldsTheirTokens, BlocksInv, TableInv
<1>2. /\ phase \in {"idle", "prefill"} /\ phase' = "prefill" /\ status[s] = "WAITING"
      /\ AllocateTableV2(s) /\ SetStatus({s}, "RUNNING") /\ batch' = batch \cup {s}
      /\ UNCHANGED <<setup, tokens, arrival, todo, kv, draft, proposal>>
  BY <1>1 DEF Admit, cacheVars
<1>3. /\ \A q \in Seqs : q # s => table'[q] = table[q] /\ seen'[q] = seen[q]
      /\ Len(table'[s]) = NumBlocks(s)
      /\ Range(table'[s]) \subseteq FreeIn(GpuBlocks)
      /\ \A b \in Blocks : refCount'[b] = IF b \in Range(table'[s]) THEN 1 ELSE refCount[b]
      /\ pending'.copies = pending.copies /\ pending'.fresh = pending.fresh \cup Range(table'[s])
  BY <1>1, <1>2, AllocateTableV2Keeps
<1> DEFINE N == Range(table'[s])
<1>4. \A q \in Seqs, b \in Blocks : b \in Range(table[q]) => b \notin N /\ refCount[b] > 0
  BY <1>1, <1>3, HeldIsNotFree
<1>5. /\ Running' = Running \cup {s} /\ s \notin Running /\ table[s] = << >>
      /\ \A q \in Running : Group(q) \subseteq Group(q)'
  <2>1. \A q \in Seqs : status'[q] = IF q = s THEN "RUNNING" ELSE status[q]
    BY <1>2 DEF SetStatus
  <2>2. QED
    BY <1>1, <1>2, <2>1 DEF Running, Group, SeqsWith, StatusInv, Placed
<1>6. s \notin batch /\ batch \subseteq Running /\ (phase = "idle" => batch = {})
  BY <1>1, <1>5 DEF RoundInv
<1>7. \A q \in Seqs : Range(table[q]) \subseteq Blocks
  BY <1>1 DEF TypeInv, Range
<1>8. N \subseteq Blocks /\ \A b \in N : refCount[b] = 0
  BY <1>3 DEF FreeIn, Blocks
<1>9. \A b \in pending.fresh : b \in Blocks /\ refCount[b] = 1 /\ b \notin N
  BY <1>1, <1>8, FreshHaveOneHolder
<1> HIDE DEF N
<1>10. ASSUME NEW q \in Seqs, q # s
       PROVE  Range(table'[q]) = Range(table[q])
  BY <1>3, <1>10
<1>11. Range(table[s]) = {}
  <2>1. table[s] = << >>
    BY <1>5
  <2>2. QED
    BY <2>1 DEF Range
<1>12. SharingInv'
  <2>1. ASSUME NEW q1 \in Seqs, NEW q2 \in Seqs, Range(table'[q1]) \cap Range(table'[q2]) # {}
        PROVE  Owner[q1] = Owner[q2]
    <3>1. CASE q1 # s /\ q2 # s
      BY <1>1, <1>10, <2>1, <3>1 DEF SharingInv
    <3>2. CASE q1 = s /\ q2 # s
      BY <1>4, <1>7, <1>10, <2>1, <3>2 DEF N
    <3>3. CASE q1 # s /\ q2 = s
      BY <1>4, <1>7, <1>10, <2>1, <3>3 DEF N
    <3>4. QED
      BY <3>1, <3>2, <3>3
  <2>2. NumLookaheadSlots' > 0 => \A b \in Blocks : refCount'[b] <= 1
    <3>1. NumLookaheadSlots' = NumLookaheadSlots
      BY <1>2 DEF NumLookaheadSlots
    <3>2. NumLookaheadSlots > 0 => \A b \in Blocks : refCount[b] <= 1
      BY <1>1 DEF SharingInv
    <3>3. QED
      BY <1>3, <3>1, <3>2
  <2>3. ASSUME NEW b \in pending'.fresh
        PROVE  refCount'[b] = 1 /\ \E q \in batch' : b \in Range(table'[q])
    <3>1. CASE b \in N
      BY <1>2, <1>3, <1>8, <3>1 DEF N
    <3>2. CASE b \notin N
      <4>1. b \in pending.fresh
        BY <1>3, <3>2 DEF N
      <4>2. PICK q \in batch : b \in Range(table[q])
        BY <1>1, <4>1 DEF SharingInv
      <4>3. q \in Seqs /\ q # s /\ q \in batch'
        BY <1>2, <1>6, <4>2 DEF Running
      <4>4. QED
        BY <1>3, <1>9, <1>10, <3>2, <4>1, <4>2, <4>3 DEF N
    <3>3. QED
      BY <3>1, <3>2
  <2>4. ASSUME NEW x \in pending'.copies
        PROVE  /\ x[2] \in pending'.fresh /\ x[1] \notin pending'.fresh
               /\ \A y \in pending'.copies : y[2] = x[2] => y[1] = x[1]
               /\ \E q \in Running' : x[1] \in Range(table'[q]) /\ Group(q)' \cap batch' # {}
    <3>1. x \in pending.copies /\ x[1] \in Blocks
      BY <1>1, <1>3 DEF TypeInv
    <3>2. /\ x[2] \in pending.fresh /\ x[1] \notin pending.fresh
          /\ \A y \in pending.copies : y[2] = x[2] => y[1] = x[1]
          /\ \E q \in Running : x[1] \in Range(table[q]) /\ Group(q) \cap batch # {}
      BY <1>1, <3>1 DEF SharingInv
    <3>3. PICK q \in Running : x[1] \in Range(table[q]) /\ Group(q) \cap batch # {}
      BY <3>2
    <3>4. q \in Seqs /\ q # s
      BY <1>5 DEF Running
    <3>5. x[1] \notin N
      BY <1>4, <3>1, <3>3, <3>4
    <3>6. q \in Running' /\ x[1] \in Range(table'[q]) /\ Group(q)' \cap batch' # {}
      BY <1>2, <1>5, <1>10, <3>3, <3>4
    <3>7. QED
      BY <1>3, <3>2, <3>5, <3>6 DEF N
  <2>5. QED
    BY <2>1, <2>2, <2>3, <2>4 DEF SharingInv
<1>13. \A q \in Seqs : ~InOutputs(q) /\ proposal[q] = << >> /\ (HasItsSlots(q) <=> q \in batch)
  BY <1>2, BeforeOutputs
<1>14. RoomInv'
  <2>1. ASSUME NEW q \in Running'
        PROVE  /\ Len(tokens'[q]) - 1 <= Room(q)'
               /\ ~HasItsSlots(q)' => seen'[q] < Len(tokens'[q])
               /\ ~InOutputs(q)'
    <3>1. CASE q = s
      <4>1. HasItsSlots(q)' /\ ~InOutputs(q)'
        BY <1>2, <3>1 DEF HasItsSlots, InOutputs
      <4>2. Len(tokens[s]) \in Nat
        BY <1>1 DEF TypeInv
      <4>3. NumBlocks(s) * BlockSize \in Nat /\ Len(tokens[s]) <= NumBlocks(s) * BlockSize
        BY <4>2, CeilIs, Products DEF NumBlocks
      <4>4. Room(q)' = NumBlocks(s) * BlockSize /\ tokens'[q] = tokens[s]
        BY <1>2, <1>3, <3>1 DEF Room
      <4>5. QED
        BY <4>1, <4>2, <4>3, <4>4
    <3>2. CASE q # s
      <4>1. q \in Running /\ q \in Seqs
        BY <1>5, <3>2 DEF Running
      <4>2. HasItsSlots(q)' <=> HasItsSlots(q)
        BY <1>2, <1>13, <3>2, <4>1 DEF HasItsSlots
      <4>3. ~InOutputs(q)'
        BY <1>2 DEF InOutputs
      <4>4. Room(q)' = Room(q) /\ seen'[q] = seen[q] /\ tokens'[q] = tokens[q]
        BY <1>2, <1>3, <3>2, <4>1 DEF Room
      <4>5. QED
        BY <1>1, <4>1, <4>2, <4>3, <4>4 DEF RoomInv
    <3>3. QED
      BY <3>1, <3>2
  <2>2. ASSUME NEW q \in batch'
        PROVE  \A b \in Range(table'[q]) : b \in pending'.fresh
    <3>1. CASE q = s
      BY <1>3, <3>1
    <3>2. CASE q # s
      <4>1. q \in batch /\ phase = "prefill" /\ q \in Seqs
        BY <1>2, <1>6, <2>2, <3>2 DEF Running
      <4>2. QED
        BY <1>1, <1>3, <1>10, <3>2, <4>1 DEF RoomInv
    <3>3. QED
      BY <3>1, <3>2
  <2>3. \A q \in Seqs : proposal'[q] = << >>
    BY <1>2, <1>13
  <2>4. QED
    BY <1>2, <2>1, <2>2, <2>3 DEF RoomInv
<1>15. ContentInv'
  <2>1. ASSUME NEW q \in Running', ~Admitted(q)'
        PROVE  FindsItsTokens(q)'
    <3>1. q # s /\ q \in Running /\ q \in Seqs /\ q \notin batch
      BY <1>2, <1>5, <2>1 DEF Admitted, Running
    <3>2. FindsItsTokens(q)
      BY <1>1, <3>1 DEF ContentInv, Admitted
    <3>3. ASSUME NEW b \in Range(table[q])
          PROVE  Sources(b)' = Sources(b)
      <4>1. b \notin N
        BY <1>4, <1>7, <3>1, <3>3
      <4>2. b \in pending'.fresh <=> b \in pending.fresh
        BY <1>3, <4>1 DEF N
      <4>3. QED
        BY <1>3, <4>2 DEF Sources
    <3>4. InOutputs(q)' <=> InOutputs(q)
      BY <1>2, <1>13, <3>1 DEF InOutputs
    <3>5. QED
      BY <1>2, <1>3, <3>1, <3>2, <3>3, <3>4, UntouchedStays
  <2>2. QED
    BY <2>1 DEF ContentInv
<1>16. QED
  BY <1>12, <1>14, <1>15

\* The last group of the queue has no part in the round: no block that is new or
\* copied is taken from it.
LEMMA PreemptByRecomputeHolds ==
    ASSUME HoldsTheirTokens, NEW s \in Seqs, PreemptByRecompute(s)
    PROVE  (SharingInv /\ RoomInv /\ ContentInv)'
<1>1. /\ TypeInv /\ StatusInv /\ RoundInv /\ TableInv /\ SharingInv /\ RoomInv /\ ContentInv
      /\ BlocksInv /\ UsesV2 /\ CountsMatchTables
  BY DEF HoldsTheirTokens, BlocksInv, TableInv
<1>2. /\ Decoding /\ Victim(s) /\ FreeTables({s}) /\ SetStatus({s}, "WAITING")
      /\ phase' = "preempted" /\ phase \in {"decode", "preempted"} /\ todo' = todo \ {s}
      /\ UNCHANGED <<setup, tokens, batch, pending, kv, draft, proposal>>
  BY DEF PreemptByRecompute, cacheVars, Decoding
<1>3. s \in todo /\ s \in Running /\ s \notin batch /\ batch \subseteq Running
      /\ Running \subseteq Seqs
  BY <1>1, <1>2 DEF Victim, Latest, RoundInv, Running
<1>4. Group(s) \cap batch = {}
  BY <1>1, <1>2, VictimHasNone
<1>5. /\ \A q \in Seqs : table'[q] = IF q = s THEN << >> ELSE table[q]
      /\ \A q \in Seqs : seen'[q] = IF q = s THEN 0 ELSE seen[q]
  BY <1>2 DEF FreeTables
<1>6. ASSUME NEW b \in Blocks
      PROVE  /\ refCount'[b] <= refCount[b]
             /\ b \notin Range(table[s]) => refCount'[b] = refCount[b]
  <2> DEFINE H == {q \in {s} : b \in Range(table[q])}
  <2>1. refCount'[b] = refCount[b] - Cardinality(H)
    BY <1>2 DEF FreeTables, NumFrees
  <2>2. Cardinality(H) \in Nat /\ refCount[b] \in Nat
    BY <1>1, SeqSets DEF TypeInv
  <2>3. b \notin Range(table[s]) => H = {}
    OBVIOUS
  <2> HIDE DEF H
  <2>4. b \notin Range(table[s]) => Cardinality(H) = 0
    BY <2>3, FS_EmptySet
  <2>5. QED
    BY <2>1, <2>2, <2>4
<1>7. /\ Running' = Running \ {s}
      /\ \A q \in Running : q # s => Group(q)' = Group(q) \ {s}
  <2>1. \A q \in Seqs : status'[q] = IF q = s THEN "WAITING" ELSE status[q]
    BY <1>2 DEF SetStatus
  <2>2. QED
    BY <2>1 DEF Running, Group, SeqsWith
<1>8. ASSUME NEW q \in batch, NEW b \in Range(table[q]), refCount[b] = 1
      PROVE  b \in Blocks /\ refCount'[b] = 1
  <2>1. q \in Seqs /\ q # s
    BY <1>3
  <2>2. b \in Blocks
    BY <1>1, <2>1 DEF TypeInv, Range
  <2>3. b \notin Range(table[s])
    BY <1>1, <1>8, <2>1, HeldAlone
  <2>4. QED
    BY <1>6, <1>8, <2>2, <2>3
<1>9. \A q \in Seqs : Range(table'[q]) \subseteq Range(table[q])
  <2>1. ASSUME NEW q \in Seqs
        PROVE  Range(table'[q]) \subseteq Range(table[q])
    <3>1. q = s => Range(table'[q]) = {}
      BY <1>5 DEF Range
    <3>2. QED
      BY <1>5, <3>1
  <2>2. QED
    BY <2>1
<1>10. SharingInv'
  <2>1. \A q1, q2 \in Seqs : Range(table'[q1]) \cap Range(table'[q2]) # {} => Owner[q1] = Owner[q2]
    BY <1>1, <1>9 DEF SharingInv
  <2>2. NumLookaheadSlots' > 0 => \A b \in Blocks : refCount'[b] <= 1
    <3>1. ASSUME NumLookaheadSlots' > 0, NEW b \in Blocks
          PROVE  refCount'[b] <= 1
      <4>1. refCount[b] <= 1 /\ refCount[b] \in Nat
        BY <1>1, <1>2, <3>1 DEF SharingInv, NumLookaheadSlots, TypeInv
      <4>2. CASE b \notin Range(table[s])
        BY <1>6, <4>1, <4>2
      <4>3. CASE b \in Range(table[s])
        <5>1. BlockInv'
          <6>1. \A q \in Seqs : q \notin {s} => status'[q] = status[q]
            BY <1>2 DEF SetStatus
          <6>2. QED
            BY <1>1, <1>2, <6>1, FreeTablesKeep
        <5>2. refCount'[b] \in Nat
          BY <5>1 DEF BlockInv, BlockTypes
        <5>3. QED
          BY <1>6, <4>1, <5>2
      <4>4. QED
        BY <4>2, <4>3
    <3>2. QED
      BY <3>1
  <2>3. ASSUME NEW b \in pending'.fresh
        PROVE  refCount'[b] = 1 /\ \E q \in batch' : b \in Range(table'[q])
    <3>1. refCount[b] = 1 /\ \E q \in batch : b \in Range(table[q])
      BY <1>1, <1>2 DEF SharingInv
    <3>2. PICK q \in batch : b \in Range(table[q])
      BY <3>1
    <3>3. q \in Seqs /\ q # s
      BY <1>3
    <3>4. QED
      BY <1>2, <1>5, <1>8, <3>1, <3>2, <3>3
  <2>4. ASSUME NEW x \in pending'.copies
        PROVE  /\ x[2] \in pending'.fresh /\ x[1] \notin pending'.fresh
               /\ \A y \in pending'.copies : y[2] = x[2] => y[1] = x[1]
               /\ \E q \in Running' : x[1] \in Range(table'[q]) /\ Group(q)' \cap batch' # {}
    <3>1. /\ x[2] \in pending.fresh /\ x[1] \notin pending.fresh
          /\ \A y \in pending.copies : y[2] = x[2] => y[1] = x[1]
          /\ \E q \in Running : x[1] \in Range(table[q]) /\ Group(q) \cap batch # {}
      BY <1>1, <1>2 DEF SharingInv
    <3>2. PICK q \in Running : x[1] \in Range(table[q]) /\ Group(q) \cap batch # {}
      BY <3>1
    <3>3. q # s /\ q \in Seqs
      BY <1>3, <1>4, <3>2
    <3>4. q \in Running' /\ x[1] \in Range(table'[q]) /\ Group(q)' \cap batch' # {}
      BY <1>2, <1>3, <1>5, <1>7, <3>2, <3>3
    <3>5. QED
      BY <1>2, <3>1, <3>4
  <2>5. QED
    BY <2>1, <2>2, <2>3, <2>4 DEF SharingInv
<1>11. \A q \in Seqs : ~InOutputs(q) /\ proposal[q] = << >> /\ (HasItsSlots(q) <=> q \in batch)
  BY <1>2, BeforeOutputs
<1>12. \A q \in Seqs : ~InOutputs(q)' /\ (HasItsSlots(q)' <=> q \in batch)
  BY <1>2 DEF InOutputs, HasItsSlots
<1>13. RoomInv'
  <2>1. ASSUME NEW q \in Running'
        PROVE  /\ Len(tokens'[q]) - 1 <= Room(q)'
               /\ ~HasItsSlots(q)' => seen'[q] < Len(tokens'[q])
    <3>1. q # s /\ q \in Running /\ q \in Seqs
      BY <1>3, <1>7
    <3>2. Room(q)' = Room(q) /\ seen'[q] = seen[q] /\ tokens'[q] = tokens[q]
      BY <1>2, <1>5, <3>1 DEF Room
    <3>3. QED
      BY <1>1, <1>11, <1>12, <3>1, <3>2 DEF RoomInv
  <2>2. ASSUME NEW q \in batch'
        PROVE  /\ Len(tokens'[q]) + NumLookaheadSlots' <= Room(q)'
               /\ \A p \in Len(tokens'[q])..Len(tokens'[q]) + NumLookaheadSlots' :
                     refCount'[BlockAt(q, p)'] = 1
    <3>1. q \in batch /\ q \in Seqs /\ q # s /\ q \in Running
      BY <1>2, <1>3, <2>2
    <3>2. Room(q)' = Room(q) /\ tokens'[q] = tokens[q] /\ NumLookaheadSlots' = NumLookaheadSlots
      BY <1>2, <1>5, <3>1 DEF Room, NumLookaheadSlots
    <3>3. /\ Len(tokens[q]) + NumLookaheadSlots <= Room(q)
          /\ \A p \in Len(tokens[q])..Len(tokens[q]) + NumLookaheadSlots :
                refCount[BlockAt(q, p)] = 1
      BY <1>1, <1>2, <3>1 DEF RoomInv
    <3>4. ASSUME NEW p \in Len(tokens[q])..Len(tokens[q]) + NumLookaheadSlots
          PROVE  refCount'[BlockAt(q, p)'] = 1
      <4>1. Len(tokens[q]) \in Nat /\ Len(tokens[q]) > 0 /\ Room(q) \in Nat /\ NumLookaheadSlots \in Nat
        BY <1>1, <3>1, EndsWithin, RoomIs, LookaheadIs
      <4>2. p \in Nat \ {0} /\ p <= Room(q)
        BY <3>3, <4>1
      <4>3. PICK b \in Range(table[q]) : b = BlockAt(q, p)
        BY <1>1, <3>1, <4>2, BlockWithin
      <4>4. BlockAt(q, p)' = b
        BY <1>5, <3>1, <4>3 DEF BlockAt
      <4>5. QED
        BY <1>8, <3>1, <3>3, <4>3, <4>4
    <3>5. QED
      BY <3>2, <3>3, <3>4
  <2>3. \A q \in Seqs : proposal'[q] = << >>
    BY <1>2, <1>11
  <2>4. QED
    BY <1>2, <1>12, <2>1, <2>2, <2>3 DEF RoomInv, Running
<1>14. ContentInv'
  <2>1. ASSUME NEW q \in Running'
        PROVE  FindsItsTokens(q)'
    <3>1. q # s /\ q \in Running /\ q \in Seqs
      BY <1>3, <1>7
    <3>2. FindsItsTokens(q)
      BY <1>1, <1>2, <3>1 DEF ContentInv, Admitted
    <3>3. \A b : Sources(b)' = Sources(b)
      BY <1>2 DEF Sources
    <3>4. QED
      BY <1>2, <1>5, <1>11, <1>12, <3>1, <3>2, <3>3, UntouchedStays
  <2>2. QED
    BY <2>1 DEF ContentInv
<1>15. QED
  BY <1>10, <1>13, <1>14
\* Division by the block size keeps the order.
LEMMA DivMonotone ==
    ASSUME NEW m \in Nat, NEW n \in Nat, m <= n
    PROVE  m \div BlockSize <= n \div BlockSize
<1> DEFINE i == m \div BlockSize
           j == n \div BlockSize
<1>1. /\ BlockSize \in Nat /\ BlockSize > 0 /\ i \in Nat /\ j \in Nat
      /\ m % BlockSize \in 0..BlockSize - 1 /\ m = i * BlockSize + (m % BlockSize)
      /\ n % BlockSize \in 0..BlockSize - 1 /\ n = j * BlockSize + (n % BlockSize)
  <2>1. /\ i \in Nat /\ m % BlockSize \in 0..BlockSize - 1
        /\ m = i * BlockSize + (m % BlockSize)
    BY DivMod
  <2>2. /\ j \in Nat /\ n % BlockSize \in 0..BlockSize - 1
        /\ n = j * BlockSize + (n % BlockSize)
    BY DivMod
  <2> HIDE DEF i, j
  <2>3. QED
    BY <2>1, <2>2, KVCacheAssumption
<1> HIDE DEF i, j
<1>2. i * BlockSize \in Nat /\ j * BlockSize \in Nat /\ (j + 1) * BlockSize = j * BlockSize + BlockSize
  BY <1>1
<1>3. i * BlockSize <= m /\ n < (j + 1) * BlockSize
  BY <1>1, <1>2
<1>4. QED
  BY <1>1, <1>3, BlockIndex DEF i, j

\* A block in a table that has a second reference is in the table of another
\* sequence of the group.
LEMMA SharedInGroup ==
    ASSUME HoldsTheirTokens, NEW s \in Running, NEW b \in Range(table[s]), refCount[b] > 1
    PROVE  \E q \in Running : q # s /\ b \in Range(table[q]) /\ Group(q) = Group(s)
<1>1. /\ TypeInv /\ StatusInv /\ TableInv /\ CountsMatchTables /\ SharingInv /\ UsesV2
      /\ s \in Seqs /\ status[s] = "RUNNING"
  BY DEF HoldsTheirTokens, BlocksInv, TableInv, Running
<1>2. b \in Blocks
  BY <1>1 DEF TypeInv, Range
<1>3. s \in Holders(b)
  BY <1>1 DEF Holders
<1>4. Holders(b) # {s}
  BY <1>1, <1>2, <1>3, HoldersCount
<1>5. PICK q \in Holders(b) : q # s
  BY <1>3, <1>4
<1>6. q \in Seqs /\ b \in Range(table[q])
  BY <1>5 DEF Holders
<1>7. Owner[q] = Owner[s]
  BY <1>1, <1>6 DEF SharingInv
<1>8. table[q] # << >>
  BY <1>6 DEF Range
<1>9. Placed(q)
  BY <1>1, <1>6, <1>8 DEF StatusInv
<1>10. q \in Running
  BY <1>1, <1>6, <1>9 DEF StatusInv, Swapped, Placed, Running
<1>11. QED
  BY <1>5, <1>6, <1>7, <1>10 DEF Group

\* What append_slots() does to the table of s and to the blocks of others.
LEMMA SlotsAreOwn ==
    ASSUME HoldsTheirTokens, NEW s \in Running, NEW N \in SUBSET Blocks, TokensAppended(s, N)
    PROVE  /\ \A q \in Seqs, b \in Blocks : b \in Range(table[q]) => b \notin N /\ refCount[b] > 0
           /\ \A b \in pending.fresh : b \notin N /\ refCount'[b] = 1
           /\ \A b \in Blocks : refCount[b] = 1 => b \in N \/ refCount'[b] = 1
           /\ \A b \in N : refCount'[b] = 1 /\ b \in Range(table'[s])
           /\ \A b \in Range(table'[s]) : b \in N \/ b \in Range(table[s])
           /\ \A b \in Blocks : refCount'[b] <= IF b \in N THEN 1 ELSE refCount[b]
           /\ \A i \in DOMAIN table[s] : i \in DOMAIN table'[s]
           /\ pending'.fresh = pending.fresh \cup N
           /\ pending'.copies = pending.copies
                                  \cup {<<table[s][i], table'[s][i]>> : i \in Shared(s)}
<1>1. /\ TypeInv /\ TableInv /\ CountsMatchTables /\ SharingInv /\ s \in Seqs
  BY DEF HoldsTheirTokens, BlocksInv, TableInv, Running
<1>2. /\ N \subseteq FreeIn(GpuBlocks) /\ N \subseteq Range(table'[s])
      /\ table' \in [Seqs -> Seq(Blocks)] /\ Len(table'[s]) = Len(table[s]) + NumMissing(s)
      /\ DOMAIN table'[s] = 1..Len(table[s]) + NumMissing(s)
      /\ \A i \in DOMAIN table'[s] : IF i \in DOMAIN table[s] /\ i \notin Shared(s)
                                     THEN table'[s][i] = table[s][i] ELSE table'[s][i] \in N
      /\ refCount' = [b \in Blocks |-> IF b \in N THEN 1 ELSE IF \E i \in Shared(s) : table[s][i] = b
                                       THEN refCount[b] - 1 ELSE refCount[b]]
      /\ AddPending({<<table[s][i], table'[s][i]>> : i \in Shared(s)}, {}, N)
  BY DEF TokensAppended
<1>3. /\ \A i \in Shared(s) : i \in 1..Len(table[s]) /\ i \in Nat /\ refCount[table[s][i]] > 1
      /\ table[s] \in Seq(Blocks) /\ DOMAIN table[s] = 1..Len(table[s]) /\ Len(table[s]) \in Nat
  BY <1>1, SharedIs
<1>4. \A b \in N : b \in Blocks /\ refCount[b] = 0
  BY <1>2 DEF FreeIn
<1>5. \A q \in Seqs, b \in Blocks : b \in Range(table[q]) => b \notin N /\ refCount[b] > 0
  <2>1. ASSUME NEW q \in Seqs, NEW b \in Blocks, b \in Range(table[q])
        PROVE  b \notin N /\ refCount[b] > 0
    <3>1. refCount[b] > 0
      BY <1>1, <2>1, HeldIsNotFree
    <3>2. QED
      BY <1>4, <3>1
  <2>2. QED
    BY <2>1
<1>6. \A b \in Blocks : refCount[b] = 1 => b \in N \/ refCount'[b] = 1
  <2>1. ASSUME NEW b \in Blocks, refCount[b] = 1, b \notin N
        PROVE  refCount'[b] = 1
    <3>1. ~(\E i \in Shared(s) : table[s][i] = b)
      BY <1>3, <2>1
    <3>2. QED
      BY <1>2, <2>1, <3>1
  <2>2. QED
    BY <2>1
<1>7. \A b \in pending.fresh : b \notin N /\ refCount'[b] = 1
  <2>1. ASSUME NEW b \in pending.fresh
        PROVE  b \notin N /\ refCount'[b] = 1
    <3>1. b \in Blocks /\ refCount[b] = 1
      BY <1>1, FreshHaveOneHolder
    <3>2. b \notin N
      BY <1>4, <3>1
    <3>3. QED
      BY <1>6, <3>1, <3>2
  <2>2. QED
    BY <2>1
<1>8. \A b \in Range(table'[s]) : b \in N \/ b \in Range(table[s])
  <2>1. ASSUME NEW b \in Range(table'[s]), b \notin N
        PROVE  b \in Range(table[s])
    <3>1. PICK i \in DOMAIN table'[s] : b = table'[s][i]
      BY DEF Range
    <3>2. i \in DOMAIN table[s] /\ table'[s][i] = table[s][i]
      BY <1>2, <2>1, <3>1
    <3>3. QED
      BY <3>1, <3>2 DEF Range
  <2>2. QED
    BY <2>1
<1>9. \A b \in Blocks : refCount'[b] <= IF b \in N THEN 1 ELSE refCount[b]
  <2>1. ASSUME NEW b \in Blocks
        PROVE  refCount'[b] <= IF b \in N THEN 1 ELSE refCount[b]
    <3>1. refCount[b] \in Nat
      BY <1>1 DEF TypeInv
    <3>2. refCount'[b] = IF b \in N THEN 1 ELSE IF \E i \in Shared(s) : table[s][i] = b
                                       THEN refCount[b] - 1 ELSE refCount[b]
      BY <1>2
    <3>3. QED
      BY <3>1, <3>2
  <2>2. QED
    BY <2>1
<1>10. \A i \in DOMAIN table[s] : i \in DOMAIN table'[s]
  <2>1. ASSUME NEW i \in DOMAIN table[s]
        PROVE  i \in DOMAIN table'[s]
    <3>1. Len(table'[s]) \in Nat /\ Len(table'[s]) = Len(table[s]) + NumMissing(s)
          /\ DOMAIN table'[s] = 1..Len(table'[s])
      BY <1>1, <1>2
    <3>2. i \in DOMAIN table[s] /\ i \in 1..Len(table[s])
      BY <1>3, <2>1
    <3>3. Len(table[s]) <= Len(table'[s])
      <4>1. NumMissing(s) \in Nat
        <5>1. BlocksInv /\ UsesV2
          BY DEF HoldsTheirTokens
        <5>2. tokens[s] # << >> /\ Placed(s)
          BY <5>1, RunningFits
        <5>3. seen[s] <= Len(tokens[s]) /\ seen[s] <= Len(table[s]) * BlockSize
          BY <1>1, <5>1, <5>2 DEF BlocksInv, FitInv
        <5>4. QED
          BY <1>1, <5>2, <5>3, SlotsFit
      <4>2. QED
        BY <1>3, <3>1, <4>1
    <3>4. QED
      BY <1>3, <3>1, <3>2, <3>3
  <2>2. QED
    BY <2>1
<1>11. /\ pending'.fresh = pending.fresh \cup N
       /\ pending'.copies = pending.copies \cup {<<table[s][i], table'[s][i]>> : i \in Shared(s)}
  BY <1>2 DEF AddPending
<1>12. \A b \in N : refCount'[b] = 1 /\ b \in Range(table'[s])
  BY <1>2, <1>4
<1>13. QED
  BY <1>5, <1>6, <1>7, <1>8, <1>9, <1>10, <1>11, <1>12
\* Slots are appended to blocks of the sequence alone: what it shared it copies,
\* and another of the group still holds the original.
LEMMA AppendSlotsShares ==
    ASSUME HoldsTheirTokens, NEW s \in Running, s \in todo, NEW N \in SUBSET Blocks,
           TokensAppended(s, N), UNCHANGED <<setup, status>>, batch' = batch \cup {s}
    PROVE  SharingInv'
<1>1. /\ TypeInv /\ RoundInv /\ TableInv /\ SharingInv /\ s \in Seqs /\ s \notin batch
      /\ batch \subseteq Running /\ Running \subseteq Seqs
  BY DEF HoldsTheirTokens, BlocksInv, RoundInv, Running
<1>2. /\ \A q \in Seqs, b \in Blocks : b \in Range(table[q]) => b \notin N /\ refCount[b] > 0
      /\ \A b \in pending.fresh : b \notin N /\ refCount'[b] = 1
      /\ \A b \in N : refCount'[b] = 1 /\ b \in Range(table'[s])
      /\ \A b \in Range(table'[s]) : b \in N \/ b \in Range(table[s])
      /\ \A b \in Blocks : refCount'[b] <= IF b \in N THEN 1 ELSE refCount[b]
      /\ \A i \in DOMAIN table[s] : i \in DOMAIN table'[s]
      /\ pending'.fresh = pending.fresh \cup N
      /\ pending'.copies = pending.copies \cup {<<table[s][i], table'[s][i]>> : i \in Shared(s)}
  BY SlotsAreOwn
<1>3. /\ \A q \in Seqs : q # s => table'[q] = table[q]
      /\ \A i \in DOMAIN table'[s] : IF i \in DOMAIN table[s] /\ i \notin Shared(s)
                                     THEN table'[s][i] = table[s][i] ELSE table'[s][i] \in N
      /\ IsInjective(table'[s])
  BY DEF TokensAppended
<1>4. /\ \A i \in Shared(s) : i \in DOMAIN table[s] /\ refCount[table[s][i]] > 1
  BY <1>1, SharedIs
<1>5. Running' = Running /\ \A q \in Seqs : Group(q)' = Group(q)
  BY DEF Running, Group, SeqsWith
<1>6. s \in Group(s)
  BY DEF Group, SeqsWith, Running
<1>7. \A q \in Seqs : Range(table[q]) \subseteq Blocks
  BY <1>1 DEF TypeInv, Range
<1>8. \A b \in pending.fresh : b \in Blocks /\ refCount[b] = 1
  BY <1>1, FreshHaveOneHolder
<1>9. \A q \in Seqs, b \in N : b \notin Range(table[q])
  BY <1>2, <1>7
<1>10. ASSUME NEW q1 \in Seqs, NEW q2 \in Seqs, Range(table'[q1]) \cap Range(table'[q2]) # {}
       PROVE  Owner[q1] = Owner[q2]
  <2>1. PICK b \in Range(table'[q1]) : b \in Range(table'[q2])
    BY <1>10
  <2>2. CASE q1 = q2
    BY <2>2
  <2>3. CASE q1 # q2 /\ b \in N
    BY <1>3, <1>9, <2>1, <2>3
  <2>4. CASE b \notin N
    <3>1. b \in Range(table[q1])
      BY <1>2, <1>3, <2>1, <2>4
    <3>2. b \in Range(table[q2])
      BY <1>2, <1>3, <2>1, <2>4
    <3>3. QED
      BY <1>1, <3>1, <3>2 DEF SharingInv
  <2>5. QED
    BY <2>2, <2>3, <2>4
<1>11. NumLookaheadSlots' > 0 => \A b \in Blocks : refCount'[b] <= 1
  <2>1. NumLookaheadSlots' = NumLookaheadSlots
    BY DEF NumLookaheadSlots
  <2>2. ASSUME NumLookaheadSlots > 0, NEW b \in Blocks
        PROVE  refCount'[b] <= 1
    <3>1. refCount[b] <= 1
      BY <1>1, <2>2 DEF SharingInv
    <3>2. refCount'[b] <= 1 \/ refCount'[b] <= refCount[b]
      BY <1>2
    <3>3. /\ refCount[b] \in Nat
      BY <1>1 DEF TypeInv
    <3>4. refCount'[b] = IF b \in N THEN 1 ELSE IF \E i \in Shared(s) : table[s][i] = b
                                       THEN refCount[b] - 1 ELSE refCount[b]
      BY DEF TokensAppended
    <3>5. QED
      BY <3>1, <3>3, <3>4
  <2>3. QED
    BY <2>1, <2>2
<1>12. ASSUME NEW b \in pending'.fresh
       PROVE  refCount'[b] = 1 /\ \E q \in batch' : b \in Range(table'[q])
  <2>1. CASE b \in N
    BY <1>2, <2>1
  <2>2. CASE b \notin N
    <3>1. b \in pending.fresh
      BY <1>2, <2>2
    <3>2. PICK q \in batch : b \in Range(table[q])
      BY <1>1, <3>1 DEF SharingInv
    <3>3. QED
      BY <1>1, <1>2, <1>3, <3>1, <3>2
  <2>3. QED
    BY <2>1, <2>2
\* A block s held before is still held by a sequence of its group.
<1>13. ASSUME NEW b \in Range(table[s])
       PROVE  \E q \in Running : b \in Range(table'[q]) /\ s \in Group(q)
  <2>1. PICK i \in DOMAIN table[s] : b = table[s][i]
    BY <1>13 DEF Range
  <2>2. CASE i \in Shared(s)
    <3>1. PICK q \in Running : q # s /\ b \in Range(table[q]) /\ Group(q) = Group(s)
      BY <1>4, <2>1, <2>2, SharedInGroup
    <3>2. QED
      BY <1>1, <1>3, <1>6, <3>1
  <2>3. CASE i \notin Shared(s)
    <3>1. i \in DOMAIN table'[s] /\ table'[s][i] = b
      BY <1>2, <1>3, <2>1, <2>3
    <3>2. b \in Range(table'[s])
      BY <3>1 DEF Range
    <3>3. QED
      BY <1>6, <3>2
  <2>4. QED
    BY <2>2, <2>3
<1>14. ASSUME NEW x \in pending.copies
       PROVE  /\ x[2] \in pending'.fresh /\ x[1] \notin pending'.fresh
              /\ \A y \in pending'.copies : y[2] = x[2] => y[1] = x[1]
              /\ \E q \in Running : x[1] \in Range(table'[q]) /\ Group(q) \cap batch' # {}
  <2>1. x[1] \in Blocks
    BY <1>1 DEF TypeInv
  <2>2. /\ x[2] \in pending.fresh /\ x[1] \notin pending.fresh
        /\ \A y \in pending.copies : y[2] = x[2] => y[1] = x[1]
        /\ \E q \in Running : x[1] \in Range(table[q]) /\ Group(q) \cap batch # {}
    BY <1>1 DEF SharingInv
  <2>3. PICK q \in Running : x[1] \in Range(table[q]) /\ Group(q) \cap batch # {}
    BY <2>2
  <2>4. x[1] \notin N /\ x[2] \notin N
    BY <1>1, <1>2, <2>1, <2>2, <2>3
  <2>5. ASSUME NEW y \in pending'.copies, y[2] = x[2]
        PROVE  y[1] = x[1]
    <3>1. CASE y \in pending.copies
      BY <2>2, <2>5, <3>1
    <3>2. CASE \E i \in Shared(s) : y = <<table[s][i], table'[s][i]>>
      <4>1. PICK i \in Shared(s) : y = <<table[s][i], table'[s][i]>>
        BY <3>2
      <4>2. y[2] = table'[s][i] /\ i \in DOMAIN table[s] /\ i \in DOMAIN table'[s]
        BY <1>2, <1>4, <4>1
      <4>3. y[2] \in N
        BY <1>3, <4>2
      <4>4. QED
        BY <2>4, <2>5, <4>3
    <3>3. QED
      BY <1>2, <3>1, <3>2
  <2>6. \E z \in Running : x[1] \in Range(table'[z]) /\ Group(z) \cap batch' # {}
    <3>1. CASE q # s
      BY <1>1, <1>3, <2>3, <3>1
    <3>2. CASE q = s
      <4>1. PICK z \in Running : x[1] \in Range(table'[z]) /\ s \in Group(z)
        BY <1>13, <2>3, <3>2
      <4>2. QED
        BY <4>1
    <3>3. QED
      BY <3>1, <3>2
  <2>7. QED
    BY <1>2, <2>2, <2>4, <2>5, <2>6
<1>15. ASSUME NEW i \in Shared(s)
       PROVE  /\ table'[s][i] \in pending'.fresh /\ table[s][i] \notin pending'.fresh
              /\ \A y \in pending'.copies : y[2] = table'[s][i] => y[1] = table[s][i]
              /\ \E q \in Running : table[s][i] \in Range(table'[q]) /\ Group(q) \cap batch' # {}
  <2>1. i \in DOMAIN table[s] /\ i \in DOMAIN table'[s] /\ table'[s][i] \in N
        /\ refCount[table[s][i]] > 1
    BY <1>2, <1>3, <1>4
  <2>2. table[s][i] \in Range(table[s])
    BY <2>1 DEF Range
  <2>3. table[s][i] \notin pending'.fresh
    BY <1>1, <1>2, <1>7, <1>8, <1>9, <2>1, <2>2
  <2>4. ASSUME NEW y \in pending'.copies, y[2] = table'[s][i]
        PROVE  y[1] = table[s][i]
    <3>1. CASE y \in pending.copies
      <4>1. y[2] \in pending.fresh
        BY <1>1, <3>1 DEF SharingInv
      <4>2. QED
        BY <1>2, <2>1, <2>4, <4>1
    <3>2. CASE \E j \in Shared(s) : y = <<table[s][j], table'[s][j]>>
      <4>1. PICK j \in Shared(s) : y = <<table[s][j], table'[s][j]>>
        BY <3>2
      <4>2. y[2] = table'[s][j] /\ y[1] = table[s][j] /\ j \in DOMAIN table'[s]
        BY <1>2, <1>4, <4>1
      <4>3. j = i
        BY <1>3, <2>1, <2>4, <4>2 DEF IsInjective
      <4>4. QED
        BY <4>2, <4>3
    <3>3. QED
      BY <1>2, <3>1, <3>2
  <2>5. PICK z \in Running : table[s][i] \in Range(table'[z]) /\ s \in Group(z)
    BY <1>13, <2>2
  <2>6. QED
    BY <1>2, <2>1, <2>3, <2>4, <2>5
<1>16. ASSUME NEW x \in pending'.copies
       PROVE  /\ x[2] \in pending'.fresh /\ x[1] \notin pending'.fresh
              /\ \A y \in pending'.copies : y[2] = x[2] => y[1] = x[1]
              /\ \E q \in Running : x[1] \in Range(table'[q]) /\ Group(q) \cap batch' # {}
  <2>1. CASE x \in pending.copies
    BY <1>14, <2>1
  <2>2. CASE \E i \in Shared(s) : x = <<table[s][i], table'[s][i]>>
    <3>1. PICK i \in Shared(s) : x = <<table[s][i], table'[s][i]>>
      BY <2>2
    <3>2. x[1] = table[s][i] /\ x[2] = table'[s][i]
      BY <3>1
    <3>3. QED
      BY <1>15, <3>2
  <2>3. QED
    BY <1>2, <2>1, <2>2
<1>17. \A x \in pending'.copies :
          \E q \in Running' : x[1] \in Range(table'[q]) /\ Group(q)' \cap batch' # {}
  <2>1. ASSUME NEW x \in pending'.copies
        PROVE  \E q \in Running' : x[1] \in Range(table'[q]) /\ Group(q)' \cap batch' # {}
    <3>1. PICK q \in Running : x[1] \in Range(table'[q]) /\ Group(q) \cap batch' # {}
      BY <1>16
    <3>2. q \in Running' /\ Group(q)' = Group(q)
      BY <1>1, <1>5
    <3>3. QED
      BY <3>1, <3>2
  <2>2. QED
    BY <2>1
<1>18. QED
  BY <1>10, <1>11, <1>12, <1>16, <1>17 DEF SharingInv
\* Where s writes next, it holds the block alone.
LEMMA AppendedAreOwn ==
    ASSUME HoldsTheirTokens, NEW s \in Running, NEW N \in SUBSET Blocks, TokensAppended(s, N),
           seen[s] < Len(tokens[s]), NEW p \in Nat \ {0}, PlaceOf(p) \in DOMAIN table'[s],
           p = Len(tokens[s]) \/ NumLookaheadSlots > 0
    PROVE  refCount'[table'[s][PlaceOf(p)]] = 1
<1> DEFINE i == PlaceOf(p)
<1>1. /\ TypeInv /\ TableInv /\ CountsMatchTables /\ SharingInv /\ s \in Seqs
  BY DEF HoldsTheirTokens, BlocksInv, TableInv, Running
<1>2. /\ \A b \in Blocks : refCount[b] = 1 => b \in N \/ refCount'[b] = 1
      /\ \A b \in N : refCount'[b] = 1
  BY SlotsAreOwn
<1>3. i \in DOMAIN table'[s]
  OBVIOUS
<1>4. IF i \in DOMAIN table[s] /\ i \notin Shared(s)
      THEN table'[s][i] = table[s][i] ELSE table'[s][i] \in N
  BY <1>3 DEF TokensAppended
<1>5. CASE table'[s][i] \in N
  BY <1>2, <1>5
<1>6. CASE i \in DOMAIN table[s] /\ i \notin Shared(s)
  <2>1. table[s][i] \in Blocks /\ refCount[table[s][i]] > 0 /\ refCount[table[s][i]] \in Nat
    BY <1>1, <1>6, HeldIsCounted DEF TypeInv
  <2>2. refCount[table[s][i]] <= 1
    <3>1. CASE NumLookaheadSlots > 0
      BY <1>1, <2>1, <3>1 DEF SharingInv
    <3>2. CASE p = Len(tokens[s])
      <4> DEFINE L == Len(tokens[s])
                 d == seen[s] \div BlockSize
                 e == (L - 1) \div BlockSize
      <4>1. L \in Nat /\ seen[s] \in Nat /\ L - 1 \in Nat /\ seen[s] <= L - 1
        BY <1>1 DEF TypeInv
      <4>2. d \in Nat /\ e \in Nat /\ d <= e
        BY <4>1, DivMod, DivMonotone
      <4>3. i = e + 1
        BY <3>2 DEF PlaceOf
      <4> HIDE DEF d, e, i
      <4>4. i \in d + 1..e + 1
        BY <4>2, <4>3
      <4>5. i <= Len(table[s])
        BY <1>1, <1>6, SharedIs
      <4>6. ~(refCount[table[s][i]] > 1)
        BY <1>6, <4>4, <4>5 DEF Shared, d, e
      <4>7. QED
        BY <2>1, <4>6
    <3>3. QED
      BY <3>1, <3>2
  <2>3. refCount[table[s][i]] = 1
    BY <2>1, <2>2
  <2>4. QED
    BY <1>2, <1>4, <1>6, <2>1, <2>3
<1>7. QED
  BY <1>4, <1>5, <1>6

LEMMA AppendSlotsHolds ==
    ASSUME HoldsTheirTokens, NEW s \in Seqs, AppendSlots(s)
    PROVE  (SharingInv /\ RoomInv /\ ContentInv)'
<1>1. /\ TypeInv /\ StatusInv /\ RoundInv /\ TableInv /\ SharingInv /\ RoomInv /\ ContentInv
      /\ BlocksInv /\ UsesV2 /\ CountsMatchTables
  BY DEF HoldsTheirTokens, BlocksInv, TableInv
<1>2. /\ phase \in {"decode", "preempted"} /\ s \in Earliest(todo) /\ AppendTokenIds(s)
      /\ todo' = todo \ {s} /\ batch' = batch \cup {s}
      /\ UNCHANGED <<phase, setup, status, tokens, kv, draft, proposal>>
  BY <1>1 DEF AppendSlots, seqVars, cacheVars, Decoding
<1>3. s \in todo /\ s \in Running /\ s \notin batch /\ batch \subseteq Running
      /\ Running \subseteq Seqs /\ status[s] = "RUNNING"
  BY <1>1, <1>2 DEF Earliest, RoundInv, Running
<1>4. PICK N \in SUBSET Blocks : TokensAppended(s, N)
  BY <1>1, <1>2, <1>3, AppendTokenIdsIs
<1>5. /\ \A q \in Seqs : q # s => table'[q] = table[q] /\ seen'[q] = seen[q]
      /\ Len(tokens[s]) + NumLookaheadSlots <= Len(table'[s]) * BlockSize
      /\ table' \in [Seqs -> Seq(Blocks)]
  BY <1>1, <1>2, <1>3, <1>4, AppendTokenIdsKeeps DEF TokensAppended
<1>6. /\ \A q \in Seqs, b \in Blocks : b \in Range(table[q]) => b \notin N /\ refCount[b] > 0
      /\ \A b \in pending.fresh : b \notin N /\ refCount'[b] = 1
      /\ \A b \in Blocks : refCount[b] = 1 => b \in N \/ refCount'[b] = 1
      /\ \A i \in DOMAIN table[s] : i \in DOMAIN table'[s]
      /\ pending'.fresh = pending.fresh \cup N
      /\ pending'.copies = pending.copies \cup {<<table[s][i], table'[s][i]>> : i \in Shared(s)}
  BY <1>3, <1>4, SlotsAreOwn
<1>7. /\ \A i \in DOMAIN table'[s] : IF i \in DOMAIN table[s] /\ i \notin Shared(s)
                                     THEN table'[s][i] = table[s][i] ELSE table'[s][i] \in N
      /\ IsInjective(table'[s])
  BY <1>4 DEF TokensAppended
<1>8. /\ \A i \in Shared(s) : i \in DOMAIN table[s] /\ refCount[table[s][i]] > 1
  BY <1>1, SharedIs
<1>9. SharingInv'
  BY <1>2, <1>3, <1>4, AppendSlotsShares
<1>10. Running' = Running /\ NumLookaheadSlots' = NumLookaheadSlots
  BY <1>2 DEF Running, NumLookaheadSlots
<1>11. \A q \in Seqs : ~InOutputs(q) /\ proposal[q] = << >> /\ (HasItsSlots(q) <=> q \in batch)
  BY <1>2, BeforeOutputs
<1>12. \A q \in Seqs : ~InOutputs(q)' /\ (HasItsSlots(q)' <=> q \in batch')
  BY <1>2 DEF InOutputs, HasItsSlots
<1>13. seen[s] < Len(tokens[s]) /\ Len(tokens[s]) - 1 <= Room(s)
  BY <1>1, <1>3, <1>11 DEF RoomInv
<1>14. /\ Len(tokens[s]) \in Nat /\ Len(tokens[s]) > 0 /\ NumLookaheadSlots \in Nat
       /\ Room(s)' \in Nat /\ Room(s)' = Len(table'[s]) * BlockSize /\ Len(table'[s]) \in Nat
       /\ DOMAIN table'[s] = 1..Len(table'[s])
  <2>1. table'[s] \in Seq(Blocks)
    BY <1>5
  <2>2. Len(table'[s]) \in Nat /\ DOMAIN table'[s] = 1..Len(table'[s])
    BY <2>1
  <2>3. Room(s)' = Len(table'[s]) * BlockSize
    BY DEF Room
  <2>4. QED
    BY <1>1, <1>3, <2>2, <2>3, EndsWithin, RoomIs, LookaheadIs, Products
<1>15. RoomInv'
  <2>1. ASSUME NEW q \in Running
        PROVE  /\ Len(tokens[q]) - 1 <= Room(q)'
               /\ ~HasItsSlots(q)' => seen'[q] < Len(tokens[q])
    <3>1. CASE q = s
      <4>1. HasItsSlots(q)'
        BY <1>2, <1>3, <1>12, <3>1
      <4>2. QED
        BY <1>5, <1>14, <3>1, <4>1
    <3>2. CASE q # s
      <4>1. Room(q)' = Room(q) /\ seen'[q] = seen[q]
        BY <1>3, <1>5, <3>2 DEF Room
      <4>2. HasItsSlots(q)' <=> HasItsSlots(q)
        BY <1>2, <1>3, <1>11, <1>12, <3>2
      <4>3. QED
        BY <1>1, <4>1, <4>2 DEF RoomInv
    <3>3. QED
      BY <3>1, <3>2
  <2>2. ASSUME NEW q \in batch'
        PROVE  /\ Len(tokens[q]) + NumLookaheadSlots <= Room(q)'
               /\ \A p \in Len(tokens[q])..Len(tokens[q]) + NumLookaheadSlots :
                     refCount'[BlockAt(q, p)'] = 1
    <3>1. CASE q = s
      <4>1. ASSUME NEW p \in Len(tokens[s])..Len(tokens[s]) + NumLookaheadSlots
            PROVE  refCount'[BlockAt(s, p)'] = 1
        <5>1. p \in Nat \ {0} /\ p <= Len(table'[s]) * BlockSize
          BY <1>5, <1>14
        <5>2. PlaceOf(p) \in DOMAIN table'[s]
          BY <1>14, <5>1, PlaceWithin
        <5>3. BlockAt(s, p)' = table'[s][PlaceOf(p)]
          BY DEF BlockAt, PlaceOf
        <5>4. p = Len(tokens[s]) \/ NumLookaheadSlots > 0
          BY <1>14
        <5>5. QED
          BY <1>3, <1>4, <1>13, <5>1, <5>2, <5>3, <5>4, AppendedAreOwn
      <4>2. QED
        BY <1>5, <1>14, <3>1, <4>1
    <3>2. CASE q # s
      <4>1. q \in batch /\ q \in Running /\ q \in Seqs
        BY <1>2, <1>3, <2>2, <3>2
      <4>2. /\ Len(tokens[q]) + NumLookaheadSlots <= Room(q)
            /\ \A p \in Len(tokens[q])..Len(tokens[q]) + NumLookaheadSlots :
                  refCount[BlockAt(q, p)] = 1
        BY <1>1, <1>2, <4>1 DEF RoomInv
      <4>3. Room(q)' = Room(q)
        BY <1>5, <3>2, <4>1 DEF Room
      <4>4. ASSUME NEW p \in Len(tokens[q])..Len(tokens[q]) + NumLookaheadSlots
            PROVE  refCount'[BlockAt(q, p)'] = 1
        <5>1. Len(tokens[q]) \in Nat /\ Len(tokens[q]) > 0 /\ Room(q) \in Nat
          BY <1>1, <4>1, EndsWithin, RoomIs
        <5>2. p \in Nat \ {0} /\ p <= Room(q)
          BY <1>14, <4>2, <5>1
        <5>3. PICK b \in Range(table[q]) : b = BlockAt(q, p) /\ b \in Blocks
          BY <1>1, <4>1, <5>2, BlockWithin
        <5>4. BlockAt(q, p)' = b
          BY <1>5, <3>2, <4>1, <5>3 DEF BlockAt
        <5>5. refCount[b] = 1 /\ b \notin N
          BY <1>6, <4>1, <4>2, <5>3
        <5>6. QED
          BY <1>6, <5>3, <5>4, <5>5
      <4>5. QED
        BY <4>2, <4>3, <4>4
    <3>3. QED
      BY <3>1, <3>2
  <2>3. \A q \in Seqs : proposal'[q] = << >>
    BY <1>2, <1>11
  <2>4. QED
    BY <1>2, <1>3, <1>10, <1>12, <2>1, <2>2, <2>3 DEF RoomInv
\* A copied block finds its contents where they were.
<1>16. \A q \in Seqs, b \in Blocks : b \in Range(table[q]) => Sources(b)' = Sources(b)
  <2>1. ASSUME NEW q \in Seqs, NEW b \in Blocks, b \in Range(table[q])
        PROVE  Sources(b)' = Sources(b)
    <3>1. b \notin N
      BY <1>6, <2>1
    <3>2. b \in pending'.fresh <=> b \in pending.fresh
      BY <1>6, <3>1
    <3>3. ASSUME NEW x \in Blocks
          PROVE  <<x, b>> \in pending'.copies <=> <<x, b>> \in pending.copies
      <4>1. \A i \in Shared(s) : table'[s][i] \in N
        BY <1>6, <1>7, <1>8
      <4>2. \A i \in Shared(s) : <<x, b>> # <<table[s][i], table'[s][i]>>
        BY <3>1, <4>1
      <4>3. QED
        BY <1>6, <4>2
    <3>4. QED
      BY <3>2, <3>3 DEF Sources
  <2>2. QED
    BY <2>1
<1>17. ASSUME NEW i \in Shared(s), NEW b, b = table'[s][i]
       PROVE  Sources(b)' = Sources(table[s][i])
  <2> DEFINE c == table[s][i]
  <2>1. i \in DOMAIN table[s] /\ i \in DOMAIN table'[s] /\ b \in N /\ refCount[c] > 1 /\ c \in Blocks
    BY <1>1, <1>6, <1>7, <1>8, <1>17 DEF TypeInv
  <2>2. c \notin pending.fresh
    BY <1>1, <2>1, FreshHaveOneHolder
  <2>3. Sources(c) = {c}
    BY <2>2 DEF Sources
  <2>4. b \in pending'.fresh /\ <<c, b>> \in pending'.copies
    BY <1>6, <1>17, <2>1
  <2>5. ASSUME NEW x \in Blocks, <<x, b>> \in pending'.copies
        PROVE  x = c
    <3>1. CASE <<x, b>> \in pending.copies
      <4>1. <<x, b>>[2] \in pending.fresh
        BY <1>1, <3>1 DEF SharingInv
      <4>2. b \in pending.fresh
        BY <4>1
      <4>3. QED
        BY <1>6, <2>1, <4>2
    <3>2. CASE \E j \in Shared(s) : <<x, b>> = <<table[s][j], table'[s][j]>>
      <4>1. PICK j \in Shared(s) : <<x, b>> = <<table[s][j], table'[s][j]>>
        BY <3>2
      <4>2. x = table[s][j] /\ table'[s][i] = table'[s][j] /\ j \in DOMAIN table'[s]
        BY <1>6, <1>8, <1>17, <4>1
      <4>3. j = i
        BY <1>7, <2>1, <4>2 DEF IsInjective
      <4>4. QED
        BY <4>2, <4>3
    <3>3. QED
      BY <1>6, <2>5, <3>1, <3>2
  <2> HIDE DEF c
  <2>6. Sources(b)' = {c}
    BY <2>1, <2>4, <2>5 DEF Sources
  <2>7. QED
    BY <2>3, <2>6 DEF c
<1>18. ContentInv'
  <2>1. ASSUME NEW q \in Running
        PROVE  FindsItsTokens(q)'
    <3>1. FindsItsTokens(q) /\ q \in Seqs
      BY <1>1, <1>2, <1>3 DEF ContentInv, Admitted
    <3>2. CASE q # s
      <4>1. \A b \in Range(table[q]) : Sources(b)' = Sources(b)
        BY <1>1, <1>16, <3>1 DEF TypeInv, Range
      <4>2. QED
        BY <1>2, <1>5, <1>11, <1>12, <3>1, <3>2, <4>1, UntouchedStays
    <3>3. CASE q = s
      <4>1. /\ TargetEnd(s) \in Nat /\ DraftEnd(s) \in Nat
            /\ TargetEnd(s) <= Room(s) /\ DraftEnd(s) <= TargetEnd(s)
        BY <1>1, <1>3, EndsWithin
      <4>2. TargetEnd(s)' = TargetEnd(s) /\ DraftEnd(s)' = DraftEnd(s)
        BY <1>2, <1>11, <1>12 DEF TargetEnd, DraftEnd
      <4>3. Drafted(s)' <=> Drafted(s)
        BY <1>2, <1>10 DEF Drafted, Speculates
      <4>4. ASSUME NEW p \in 1..TargetEnd(s)
            PROVE  /\ Sources(BlockAt(s, p))' = Sources(BlockAt(s, p))
                   /\ SubSeq(Text(s), 1, p)' = SubSeq(Text(s), 1, p)
        <5>1. p \in Nat \ {0} /\ p <= Room(s)
          BY <1>1, <4>1, RoomIs
        <5>2. PICK i \in DOMAIN table[s] : i = PlaceOf(p)
          BY <1>1, <5>1, BlockWithin
        <5>3. BlockAt(s, p) = table[s][i] /\ i \in DOMAIN table'[s]
          BY <1>6, <5>2 DEF BlockAt, PlaceOf
        <5>4. PICK b : b = table'[s][i]
          OBVIOUS
        <5>5. BlockAt(s, p)' = b
          BY <5>2, <5>4 DEF BlockAt, PlaceOf
        <5>6. Sources(b)' = Sources(table[s][i])
          <6>1. CASE i \in Shared(s)
            BY <1>17, <5>4, <6>1
          <6>2. CASE i \notin Shared(s)
            <7>1. b = table[s][i]
              BY <1>7, <5>3, <5>4, <6>2
            <7>2. b \in Blocks /\ b \in Range(table[s])
              BY <1>1, <7>1 DEF TypeInv, Range
            <7>3. QED
              BY <1>1, <1>3, <1>16, <7>1, <7>2
          <6>3. QED
            BY <6>1, <6>2
        <5>7. Sources(BlockAt(s, p))' = Sources(b)'
          BY <5>5 DEF Sources
        <5>8. SubSeq(Text(s), 1, p)' = SubSeq(Text(s), 1, p)
          BY <1>2 DEF Text
        <5>9. QED
          BY <5>3, <5>6, <5>7, <5>8
      <4>5. FindsItsTokens(s)'
        BY <1>2, <3>1, <3>3, <4>1, <4>2, <4>3, <4>4, TokensStay
      <4>6. QED
        BY <3>3, <4>5
    <3>4. QED
      BY <3>2, <3>3
  <2>2. QED
    BY <1>10, <2>1 DEF ContentInv
<1>19. QED
  BY <1>9, <1>15, <1>18
\* The copies of a round are of blocks nothing is copied to, so all of them find
\* what was there before the round.
CopiedTo(b) == {c[1] : c \in {x \in pending.copies : x[2] = b}}

LEMMA CopiedIs ==
    ASSUME HoldsTheirTokens, NEW cache, NEW b \in Blocks, NEW x \in Sources(b),
           NEW o \in 1..BlockSize
    PROVE  Copied(cache)[b][o] = cache[x][o]
<1>1. TypeInv /\ RoundInv /\ SharingInv /\ pending.moves = {}
  BY DEF HoldsTheirTokens, BlocksInv, RoundInv
<1>2. ASSUME NEW y, CopiedTo(y) # {}
      PROVE  y \in pending.fresh
  <2>1. PICK c \in pending.copies : c[2] = y
    BY <1>2 DEF CopiedTo
  <2>2. QED
    BY <1>1, <2>1 DEF SharingInv
<1> DEFINE Found(y) == {cache[y], cache[y]} \cup {cache[z] : z \in CopiedTo(y)}
           read == {held[o] : held \in UNION {Found(y) : y \in CopiedTo(b)}}
<1>3. Copied(cache)[b] =
        IF CopiedTo(b) # {}
        THEN [k \in 1..BlockSize |->
                LET r == {held[k] : held \in UNION {Found(y) : y \in CopiedTo(b)}}
                IN  IF Cardinality(r) = 1 THEN CHOOSE e \in r : TRUE ELSE Mixed]
        ELSE IF b \in pending.fresh THEN Empty ELSE cache[b]
  BY <1>1 DEF Copied, CopiedTo
<1>4. CASE b \notin pending.fresh
  <2>1. x = b /\ CopiedTo(b) = {}
    BY <1>2, <1>4 DEF Sources
  <2>2. Copied(cache)[b] = cache[b]
    BY <1>3, <1>4, <2>1
  <2>3. QED
    BY <2>1, <2>2
<1>5. CASE b \in pending.fresh
  <2>1. x \in Blocks /\ <<x, b>> \in pending.copies
    BY <1>5 DEF Sources
  <2>2. <<x, b>>[2] = b /\ <<x, b>>[1] = x
    OBVIOUS
  <2>3. \A y \in pending.copies : y[2] = b => y[1] = x
    <3>1. \A y \in pending.copies : y[2] = <<x, b>>[2] => y[1] = <<x, b>>[1]
      BY <1>1, <2>1 DEF SharingInv
    <3>2. QED
      BY <2>2, <3>1
  <2>4. CopiedTo(b) = {x}
    <3>1. <<x, b>> \in {y \in pending.copies : y[2] = b}
      BY <2>1, <2>2
    <3>2. x \in CopiedTo(b)
      BY <2>2, <3>1 DEF CopiedTo
    <3>3. \A z \in CopiedTo(b) : z = x
      BY <2>3 DEF CopiedTo
    <3>4. QED
      BY <3>2, <3>3
  <2>5. CopiedTo(x) = {}
    <3>1. <<x, b>>[1] \notin pending.fresh
      BY <1>1, <2>1 DEF SharingInv
    <3>2. QED
      BY <1>2, <2>2, <3>1
  <2>6. UNION {Found(y) : y \in CopiedTo(b)} = {cache[x]}
    <3>1. Found(x) = {cache[x]}
      BY <2>5
    <3>2. {Found(y) : y \in CopiedTo(b)} = {Found(x)}
      BY <2>4
    <3> HIDE DEF Found
    <3>3. QED
      BY <3>1, <3>2
  <2>7. read = {cache[x][o]}
    BY <2>6
  <2>8. Copied(cache)[b][o] = IF Cardinality(read) = 1 THEN CHOOSE e \in read : TRUE ELSE Mixed
    <3>1. CopiedTo(b) # {}
      BY <2>4
    <3> HIDE DEF Found
    <3>2. QED
      BY <1>3, <3>1
  <2> HIDE DEF read
  <2>9. PICK e : e = cache[x][o]
    OBVIOUS
  <2>10. Cardinality({e}) = 1 /\ (CHOOSE z \in {e} : TRUE) = e
    BY FS_Singleton
  <2>11. QED
    BY <2>7, <2>8, <2>9, <2>10
<1>6. QED
  BY <1>4, <1>5

\* Every position the batch writes is in a block with one holder, so it is
\* written once, ...
WritesAlone(at) ==
    \A s \in batch : \A w \in at[s] :
        w \in Nat \ {0} /\ w <= Room(s) /\ refCount[BlockAt(s, w)] = 1

Writes(at, b, o) ==
    {x \in UNION {{s} \X at[s] : s \in batch} : BlockAt(x[1], x[2]) = b /\ OffsetAt(x[2]) = o}

LEMMA WrittenOnce ==
    ASSUME HoldsTheirTokens, NEW at, WritesAlone(at), NEW q \in Running,
           NEW k \in Nat \ {0}, k <= Room(q),
           NEW x \in Writes(at, BlockAt(q, k), OffsetAt(k))
    PROVE  x = <<q, k>> /\ q \in batch /\ k \in at[q]
<1>1. /\ TypeInv /\ RoundInv /\ TableInv /\ CountsMatchTables /\ batch \subseteq Running
      /\ Running \subseteq Seqs /\ q \in Seqs
  BY DEF HoldsTheirTokens, BlocksInv, TableInv, RoundInv, Running
<1>2. PICK s \in batch : x \in {s} \X at[s]
  BY DEF Writes
<1>3. PICK w \in at[s] : x = <<s, w>>
  BY <1>2
<1>4. BlockAt(s, w) = BlockAt(q, k) /\ OffsetAt(w) = OffsetAt(k)
  BY <1>3 DEF Writes
<1>5. w \in Nat \ {0} /\ w <= Room(s) /\ refCount[BlockAt(s, w)] = 1 /\ s \in Seqs
  BY <1>1, <1>3 DEF WritesAlone
<1>6. PICK b \in Range(table[s]) : b = BlockAt(s, w)
  BY <1>1, <1>5, BlockWithin
<1>7. b \in Range(table[q])
  BY <1>1, <1>4, <1>6, BlockWithin
<1>8. q = s
  BY <1>1, <1>5, <1>6, <1>7, HeldAlone
<1>9. w = k
  BY <1>1, <1>4, <1>5, <1>8, EntriesDiffer
<1>10. QED
  BY <1>2, <1>3, <1>8, <1>9

\* ... and what a sequence does not write itself stays.
LEMMA StoredIs ==
    ASSUME HoldsTheirTokens, NEW at, WritesAlone(at), NEW q \in Running,
           NEW k \in Nat \ {0}, k <= Room(q), NEW held, NEW p
    PROVE  Stored(held, at, p)[BlockAt(q, k)][OffsetAt(k)] =
             IF q \in batch /\ k \in at[q] THEN SubSeq(tokens[q] \o p[q], 1, k)
             ELSE held[BlockAt(q, k)][OffsetAt(k)]
<1>1. TypeInv /\ q \in Seqs
  BY DEF HoldsTheirTokens, BlocksInv, Running
<1>2. PICK b \in Blocks : b = BlockAt(q, k)
  BY <1>1, BlockWithin
<1>3. PICK o \in 1..BlockSize : o = OffsetAt(k)
  BY Places
<1> DEFINE W == Writes(at, b, o)
           new == {SubSeq(tokens[w[1]] \o p[w[1]], 1, w[2]) : w \in W}
           old == held[b][o]
<1>4. Stored(held, at, p)[b][o] =
        IF new = {} THEN old
        ELSE IF Cardinality(new) = 1 THEN CHOOSE e \in new : TRUE ELSE << >>
  BY DEF Stored, Writes
<1>5. CASE q \in batch /\ k \in at[q]
  <2>1. W = {<<q, k>>}
    <3>1. <<q, k>> \in W
      <4>1. <<q, k>> \in {q} \X at[q] /\ <<q, k>>[1] = q /\ <<q, k>>[2] = k
        BY <1>5
      <4>2. <<q, k>> \in UNION {{s} \X at[s] : s \in batch}
        BY <1>5, <4>1
      <4>3. QED
        BY <1>2, <1>3, <4>1, <4>2 DEF Writes
    <3>2. \A x \in W : x = <<q, k>>
      BY <1>2, <1>3, WrittenOnce
    <3>3. QED
      BY <3>1, <3>2
  <2>2. new = {SubSeq(tokens[q] \o p[q], 1, k)}
    <3>1. <<q, k>>[1] = q /\ <<q, k>>[2] = k
      OBVIOUS
    <3>2. ASSUME NEW w \in W
          PROVE  SubSeq(tokens[w[1]] \o p[w[1]], 1, w[2]) = SubSeq(tokens[q] \o p[q], 1, k)
      BY <2>1, <3>1
    <3>3. <<q, k>> \in W
      BY <2>1
    <3> HIDE DEF W
    <3>4. QED
      BY <3>2, <3>3
  <2>3. PICK e : e = SubSeq(tokens[q] \o p[q], 1, k)
    OBVIOUS
  <2> HIDE DEF new, old
  <2>4. new = {e}
    BY <2>2, <2>3
  <2>5. Cardinality({e}) = 1 /\ (CHOOSE z \in {e} : TRUE) = e /\ {e} # {}
    BY FS_Singleton
  <2>6. Stored(held, at, p)[b][o] = e
    BY <1>4, <2>4, <2>5
  <2>7. QED
    BY <1>2, <1>3, <1>5, <2>3, <2>6
<1>6. CASE ~(q \in batch /\ k \in at[q])
  <2>1. W = {}
    BY <1>2, <1>3, <1>6, WrittenOnce
  <2>2. new = {}
    BY <2>1
  <2> HIDE DEF new
  <2>3. Stored(held, at, p)[b][o] = old
    BY <1>4, <2>2
  <2>4. QED
    BY <1>2, <1>3, <1>6, <2>3
<1>7. QED
  BY <1>5, <1>6

\* What a sequence finds after the round: what was written, or what its blocks
\* and their sources held.
ExecutedTo(cache, at, p, new) ==
    /\ WritesAlone(at)
    /\ new = Remembered(Stored(Copied(cache), at, p))

FoundAfter(cache, at, p, new, q, k) ==
    IF q \in batch /\ k \in at[q]
    THEN new[BlockAt(q, k)][OffsetAt(k)] = SubSeq(tokens[q] \o p[q], 1, k)
    ELSE \A x \in Sources(BlockAt(q, k)) :
             new[BlockAt(q, k)][OffsetAt(k)] = cache[x][OffsetAt(k)]

LEMMA ExecutedIs ==
    ASSUME HoldsTheirTokens, NEW cache, NEW at, NEW p, NEW new,
           ExecutedTo(cache, at, p, new), NEW q \in Running,
           NEW k \in Nat \ {0}, k <= Room(q)
    PROVE  FoundAfter(cache, at, p, new, q, k)
<1> USE DEF ExecutedTo, FoundAfter
<1>1. TypeInv /\ TableInv /\ CountsMatchTables /\ q \in Seqs
  BY DEF HoldsTheirTokens, BlocksInv, TableInv, Running
<1>2. PICK b \in Blocks : b = BlockAt(q, k) /\ b \in Range(table[q])
  BY <1>1, BlockWithin
<1>3. PICK o \in 1..BlockSize : o = OffsetAt(k)
  BY Places
<1>4. PICK stored : stored = Stored(Copied(cache), at, p)
  OBVIOUS
<1>5. PICK copied : copied = Copied(cache)
  OBVIOUS
<1>6. refCount[b] > 0
  BY <1>1, <1>2, HeldIsNotFree
<1>7. new[b][o] = stored[b][o]
  BY <1>4, <1>6 DEF Remembered
<1>8. stored = Stored(copied, at, p)
  BY <1>4, <1>5
<1>9. stored[b][o] = IF q \in batch /\ k \in at[q] THEN SubSeq(tokens[q] \o p[q], 1, k)
                     ELSE copied[b][o]
  BY <1>2, <1>3, <1>8, StoredIs
<1>10. \A x \in Sources(b) : copied[b][o] = cache[x][o]
  BY <1>5, CopiedIs
<1>11. QED
  BY <1>2, <1>3, <1>7, <1>9, <1>10
\* Sequences that agree up to k have one prefix of that length.
LEMMA PrefixesAgree ==
    ASSUME NEW u \in Seq(Tokens), NEW v \in Seq(Tokens), NEW k \in Nat,
           k <= Len(u), k <= Len(v), \A i \in 1..k : u[i] = v[i]
    PROVE  SubSeq(u, 1, k) = SubSeq(v, 1, k)
<1>1. ASSUME NEW t \in Seq(Tokens), k <= Len(t)
      PROVE  SubSeq(t, 1, k) \in Seq(Tokens) /\ Len(SubSeq(t, 1, k)) = k
             /\ \A i \in 1..k : SubSeq(t, 1, k)[i] = t[i]
  <2>1. k - 1 + 1 = k /\ (\A i \in 1..k : 1 + i - 1 = i) /\ (1 <= k \/ k = 0)
    OBVIOUS
  <2>2. \A i \in 1..k : t[i] \in Tokens
    BY <1>1
  <2>3. /\ SubSeq(t, 1, k) \in Seq(Tokens)
        /\ Len(SubSeq(t, 1, k)) = IF 1 <= k THEN k - 1 + 1 ELSE 0
        /\ \A i \in 1..k - 1 + 1 : SubSeq(t, 1, k)[i] = t[1 + i - 1]
    BY <2>2, SubSeqProperties
  <2>4. QED
    BY <2>1, <2>3
<1>2. PICK x \in Seq(Tokens) : x = SubSeq(u, 1, k)
  BY <1>1
<1>3. PICK y \in Seq(Tokens) : y = SubSeq(v, 1, k)
  BY <1>1
<1>4. Len(x) = k /\ Len(y) = k /\ \A i \in 1..k : x[i] = u[i] /\ y[i] = v[i]
  BY <1>1, <1>2, <1>3
<1>5. x = y
  BY <1>4, SeqEqual
<1>6. QED
  BY <1>2, <1>3, <1>5

\* A prefix of a sequence is a prefix of what follows it.
LEMMA PrefixStays ==
    ASSUME NEW u \in Seq(Tokens), NEW v \in Seq(Tokens), NEW k \in Nat, k <= Len(u)
    PROVE  SubSeq(u \o v, 1, k) = SubSeq(u, 1, k)
<1>1. /\ u \o v \in Seq(Tokens) /\ Len(u \o v) = Len(u) + Len(v)
      /\ \A i \in 1..Len(u) : (u \o v)[i] = u[i]
  BY ConcatProperties
<1>2. PICK w \in Seq(Tokens) : w = u \o v
  BY <1>1
<1>3. Len(u) \in Nat /\ Len(v) \in Nat
  OBVIOUS
<1>4. k <= Len(w) /\ \A i \in 1..k : w[i] = u[i]
  BY <1>1, <1>2, <1>3
<1>5. SubSeq(w, 1, k) = SubSeq(u, 1, k)
  BY <1>4, PrefixesAgree
<1>6. QED
  BY <1>2, <1>5

LEMMA NothingFollows ==
    ASSUME NEW u \in Seq(Tokens)
    PROVE  u \o << >> = u
BY ConcatEmptySeq

\* Version 2 computes a prompt from its first token.
LEMMA NothingIsComputed ==
    ASSUME HoldsTheirTokens, NEW s \in Running, s \in batch
    PROVE  ComputedBlocks(s) = 0 /\ Len(tokens[s]) <= Room(s)
<1>1. /\ TypeInv /\ FitInv /\ HashInv /\ UsesV2 /\ s \in Seqs /\ Placed(s) /\ tokens[s] # << >>
      /\ HasItsSlots(s)
  BY RunningFits DEF HoldsTheirTokens, BlocksInv, HasItsSlots
<1>2. seen[s] <= Room(s) /\ seen[s] = Len(tokens[s])
  BY <1>1 DEF FitInv, Room
<1>3. Len(tokens[s]) > 0 /\ Len(tokens[s]) <= Room(s)
  <2>1. tokens[s] \in Seq(Tokens)
    BY <1>1 DEF TypeInv
  <2>2. Len(tokens[s]) # 0 /\ Len(tokens[s]) \in Nat
    BY <1>1, <2>1, EmptySeq
  <2>3. QED
    BY <1>2, <2>2
<1>4. /\ table[s] \in Seq(Blocks) /\ Len(table[s]) \in Nat /\ DOMAIN table[s] = 1..Len(table[s])
      /\ Len(tokens[s]) \in Nat
  BY <1>1 DEF TypeInv
<1>5. Len(table[s]) > 0
  <2>1. Len(table[s]) = 0 => Room(s) = 0
    BY KVCacheAssumption DEF Room
  <2>2. QED
    BY <1>3, <1>4, <2>1
<1>6. \A i \in 1..Len(table[s]) : ~computed[table[s][i]]
  <2>1. ASSUME NEW i \in 1..Len(table[s])
        PROVE  ~computed[table[s][i]]
    <3>1. table[s][i] \in Blocks
      BY <1>4
    <3>2. QED
      BY <1>1, <3>1 DEF HashInv
  <2>2. QED
    BY <2>1
<1> DEFINE C(n) == /\ \A i \in 1..n : computed[table[s][i]]
                   /\ n + 1 <= Len(table[s]) - 1 => ~computed[table[s][n + 1]]
<1>7. 0 \in 0..Len(table[s]) - 1 /\ C(0)
  <2>1. 1 <= Len(table[s]) - 1 => ~computed[table[s][1]]
    BY <1>4, <1>6
  <2>2. 0 \in 0..Len(table[s]) - 1 /\ 1..0 = {} /\ 0 + 1 = 1
    BY <1>4, <1>5
  <2>3. QED
    BY <2>1, <2>2
<1>8. ASSUME NEW n \in 0..Len(table[s]) - 1, C(n)
      PROVE  n = 0
  <2>1. CASE n > 0
    <3>1. 1 \in 1..n /\ 1 \in 1..Len(table[s])
      BY <1>4, <2>1
    <3>2. QED
      BY <1>6, <1>8, <3>1
  <2>2. QED
    BY <2>1
<1>9. ComputedBlocks(s) = CHOOSE n \in 0..Len(table[s]) - 1 : C(n)
  BY DEF ComputedBlocks
<1> HIDE DEF C
<1>10. ComputedBlocks(s) = 0
  BY <1>7, <1>8, <1>9
<1>11. QED
  BY <1>3, <1>10

\* What is written in a round is in blocks with one holder.
LEMMA RoundWritesAlone ==
    ASSUME HoldsTheirTokens, phase = "prefill" \/ Decoding, NEW at,
           NEW p, \A s \in batch : Len(p[s]) \in Nat /\ Len(p[s]) <= NumLookaheadSlots,
           \A s \in batch : at[s] \subseteq
               IF phase = "prefill" THEN 1..Len(tokens[s])
               ELSE Len(tokens[s])..Len(tokens[s]) + Len(p[s])
    PROVE  WritesAlone(at)
<1>1. /\ TypeInv /\ RoundInv /\ StatusInv /\ SharingInv /\ RoomInv /\ batch \subseteq Running
      /\ Running \subseteq Seqs
  BY DEF HoldsTheirTokens, BlocksInv, RoundInv, Running
<1>2. ASSUME NEW s \in batch, NEW w \in at[s]
      PROVE  w \in Nat \ {0} /\ w <= Room(s) /\ refCount[BlockAt(s, w)] = 1
  <2>1. s \in Running /\ s \in Seqs
    BY <1>1
  <2>2. /\ Len(tokens[s]) \in Nat /\ Len(tokens[s]) > 0 /\ Room(s) \in Nat
        /\ NumLookaheadSlots \in Nat /\ Len(tokens[s]) <= Room(s)
    BY <1>1, <2>1, EndsWithin, RoomIs, LookaheadIs, NothingIsComputed
  <2>3. CASE phase = "prefill"
    <3>1. w \in 1..Len(tokens[s])
      BY <2>3
    <3>2. w \in Nat \ {0} /\ w <= Room(s)
      BY <2>2, <3>1
    <3>3. BlockAt(s, w) \in Range(table[s])
      BY <1>1, <2>1, <3>2, BlockWithin
    <3>4. BlockAt(s, w) \in pending.fresh
      BY <1>1, <2>3, <3>3 DEF RoomInv
    <3>5. QED
      BY <1>1, <3>2, <3>4, FreshHaveOneHolder
  <2>4. CASE phase # "prefill"
    <3>1. w \in Len(tokens[s])..Len(tokens[s]) + Len(p[s])
      BY <2>4
    <3>2. Len(p[s]) \in Nat /\ Len(p[s]) <= NumLookaheadSlots
      OBVIOUS
    <3>3. /\ Len(tokens[s]) + NumLookaheadSlots <= Room(s)
          /\ \A k \in Len(tokens[s])..Len(tokens[s]) + NumLookaheadSlots :
                refCount[BlockAt(s, k)] = 1
      BY <1>1, <2>4 DEF RoomInv
    <3>4. w \in Len(tokens[s])..Len(tokens[s]) + NumLookaheadSlots
      <4> DEFINE L == Len(tokens[s])
                 P == Len(p[s])
                 K == NumLookaheadSlots
      <4>1. L \in Nat /\ P \in Nat /\ K \in Nat /\ P <= K /\ w \in L..L + P
        BY <2>2, <3>1, <3>2
      <4> HIDE DEF L, P, K
      <4>2. w \in L..L + K
        BY <4>1
      <4>3. QED
        BY <4>2 DEF L, K
    <3>5. w \in Nat \ {0} /\ w <= Room(s)
      BY <2>2, <3>3, <3>4
    <3>6. QED
      BY <3>3, <3>4, <3>5
  <2>5. QED
    BY <2>3, <2>4
<1>3. QED
  BY <1>2 DEF WritesAlone
\* The model runs: the batch finds what it is told to compute, and nobody loses
\* what it had.
LEMMA ExecuteHolds ==
    ASSUME HoldsTheirTokens, Execute
    PROVE  (SharingInv /\ RoomInv /\ ContentInv)'
<1>1. /\ TypeInv /\ StatusInv /\ RoundInv /\ TableInv /\ SharingInv /\ RoomInv /\ ContentInv
      /\ BlocksInv /\ UsesV2 /\ CountsMatchTables
  BY DEF HoldsTheirTokens, BlocksInv, TableInv
<1>2. /\ phase = "prefill" \/ (Decoding /\ todo = {})
      /\ pending' = NothingPending /\ todo' = batch /\ batch' = {}
      /\ phase' = (IF batch = {} THEN "idle" ELSE "outputs")
      /\ UNCHANGED <<table, refCount, seen, setup, status, tokens>>
  BY DEF Execute, seqVars
<1>3. batch \subseteq Running /\ Running \subseteq Seqs /\ phase # "outputs" /\ Running' = Running
  BY <1>1, <1>2 DEF RoundInv, Running, Decoding
<1> DEFINE S == IF phase = "prefill" THEN {} ELSE {s \in batch : Speculates(s)}
<1>4. PICK p \in Proposals(S) :
          /\ proposal' = p
          /\ kv' = Remembered(Stored(Copied(kv),
                                     [s \in batch |-> TargetPositions(s, p)], p))
          /\ draft' = IF NumLookaheadSlots = 0 THEN draft
                      ELSE Remembered(Stored(Copied(draft),
                                             [s \in batch |-> DraftPositions(s, p)], p))
  BY DEF Execute
<1>7. PICK T : T = [s \in batch |-> TargetPositions(s, p)]
  OBVIOUS
<1>8. PICK D : D = [s \in batch |-> DraftPositions(s, p)]
  OBVIOUS
<1>9. /\ proposal' = p
      /\ kv' = Remembered(Stored(Copied(kv), T, p))
      /\ NumLookaheadSlots # 0 => draft' = Remembered(Stored(Copied(draft), D, p))
  BY <1>4, <1>7, <1>8
<1>10. NumLookaheadSlots \in Nat
  BY LookaheadIs
<1>11. S \in SUBSET batch /\ S \in SUBSET Seqs
  BY <1>3
<1>12. \A s \in batch : s \in S <=> phase # "prefill" /\ Speculates(s)
  OBVIOUS
<1> HIDE DEF S
<1>13. /\ p \in [Seqs -> Seq(Tokens)]
       /\ \A s \in Seqs : Len(p[s]) = IF s \in S THEN NumLookaheadSlots ELSE 0
       /\ \A s \in Seqs : s \notin S \/ NumLookaheadSlots = 0 => p[s] = << >>
  BY <1>11, ProposalsAre
<1>14. \A s \in Seqs : Len(p[s]) \in Nat /\ Len(p[s]) <= NumLookaheadSlots
  BY <1>10, <1>13
<1>15. \A s \in Running : /\ s \in Seqs /\ Len(tokens[s]) \in Nat /\ Len(tokens[s]) > 0
                          /\ Room(s) \in Nat /\ Len(tokens[s]) - 1 <= Room(s)
                          /\ tokens[s] \in Seq(Tokens)
  BY <1>1, <1>3, EndsWithin, RoomIs DEF RoomInv, TypeInv
<1>16. \A s \in batch : ComputedBlocks(s) = 0 /\ Len(tokens[s]) <= Room(s)
  BY <1>3, NothingIsComputed
<1>17. \A s \in batch : /\ phase = "prefill" => T[s] = 1..Len(tokens[s]) /\ D[s] = 1..Len(tokens[s])
                        /\ phase # "prefill" =>
                              /\ T[s] = Len(tokens[s])..Len(tokens[s]) + Len(p[s])
                              /\ D[s] = Len(tokens[s])..Len(tokens[s]) + Len(p[s]) - 1
  <2>1. ASSUME NEW s \in batch
        PROVE  /\ T[s] = TargetPositions(s, p) /\ D[s] = DraftPositions(s, p)
               /\ ComputedBlocks(s) * BlockSize + 1 = 1
    <3>1. 0 * BlockSize + 1 = 1
      BY KVCacheAssumption
    <3>2. QED
      BY <1>7, <1>8, <1>16, <3>1
  <2>2. QED
    BY <2>1 DEF TargetPositions, DraftPositions, ScoredPositions, DraftedPositions
<1>18. WritesAlone(T)
  BY <1>2, <1>3, <1>14, <1>17, RoundWritesAlone
<1>19. WritesAlone(D)
  <2>1. \A s \in batch : D[s] \subseteq IF phase = "prefill" THEN 1..Len(tokens[s])
                                      ELSE Len(tokens[s])..Len(tokens[s]) + Len(p[s])
    <3>1. ASSUME NEW m \in Nat, NEW n \in Nat
          PROVE  m..m + n - 1 \subseteq m..m + n
      OBVIOUS
    <3>2. ASSUME NEW s \in batch
          PROVE  D[s] \subseteq IF phase = "prefill" THEN 1..Len(tokens[s])
                                ELSE Len(tokens[s])..Len(tokens[s]) + Len(p[s])
      <4>1. Len(tokens[s]) \in Nat /\ Len(p[s]) \in Nat
        BY <1>3, <1>14, <1>15
      <4>2. Len(tokens[s])..Len(tokens[s]) + Len(p[s]) - 1
              \subseteq Len(tokens[s])..Len(tokens[s]) + Len(p[s])
        BY <3>1, <4>1
      <4>3. QED
        BY <1>17, <4>2
    <3>3. QED
      BY <3>2
  <2>2. QED
    BY <1>2, <1>3, <1>14, <2>1, RoundWritesAlone
<1>20. SharingInv'
  <2>1. pending'.fresh = {} /\ pending'.copies = {}
    BY <1>2 DEF NothingPending
  <2>2. NumLookaheadSlots' = NumLookaheadSlots
    BY <1>2 DEF NumLookaheadSlots
  <2>3. QED
    BY <1>1, <1>2, <2>1, <2>2 DEF SharingInv
<1>21. \A s \in Seqs : ~InOutputs(s) /\ proposal[s] = << >> /\ (HasItsSlots(s) <=> s \in batch)
  BY <1>3, BeforeOutputs
<1>22. \A s \in Seqs : (InOutputs(s)' <=> s \in batch) /\ (HasItsSlots(s)' <=> s \in batch)
  BY <1>2 DEF InOutputs, HasItsSlots
<1>23. RoomInv'
  <2>1. ASSUME NEW s \in Running
        PROVE  /\ ~HasItsSlots(s)' => seen[s] < Len(tokens[s])
               /\ InOutputs(s)' => Len(tokens[s]) + Len(p[s]) <= Room(s)
    <3>1. ~HasItsSlots(s)' => seen[s] < Len(tokens[s])
      BY <1>1, <1>15, <1>21, <1>22 DEF RoomInv
    <3>2. ASSUME InOutputs(s)'
          PROVE  Len(tokens[s]) + Len(p[s]) <= Room(s)
      <4>1. s \in batch /\ s \in Seqs
        BY <1>15, <1>22, <3>2
      <4>2. CASE phase = "prefill"
        <5>1. Len(p[s]) = 0
          BY <1>12, <1>13, <4>1, <4>2
        <5>2. QED
          BY <1>15, <1>16, <4>1, <5>1
      <4>3. CASE phase # "prefill"
        <5>1. Len(tokens[s]) + NumLookaheadSlots <= Room(s)
          BY <1>1, <4>1, <4>3 DEF RoomInv
        <5> DEFINE L == Len(tokens[s])
                   P == Len(p[s])
                   R == Room(s)
        <5>2. L \in Nat /\ P \in Nat /\ R \in Nat /\ P <= NumLookaheadSlots
              /\ L + NumLookaheadSlots <= R
          BY <1>14, <1>15, <4>1, <5>1
        <5> HIDE DEF L, P, R
        <5>3. L + P <= R
          BY <1>10, <5>2
        <5>4. QED
          BY <5>3 DEF L, P, R
      <4>4. QED
        BY <4>2, <4>3
    <3>3. QED
      BY <3>1, <3>2
  <2>2. \A s \in Seqs : p[s] # << >> => InOutputs(s)'
    BY <1>11, <1>13, <1>22
  <2>3. \A s \in Running : Room(s)' = Room(s) /\ Len(tokens[s]) - 1 <= Room(s)
    BY <1>2, <1>15 DEF Room
  <2>4. QED
    BY <1>2, <1>3, <1>9, <2>1, <2>2, <2>3 DEF RoomInv
\* What s has in either cache after the round.
<1>24. ASSUME NEW cache, NEW new, NEW at, ExecutedTo(cache, at, p, new),
              NEW s \in Running, NEW n \in Nat, n <= Room(s),
              \A k \in 1..n : (s \in batch /\ k \in at[s]) \/
                  (k <= Len(tokens[s]) - 1 /\ ~Admitted(s)
                   /\ HoldsUpTo(cache, s, Len(tokens[s]) - 1))
       PROVE  HoldsUpTo(new, s, n)'
  <2>0. ExecutedTo(cache, at, p, new)
    BY <1>24
  <2>1. /\ s \in Seqs /\ Len(tokens[s]) \in Nat /\ Room(s) \in Nat
        /\ tokens[s] \in Seq(Tokens) /\ p[s] \in Seq(Tokens)
    BY <1>13, <1>15
  <2>2. Text(s)' = tokens[s] \o p[s]
    BY <1>2, <1>9 DEF Text
  <2>3. \A b : Sources(b)' = {b}
    BY <1>2 DEF Sources, NothingPending
  <2>4. ASSUME NEW k \in 1..n
        PROVE  new[BlockAt(s, k)][OffsetAt(k)] = SubSeq(tokens[s] \o p[s], 1, k)
    <3>1. k \in Nat \ {0} /\ k <= Room(s) /\ k \in Nat
      BY <1>24, <2>1
    <3>2. FoundAfter(cache, at, p, new, s, k)
      BY <2>0, <3>1, ExecutedIs
    <3>3. CASE s \in batch /\ k \in at[s]
      BY <3>3, <3>2 DEF FoundAfter
    <3>4. CASE ~(s \in batch /\ k \in at[s])
      <4>1. k <= Len(tokens[s]) - 1 /\ HoldsUpTo(cache, s, Len(tokens[s]) - 1)
        BY <1>24, <3>4
      <4>2. k \in 1..Len(tokens[s]) - 1 /\ k <= Len(tokens[s])
        BY <2>1, <3>1, <4>1
      <4>3. PICK x \in Sources(BlockAt(s, k)) : cache[x][OffsetAt(k)] = SubSeq(Text(s), 1, k)
        BY <4>1, <4>2 DEF HoldsUpTo
      <4>4. new[BlockAt(s, k)][OffsetAt(k)] = cache[x][OffsetAt(k)]
        BY <3>4, <3>2, <4>3 DEF FoundAfter
      <4>5. Text(s) = tokens[s]
        BY <1>21, <2>1, NothingFollows DEF Text
      <4>6. SubSeq(tokens[s] \o p[s], 1, k) = SubSeq(tokens[s], 1, k)
        BY <2>1, <3>1, <4>2, PrefixStays
      <4>7. QED
        BY <4>3, <4>4, <4>5, <4>6
    <3>5. QED
      BY <3>3, <3>4
  <2>5. ASSUME NEW k \in 1..n
        PROVE  \E x \in Sources(BlockAt(s, k))' :
                   new[x][OffsetAt(k)] = SubSeq(Text(s)', 1, k)
    <3>1. PICK b : b = BlockAt(s, k)
      OBVIOUS
    <3>2. BlockAt(s, k)' = b
      BY <1>2, <3>1 DEF BlockAt
    <3>3. Sources(BlockAt(s, k))' = {b}
      BY <1>2, <3>2 DEF Sources, NothingPending
    <3>4. QED
      BY <2>2, <2>4, <3>1, <3>3
  <2>6. QED
    BY <2>5 DEF HoldsUpTo, OffsetAt
<1>25. ASSUME NEW s \in Running
       PROVE  FindsItsTokens(s)'
  <2>0. PICK L, P, R : L = Len(tokens[s]) /\ P = Len(p[s]) /\ R = Room(s)
    OBVIOUS
  <2>1. /\ s \in Seqs /\ L \in Nat /\ L > 0 /\ R \in Nat /\ L - 1 <= R
        /\ P \in Nat /\ P <= NumLookaheadSlots
    BY <1>14, <1>15, <2>0
  <2>2. ~Admitted(s) => FindsItsTokens(s)
    BY <1>1 DEF ContentInv
  <2>3. TargetEnd(s) = L - 1 /\ DraftEnd(s) = L - 1
    <3>1. proposal[s] = << >> /\ ~InOutputs(s)
      BY <1>21, <2>1
    <3>2. Len(proposal[s]) = 0
      BY <3>1
    <3>3. QED
      BY <2>0, <2>1, <3>1, <3>2 DEF TargetEnd, DraftEnd
  <2>4. TargetEnd(s)' = IF s \in batch THEN L + P ELSE L - 1
    BY <1>2, <1>9, <1>22, <2>0, <2>1 DEF TargetEnd
  <2>5. DraftEnd(s)' = IF s \in batch /\ p[s] = << >> THEN L ELSE L + P - 1
    BY <1>2, <1>9, <1>22, <2>0, <2>1 DEF DraftEnd
  <2>6. s \notin batch => P = 0 /\ ~Admitted(s)
    BY <1>11, <1>13, <2>0, <2>1 DEF Admitted
  <2>7. s \in batch => L + P <= R /\ L <= R
    <3>1. s \in batch => InOutputs(s)'
      BY <1>22, <2>1
    <3>2. s \in batch => Len(tokens'[s]) + Len(proposal'[s]) <= Room(s)'
      BY <1>3, <1>23, <3>1 DEF RoomInv
    <3>3. QED
      BY <1>2, <1>9, <1>16, <2>0, <3>2 DEF Room
  <2>8. phase = "prefill" /\ s \in batch => P = 0 /\ p[s] = << >>
    BY <1>12, <1>13, <2>0, <2>1
  <2>9. HoldsUpTo(kv, s, TargetEnd(s))'
    <3> DEFINE n == IF s \in batch THEN L + P ELSE L - 1
    <3>1. n \in Nat /\ n <= R
      <4>1. CASE s \in batch
        BY <2>1, <2>7, <4>1
      <4>2. CASE s \notin batch
        BY <2>1, <4>2
      <4>3. QED
        BY <4>1, <4>2
    <3>2. ASSUME NEW k \in 1..n
          PROVE  (s \in batch /\ k \in T[s]) \/
                   (k <= L - 1 /\ ~Admitted(s) /\ HoldsUpTo(kv, s, L - 1))
      <4>1. CASE s \notin batch
        BY <2>1, <2>2, <2>3, <2>6, <4>1 DEF FindsItsTokens
      <4>2. CASE s \in batch /\ phase = "prefill"
        <5>1. T[s] = 1..L
          BY <1>17, <2>0, <4>2
        <5>2. n = L + P /\ P = 0
          BY <2>8, <4>2
        <5>3. n = L
          BY <2>1, <5>2
        <5>4. QED
          BY <4>2, <5>1, <5>3
      <4>3. CASE s \in batch /\ phase # "prefill"
        <5>1. T[s] = L..L + P /\ n = L + P
          BY <1>17, <2>0, <4>3
        <5>2. ~Admitted(s) /\ HoldsUpTo(kv, s, L - 1)
          BY <2>2, <2>3, <4>3 DEF FindsItsTokens, Admitted
        <5> HIDE DEF n
        <5>3. k \in L..L + P \/ k <= L - 1
          BY <2>1, <5>1
        <5>4. QED
          BY <4>3, <5>1, <5>2, <5>3
      <4>4. QED
        BY <4>1, <4>2, <4>3
    <3>3. PICK new : new = kv'
      OBVIOUS
    <3>4. PICK m \in Nat : m = n
      BY <3>1
    <3>5. HoldsUpTo(new, s, m)'
      <4>1. ExecutedTo(kv, T, p, new) /\ m <= Room(s)
        BY <1>9, <1>18, <2>0, <3>1, <3>3, <3>4 DEF ExecutedTo
      <4>2. \A k \in 1..m : (s \in batch /\ k \in T[s]) \/
                   (k <= Len(tokens[s]) - 1 /\ ~Admitted(s) /\ HoldsUpTo(kv, s, Len(tokens[s]) - 1))
        BY <2>0, <3>2, <3>4
      <4> HIDE DEF n
      <4>3. QED
        BY <1>24, <4>1, <4>2
    <3>6. TargetEnd(s)' = m
      BY <2>4, <3>4
    <3>7. QED
      BY <3>3, <3>5, <3>6 DEF HoldsUpTo
  <2>10. ASSUME Drafted(s)'
         PROVE  HoldsUpTo(draft, s, DraftEnd(s))'
    <3>1. Drafted(s)
      BY <1>2, <2>10 DEF Drafted, Speculates, NumLookaheadSlots
    <3>2. NumLookaheadSlots > 0 /\ Speculates(s)
      <4>1. NumLookaheadSlots = NumSpeculativeTokens
        BY <3>1 DEF Drafted, NumLookaheadSlots
      <4>2. NumSpeculativeTokens \in Nat /\ NumSpeculativeTokens # 0
        BY KVCacheAssumption
      <4>3. NumLookaheadSlots > 0
        BY <1>10, <4>1, <4>2
      <4>4. QED
        BY <3>1, <4>3 DEF Drafted
    <3> DEFINE n == IF s \in batch /\ p[s] = << >> THEN L ELSE L + P - 1
    <3>3. phase # "prefill" /\ s \in batch => P = NumLookaheadSlots /\ p[s] # << >>
      <4>1. phase # "prefill" /\ s \in batch => P = NumLookaheadSlots
        BY <1>12, <1>13, <2>0, <2>1, <3>2
      <4>2. p[s] = << >> => P = 0
        BY <2>0
      <4>3. QED
        BY <1>10, <3>2, <4>1, <4>2
    <3>4. n \in Nat /\ n <= R
      <4>1. CASE s \in batch
        BY <2>1, <2>7, <4>1
      <4>2. CASE s \notin batch
        BY <2>1, <2>6, <4>2
      <4>3. QED
        BY <4>1, <4>2
    <3>5. ASSUME NEW k \in 1..n
          PROVE  (s \in batch /\ k \in D[s]) \/
                   (k <= L - 1 /\ ~Admitted(s) /\ HoldsUpTo(draft, s, L - 1))
      <4>1. CASE s \notin batch
        <5>1. HoldsUpTo(draft, s, L - 1) /\ ~Admitted(s) /\ n = L - 1
          <6>1. P = 0 /\ n = L + P - 1
            BY <2>6, <4>1
          <6>2. FindsItsTokens(s) /\ ~Admitted(s)
            BY <2>2, <2>6, <4>1
          <6>3. HoldsUpTo(draft, s, L - 1)
            BY <2>3, <3>1, <6>2 DEF FindsItsTokens
          <6> HIDE DEF n
          <6>4. QED
            BY <2>1, <6>1, <6>2, <6>3
        <5> HIDE DEF n
        <5>2. k <= L - 1
          BY <2>1, <5>1
        <5>3. QED
          BY <5>1, <5>2
      <4>2. CASE s \in batch /\ phase = "prefill"
        <5>1. D[s] = 1..L /\ n = L
          BY <1>17, <2>0, <2>1, <2>8, <4>2
        <5>2. QED
          BY <4>2, <5>1
      <4>3. CASE s \in batch /\ phase # "prefill"
        <5>1. D[s] = L..L + P - 1 /\ n = L + P - 1
          BY <1>17, <2>0, <3>3, <4>3
        <5>2. ~Admitted(s) /\ HoldsUpTo(draft, s, L - 1)
          BY <2>2, <2>3, <3>1, <4>3 DEF FindsItsTokens, Admitted
        <5> HIDE DEF n
        <5>3. k \in L..L + P - 1 \/ k <= L - 1
          BY <2>1, <5>1
        <5>4. QED
          BY <4>3, <5>1, <5>2, <5>3
      <4>4. QED
        BY <4>1, <4>2, <4>3
    <3>6. PICK new : new = draft'
      OBVIOUS
    <3>7. PICK m \in Nat : m = n
      BY <3>4
    <3>8. HoldsUpTo(new, s, m)'
      <4>1. ExecutedTo(draft, D, p, new) /\ m <= Room(s)
        <5>1. NumLookaheadSlots # 0
          BY <3>2
        <5>2. m <= Room(s)
          BY <2>0, <3>4, <3>7
        <5>3. QED
          BY <1>9, <1>19, <3>6, <5>1, <5>2 DEF ExecutedTo
      <4>2. \A k \in 1..m : (s \in batch /\ k \in D[s]) \/
                   (k <= Len(tokens[s]) - 1 /\ ~Admitted(s) /\ HoldsUpTo(draft, s, Len(tokens[s]) - 1))
        BY <2>0, <3>5, <3>7
      <4> HIDE DEF n
      <4>3. QED
        BY <1>24, <4>1, <4>2
    <3>9. DraftEnd(s)' = m
      BY <2>5, <3>7
    <3>10. QED
      BY <3>6, <3>8, <3>9 DEF HoldsUpTo
  <2>11. QED
    BY <2>9, <2>10 DEF FindsItsTokens
<1>26. ContentInv'
  BY <1>3, <1>25 DEF ContentInv
<1>27. QED
  BY <1>20, <1>23, <1>26
\* One output is taken: the round is over for s, and nothing changes for others.
LEMMA OutputTaken ==
    ASSUME HoldsTheirTokens, NEW s \in Seqs, NextOutput(s)
    PROVE  /\ s \in Running /\ InOutputs(s) /\ HasItsSlots(s) /\ s \in todo
           /\ ~InOutputs(s)' /\ ~HasItsSlots(s)' /\ proposal'[s] = << >>
           /\ \A q \in Seqs : q # s => /\ InOutputs(q)' <=> InOutputs(q)
                                       /\ HasItsSlots(q)' <=> HasItsSlots(q)
                                       /\ proposal'[q] = proposal[q]
           /\ batch = {} /\ batch' = {} /\ pending = NothingPending /\ pending' = NothingPending
<1>1. BlocksInv /\ TypeInv
  BY DEF HoldsTheirTokens, BlocksInv
<1>2. /\ s \in Running /\ s \in todo /\ HasItsSlots(s) /\ todo' = todo \ {s} /\ batch' = batch
      /\ pending' = pending /\ batch = {} /\ pending = NothingPending /\ phase = "outputs"
      /\ phase' \in {"idle", "outputs"} /\ (phase' = "idle" => todo' = {})
  BY <1>1, NextOutputIs
<1>3. proposal' = [proposal EXCEPT ![s] = << >>]
  BY DEF NextOutput
<1>4. \A q \in Seqs : proposal'[q] = IF q = s THEN << >> ELSE proposal[q]
  BY <1>1, <1>3 DEF TypeInv
<1>5. ASSUME NEW q \in Seqs, q # s
      PROVE  phase' = "outputs" /\ q \in todo' <=> phase = "outputs" /\ q \in todo
  BY <1>2, <1>5
<1>6. QED
  BY <1>2, <1>4, <1>5 DEF InOutputs, HasItsSlots

\* Between two rounds no copy is pending.
LEMMA NoSources ==
    ASSUME pending = NothingPending
    PROVE  \A b : Sources(b) = {b}
BY DEF Sources, NothingPending

\* What is appended to a sequence, but for the last token, is what the models
\* stored.
LEMMA TokensGrowHolds ==
    ASSUME HoldsTheirTokens, NEW s \in Seqs, NextOutput(s), NEW t \in Seq(Tokens),
           Len(tokens[s]) < Len(t), Len(t) - 1 <= TargetEnd(s), Len(t) - 1 <= DraftEnd(s),
           \A i \in 1..Len(t) - 1 : t[i] = Text(s)[i],
           tokens' = [tokens EXCEPT ![s] = t],
           UNCHANGED <<setup, status, kv, draft>>, UNCHANGED blockVars
    PROVE  (SharingInv /\ RoomInv /\ ContentInv)'
<1>1. /\ TypeInv /\ StatusInv /\ RoundInv /\ FitInv /\ SharingInv /\ RoomInv /\ ContentInv
      /\ BlocksInv /\ UsesV2
  BY DEF HoldsTheirTokens, BlocksInv
<1>2. /\ s \in Running /\ InOutputs(s) /\ HasItsSlots(s) /\ s \in todo
      /\ ~InOutputs(s)' /\ ~HasItsSlots(s)' /\ proposal'[s] = << >>
      /\ \A q \in Seqs : q # s => /\ InOutputs(q)' <=> InOutputs(q)
                                  /\ HasItsSlots(q)' <=> HasItsSlots(q)
                                  /\ proposal'[q] = proposal[q]
      /\ batch = {} /\ batch' = {} /\ pending = NothingPending /\ pending' = NothingPending
  BY OutputTaken
<1>3. /\ Running' = Running /\ Running \subseteq Seqs /\ NumLookaheadSlots' = NumLookaheadSlots
      /\ UNCHANGED <<table, refCount, seen>>
  BY DEF Running, NumLookaheadSlots, blockVars
<1>4. \A q \in Seqs : tokens'[q] = IF q = s THEN t ELSE tokens[q]
  BY <1>1 DEF TypeInv
<1>5. \A q \in Seqs : Room(q)' = Room(q)
  BY <1>3 DEF Room
<1>6. /\ Len(tokens[s]) \in Nat /\ Len(t) \in Nat /\ Room(s) \in Nat /\ seen[s] \in Nat
      /\ TargetEnd(s) \in Nat /\ DraftEnd(s) \in Nat /\ TargetEnd(s) <= Room(s)
      /\ DraftEnd(s) <= TargetEnd(s) /\ Len(proposal[s]) \in Nat
  <2>1. /\ TargetEnd(s) \in Nat /\ DraftEnd(s) \in Nat
        /\ TargetEnd(s) <= Room(s) /\ DraftEnd(s) <= TargetEnd(s)
    BY <1>1, <1>2, EndsWithin
  <2>2. Room(s) \in Nat /\ Len(tokens[s]) \in Nat /\ Len(proposal[s]) \in Nat
    BY <1>1, RoomIs
  <2>3. Len(t) \in Nat /\ seen[s] \in Nat
    BY <1>1 DEF TypeInv
  <2>4. QED
    BY <2>1, <2>2, <2>3
<1>7. seen[s] < Len(t)
  <2>1. seen[s] <= Len(tokens[s])
    BY <1>1, <1>2 DEF FitInv, Placed, Running
  <2>2. QED
    BY <1>6, <2>1
<1>8. SharingInv'
  <2>1. pending'.fresh = {} /\ pending'.copies = {}
    BY <1>2 DEF NothingPending
  <2>2. QED
    BY <1>1, <1>3, <2>1 DEF SharingInv
<1>9. RoomInv'
  <2>1. ASSUME NEW q \in Running
        PROVE  /\ Len(tokens'[q]) - 1 <= Room(q)'
               /\ ~HasItsSlots(q)' => seen'[q] < Len(tokens'[q])
               /\ InOutputs(q)' => Len(tokens'[q]) + Len(proposal'[q]) <= Room(q)'
    <3>1. CASE q = s
      <4>1. tokens'[q] = t /\ Room(q)' = Room(s) /\ seen'[q] = seen[s]
        BY <1>3, <1>4, <1>5, <3>1
      <4>2. Len(t) - 1 <= Room(s)
        BY <1>6
      <4>3. ~InOutputs(q)'
        BY <1>2, <3>1
      <4>4. QED
        BY <1>7, <4>1, <4>2, <4>3
    <3>2. CASE q # s
      <4>1. /\ tokens'[q] = tokens[q] /\ Room(q)' = Room(q) /\ seen'[q] = seen[q]
            /\ proposal'[q] = proposal[q] /\ q \in Running
            /\ (InOutputs(q)' <=> InOutputs(q)) /\ (HasItsSlots(q)' <=> HasItsSlots(q))
        BY <1>2, <1>3, <1>4, <1>5, <3>2
      <4>2. /\ Len(tokens[q]) - 1 <= Room(q)
            /\ ~HasItsSlots(q) => seen[q] < Len(tokens[q])
            /\ InOutputs(q) => Len(tokens[q]) + Len(proposal[q]) <= Room(q)
        BY <1>1, <4>1 DEF RoomInv
      <4>3. QED
        BY <4>1, <4>2
    <3>3. QED
      BY <3>1, <3>2
  <2>2. \A q \in Seqs : proposal'[q] # << >> => InOutputs(q)'
    BY <1>1, <1>2 DEF RoomInv
  <2>3. QED
    BY <1>2, <1>3, <2>1, <2>2 DEF RoomInv
<1>10. ASSUME NEW q \in Running
       PROVE  FindsItsTokens(q)'
  <2>1. q \in Seqs /\ FindsItsTokens(q)
    BY <1>1, <1>2, <1>3 DEF ContentInv, Admitted
  <2>2. \A b : Sources(b) = {b}
    BY <1>2, NoSources
  <2>3. \A b : Sources(b)' = {b}
    BY <1>2 DEF Sources, NothingPending
  <2>4. CASE q # s
    BY <1>2, <1>3, <1>4, <2>1, <2>2, <2>3, <2>4, UntouchedStays
  <2>5. CASE q = s
    <3>1. Len(proposal'[s]) = 0
      BY <1>2
    <3>2. TargetEnd(s)' = Len(t) - 1 /\ DraftEnd(s)' = Len(t) - 1
      <4>1. TargetEnd(s)' = Len(t) - 1
        BY <1>2, <1>4 DEF TargetEnd
      <4>2. DraftEnd(s)' = Len(t) + 0 - 1
        BY <1>2, <1>4, <3>1 DEF DraftEnd
      <4>3. QED
        BY <1>6, <4>1, <4>2
    <3>3. Drafted(s)' => Drafted(s)
      <4>1. Drafted(s)' => setup = "speculative decoding" /\ Len(t) + NumLookaheadSlots < DraftMaxModelLen
        BY <1>3, <1>4 DEF Drafted, Speculates
      <4>2. NumLookaheadSlots \in Nat /\ DraftMaxModelLen \in Nat
        BY LookaheadIs, KVCacheAssumption
      <4>3. Len(t) + NumLookaheadSlots < DraftMaxModelLen =>
              Len(tokens[s]) + NumLookaheadSlots < DraftMaxModelLen
        BY <1>6, <4>2
      <4>4. QED
        BY <4>1, <4>3 DEF Drafted, Speculates
    <3>4. Text(s)' = t
      <4>1. t \o << >> = t
        BY NothingFollows
      <4>2. QED
        BY <1>2, <1>4, <4>1 DEF Text
    <3>5. Text(s) \in Seq(Tokens) /\ Len(Text(s)) = Len(tokens[s]) + Len(proposal[s])
      <4>1. tokens[s] \in Seq(Tokens) /\ proposal[s] \in Seq(Tokens)
        BY <1>1 DEF TypeInv
      <4>2. QED
        BY <4>1, ConcatProperties DEF Text
    <3>6. TargetEnd(s) = Len(tokens[s]) + Len(proposal[s])
      BY <1>2 DEF TargetEnd
    <3>7. ASSUME NEW p \in 1..TargetEnd(s)'
          PROVE  /\ Sources(BlockAt(s, p))' = Sources(BlockAt(s, p))
                 /\ SubSeq(Text(s), 1, p)' = SubSeq(Text(s), 1, p)
      <4>1. PICK b : b = BlockAt(s, p)
        OBVIOUS
      <4>2. BlockAt(s, p)' = b
        BY <1>3, <4>1 DEF BlockAt
      <4>3. Sources(BlockAt(s, p))' = {b} /\ Sources(BlockAt(s, p)) = {b}
        BY <1>2, <2>2, <4>1, <4>2 DEF Sources, NothingPending
      <4>4. PICK v \in Seq(Tokens) : v = Text(s)
        BY <3>5
      <4>5. p \in Nat /\ p <= Len(t) /\ p <= Len(v) /\ 1..p \subseteq 1..Len(t) - 1
        <5>1. p \in 1..Len(t) - 1 /\ Len(v) = TargetEnd(s)
          BY <3>2, <3>5, <3>6, <4>4
        <5>2. QED
          BY <1>6, <5>1
      <4>6. SubSeq(t, 1, p) = SubSeq(v, 1, p)
        BY <4>4, <4>5, PrefixesAgree
      <4>7. QED
        BY <3>4, <4>3, <4>4, <4>6
    <3>8. FindsItsTokens(s)'
      BY <1>6, <2>1, <2>5, <3>2, <3>3, <3>7, TokensStay
    <3>9. QED
      BY <2>5, <3>8
  <2>6. QED
    BY <2>4, <2>5
<1>11. QED
  BY <1>3, <1>8, <1>9, <1>10 DEF ContentInv
\* What the outputs hold of a sequence: its tokens, then what was proposed.
LEMMA TextIs ==
    ASSUME TypeInv, NEW s \in Seqs
    PROVE  /\ tokens[s] \in Seq(Tokens) /\ proposal[s] \in Seq(Tokens) /\ Text(s) \in Seq(Tokens)
           /\ Len(tokens[s]) \in Nat /\ Len(proposal[s]) \in Nat
           /\ Len(Text(s)) = Len(tokens[s]) + Len(proposal[s])
           /\ \A i \in 1..Len(tokens[s]) : Text(s)[i] = tokens[s][i]
           /\ \A i \in 1..Len(proposal[s]) : Text(s)[Len(tokens[s]) + i] = proposal[s][i]
<1>1. tokens[s] \in Seq(Tokens) /\ proposal[s] \in Seq(Tokens)
  BY DEF TypeInv
<1>2. PICK u \in Seq(Tokens) : u = tokens[s]
  BY <1>1
<1>3. PICK v \in Seq(Tokens) : v = proposal[s]
  BY <1>1
<1>4. /\ u \o v \in Seq(Tokens) /\ Len(u \o v) = Len(u) + Len(v)
      /\ \A i \in 1..Len(u) : (u \o v)[i] = u[i]
      /\ \A i \in Len(u) + 1..Len(u) + Len(v) : (u \o v)[i] = v[i - Len(u)]
  BY ConcatProperties
<1>5. Len(u) \in Nat /\ Len(v) \in Nat
  OBVIOUS
<1>6. PICK w : w = u \o v
  OBVIOUS
<1>7. ASSUME NEW i \in 1..Len(v)
      PROVE  w[Len(u) + i] = v[i]
  <2>1. Len(u) + i \in Len(u) + 1..Len(u) + Len(v) /\ Len(u) + i - Len(u) = i
    BY <1>5
  <2>2. w[Len(u) + i] = v[Len(u) + i - Len(u)]
    BY <1>4, <1>6, <2>1
  <2>3. QED
    BY <2>1, <2>2
<1>8. Text(s) = w
  BY <1>2, <1>3, <1>6 DEF Text
<1>9. w \in Seq(Tokens) /\ Len(w) = Len(u) + Len(v) /\ \A i \in 1..Len(u) : w[i] = u[i]
  BY <1>4, <1>6
<1>10. QED
  BY <1>2, <1>3, <1>5, <1>7, <1>8, <1>9

\* A sampled token follows what the model ran over.
LEMMA AppendTokenHolds ==
    ASSUME HoldsTheirTokens, NEW s \in Seqs, AppendToken(s)
    PROVE  (SharingInv /\ RoomInv /\ ContentInv)'
<1>1. TypeInv /\ RoomInv /\ StatusInv
  BY DEF HoldsTheirTokens, BlocksInv
<1>2. /\ proposal[s] = << >> /\ Len(tokens[s]) < Longest(s) /\ NextOutput(s)
      /\ UNCHANGED <<setup, status, kv, draft>> /\ UNCHANGED blockVars
  BY DEF AppendToken
<1>3. PICK x \in Vocabulary[Position(s)] : tokens' = [tokens EXCEPT ![s] = Append(@, x)]
  BY DEF AppendToken
<1>4. InOutputs(s)
  BY <1>2, OutputTaken
<1>5. /\ tokens[s] \in Seq(Tokens) /\ Len(tokens[s]) \in Nat
      /\ \A i \in 1..Len(tokens[s]) : Text(s)[i] = tokens[s][i]
  BY <1>1, TextIs
<1>6. x \in Tokens
  <2>1. Longest(s) \in Nat
    BY <1>1, KVCacheAssumption DEF TypeInv, Longest
  <2>2. Position(s) \in Nat \ {0} /\ Position(s) <= Longest(s)
    BY <1>2, <1>5, <2>1 DEF Position
  <2>3. Vocabulary[Position(s)] \subseteq Tokens
    BY <1>1, <2>2, SampledAre
  <2>4. QED
    BY <2>3
<1>7. PICK u \in Seq(Tokens) : u = tokens[s]
  BY <1>5
<1>8. /\ Append(u, x) \in Seq(Tokens) /\ Len(Append(u, x)) = Len(u) + 1
      /\ \A i \in 1..Len(u) : Append(u, x)[i] = u[i]
  BY <1>6, AppendProperties
<1>9. PICK t \in Seq(Tokens) : t = Append(u, x)
  BY <1>8
<1>10. Len(t) = Len(tokens[s]) + 1 /\ \A i \in 1..Len(tokens[s]) : t[i] = tokens[s][i]
  BY <1>7, <1>8, <1>9
<1>11. tokens' = [tokens EXCEPT ![s] = t]
  BY <1>3, <1>7, <1>9
<1>12. TargetEnd(s) = Len(tokens[s]) /\ DraftEnd(s) = Len(tokens[s])
  <2>1. Len(proposal[s]) = 0
    BY <1>2
  <2>2. QED
    BY <1>2, <1>4, <1>5, <2>1 DEF TargetEnd, DraftEnd
<1>13. Len(t) - 1 = Len(tokens[s]) /\ Len(tokens[s]) < Len(t)
  BY <1>5, <1>10
<1>14. Len(t) - 1 <= TargetEnd(s) /\ Len(t) - 1 <= DraftEnd(s)
  BY <1>5, <1>12, <1>13
<1>15. \A i \in 1..Len(t) - 1 : t[i] = Text(s)[i]
  BY <1>5, <1>10, <1>13
<1>16. QED
  BY <1>2, <1>11, <1>13, <1>14, <1>15, TokensGrowHolds

\* Of the accepted tokens all but the last were proposed, at their positions.
LEMMA AcceptedAre ==
    ASSUME TypeInv, NEW s \in Running, InOutputs(s), proposal[s] # << >>,
           NEW accepted \in AcceptedTokens(s), Len(tokens[s]) + Len(accepted) <= Longest(s)
    PROVE  /\ accepted \in Seq(Tokens) /\ Len(accepted) \in 1..Len(proposal[s])
           /\ \A i \in 1..Len(accepted) - 1 : accepted[i] = proposal[s][i]
<1>1. PICK v \in Seq(Tokens) : v = proposal[s] /\ v # << >>
  BY DEF TypeInv, Running
<1>2. Len(v) \in Nat /\ Len(v) > 0
  <2>1. Len(v) \in Nat /\ Len(v) # 0
    BY <1>1, EmptySeq
  <2>2. QED
    BY <2>1
<1>3. CASE accepted = v
  BY <1>1, <1>2, <1>3
<1>4. CASE accepted # v
  <2>1. PICK n \in 0..Len(v) - 1 : accepted \in {Append(SubSeq(v, 1, n), x) :
                                       x \in Vocabulary[Len(tokens[s]) + n + 1]}
    BY <1>1, <1>4 DEF AcceptedTokens
  <2>2. PICK x \in Vocabulary[Len(tokens[s]) + n + 1] : accepted = Append(SubSeq(v, 1, n), x)
    BY <2>1
  <2>3. n \in Nat /\ n + 1 <= Len(v)
    BY <1>2
  <2>4. /\ SubSeq(v, 1, n) \in Seq(Tokens) /\ Len(SubSeq(v, 1, n)) = n
        /\ \A i \in 1..n : SubSeq(v, 1, n)[i] = v[i]
    <3>1. n - 1 + 1 = n /\ (\A i \in 1..n : 1 + i - 1 = i) /\ (1 <= n \/ n = 0)
      BY <2>3
    <3>2. \A i \in 1..n : v[i] \in Tokens
      BY <2>3
    <3>3. /\ SubSeq(v, 1, n) \in Seq(Tokens)
          /\ Len(SubSeq(v, 1, n)) = IF 1 <= n THEN n - 1 + 1 ELSE 0
          /\ \A i \in 1..n - 1 + 1 : SubSeq(v, 1, n)[i] = v[1 + i - 1]
      BY <2>3, <3>2, SubSeqProperties
    <3>4. QED
      BY <2>3, <3>1, <3>3
  <2>5. PICK u \in Seq(Tokens) : u = SubSeq(v, 1, n)
    BY <2>4
  <2>6. Len(u) = n /\ (\A i \in 1..n : u[i] = v[i]) /\ accepted = Append(u, x)
    BY <2>2, <2>4, <2>5
  <2>7. Len(Append(u, x)) = n + 1 /\ \A i \in 1..n : Append(u, x)[i] = u[i]
    <3>1. DOMAIN u = 1..Len(u) /\ u \in Seq(Tokens \cup {x})
      OBVIOUS
    <3>2. /\ Len(Append(u, x)) = Len(u) + 1
          /\ \A i \in 1..Len(u) : Append(u, x)[i] = u[i]
      BY <3>1, AppendProperties
    <3>3. QED
      BY <2>6, <3>2
  <2>8. Len(accepted) = n + 1
    BY <2>6, <2>7
  <2>9. x \in Tokens
    <3>1. /\ Len(tokens[s]) \in Nat /\ s \in Seqs /\ Longest(s) \in Nat
      BY KVCacheAssumption DEF TypeInv, Running, Longest
    <3>2. Len(tokens[s]) + n + 1 \in Nat \ {0} /\ Len(tokens[s]) + n + 1 <= Longest(s)
      <4> DEFINE L == Len(tokens[s])
                 M == Longest(s)
      <4>1. L \in Nat /\ M \in Nat /\ L + (n + 1) <= M
        BY <2>8, <3>1
      <4> HIDE DEF L, M
      <4>2. L + n + 1 \in Nat \ {0} /\ L + n + 1 <= M
        BY <2>3, <4>1
      <4>3. QED
        BY <4>2 DEF L, M
    <3>3. Vocabulary[Len(tokens[s]) + n + 1] \subseteq Tokens
      BY <3>1, <3>2, SampledAre
    <3>4. QED
      BY <3>3
  <2>10. Append(u, x) \in Seq(Tokens)
    BY <2>9, AppendProperties
  <2>11. n + 1 - 1 = n /\ n + 1 \in 1..Len(v)
    BY <1>2, <2>3
  <2>12. QED
    BY <1>1, <2>6, <2>7, <2>8, <2>10, <2>11
<1>5. QED
  BY <1>3, <1>4

LEMMA AppendAcceptedHolds ==
    ASSUME HoldsTheirTokens, NEW s \in Seqs, AppendAccepted(s)
    PROVE  (SharingInv /\ RoomInv /\ ContentInv)'
<1>1. TypeInv /\ RoomInv /\ StatusInv
  BY DEF HoldsTheirTokens, BlocksInv
<1>2. /\ proposal[s] # << >> /\ NextOutput(s)
      /\ UNCHANGED <<setup, status, kv, draft>> /\ UNCHANGED blockVars
  BY DEF AppendAccepted
<1>3. PICK accepted \in AcceptedTokens(s) :
        /\ Len(tokens[s]) + Len(accepted) <= Longest(s)
        /\ tokens' = [tokens EXCEPT ![s] = @ \o accepted]
  BY DEF AppendAccepted
<1>4. InOutputs(s) /\ s \in Running
  BY <1>2, OutputTaken
<1>5. PICK L, P : L = Len(tokens[s]) /\ P = Len(proposal[s])
  OBVIOUS
<1>6. /\ tokens[s] \in Seq(Tokens) /\ L \in Nat /\ P \in Nat
      /\ \A i \in 1..L : Text(s)[i] = tokens[s][i]
      /\ \A i \in 1..P : Text(s)[L + i] = proposal[s][i]
  BY <1>1, <1>5, TextIs
<1>7. /\ accepted \in Seq(Tokens) /\ Len(accepted) \in 1..P
      /\ \A i \in 1..Len(accepted) - 1 : accepted[i] = proposal[s][i]
  BY <1>1, <1>2, <1>3, <1>4, <1>5, AcceptedAre
<1>8. PICK u \in Seq(Tokens) : u = tokens[s]
  BY <1>6
<1>9. PICK m \in Nat : m = Len(accepted)
  BY <1>7
<1>10. /\ u \o accepted \in Seq(Tokens) /\ Len(u \o accepted) = L + m
       /\ \A i \in 1..L : (u \o accepted)[i] = u[i]
       /\ \A i \in L + 1..L + m : (u \o accepted)[i] = accepted[i - L]
  BY <1>5, <1>7, <1>8, <1>9, ConcatProperties
<1>11. PICK t \in Seq(Tokens) : t = u \o accepted
  BY <1>10
<1>12. Len(t) = L + m /\ m > 0 /\ m <= P
  BY <1>7, <1>9, <1>10, <1>11
<1>13. ASSUME NEW i \in 1..Len(t) - 1
       PROVE  t[i] = Text(s)[i]
  <2>1. CASE i <= L
    <3>1. i \in 1..L
      BY <1>6, <1>12, <2>1
    <3>2. QED
      BY <1>6, <1>8, <1>10, <1>11, <3>1
  <2>2. CASE i > L
    <3>1. PICK j \in 1..m - 1 : i = L + j
      <4>1. i - L \in 1..m - 1 /\ i = L + (i - L)
        BY <1>6, <1>12, <2>2
      <4>2. QED
        BY <4>1
    <3>2. i \in L + 1..L + m /\ i - L = j /\ j \in 1..P
      BY <1>6, <1>12, <3>1
    <3>3. t[i] = accepted[j]
      BY <1>10, <1>11, <3>2
    <3>4. accepted[j] = proposal[s][j]
      BY <1>7, <1>9, <3>1
    <3>5. Text(s)[i] = proposal[s][j]
      BY <1>6, <3>1, <3>2
    <3>6. QED
      BY <3>3, <3>4, <3>5
  <2>3. QED
    BY <1>6, <1>12, <2>1, <2>2
<1>14. TargetEnd(s) = L + P /\ DraftEnd(s) = L + P - 1
  BY <1>2, <1>4, <1>5 DEF TargetEnd, DraftEnd
<1>15. L < Len(t) /\ Len(t) - 1 <= TargetEnd(s) /\ Len(t) - 1 <= DraftEnd(s)
  BY <1>6, <1>12, <1>14
<1>16. tokens' = [tokens EXCEPT ![s] = t]
  BY <1>3, <1>8, <1>11
<1>17. QED
  BY <1>2, <1>5, <1>13, <1>15, <1>16, TokensGrowHolds
\* A sequence and its fork find the same tokens, but for the last one; nothing is
\* forked where tokens are proposed.
LEMMA ForkHolds ==
    ASSUME HoldsTheirTokens, NEW s \in Seqs, NEW c \in Seqs, Fork(s, c)
    PROVE  (SharingInv /\ RoomInv /\ ContentInv)'
<1>1. /\ TypeInv /\ StatusInv /\ RoundInv /\ FitInv /\ ProposalInv
      /\ SharingInv /\ RoomInv /\ ContentInv /\ BlocksInv /\ UsesV2
  BY DEF HoldsTheirTokens, BlocksInv
<1>2. /\ Owner[s] \in Beams /\ Owner[c] = Owner[s] /\ status[c] = "UNUSED"
      /\ Len(tokens[s]) < Longest(s) /\ NextOutput(s) /\ SetStatus({c}, "RUNNING")
      /\ ForkTable(s, c) /\ UNCHANGED <<setup, kv, draft>>
  BY DEF Fork
<1>3. PICK x \in Vocabulary[Position(s)], y \in Vocabulary[Position(s)] :
        tokens' = [tokens EXCEPT ![s] = Append(@, x), ![c] = Append(tokens[s], y)]
  BY DEF Fork
<1>4. /\ s \in Running /\ InOutputs(s) /\ HasItsSlots(s) /\ s \in todo
      /\ ~InOutputs(s)' /\ ~HasItsSlots(s)' /\ proposal'[s] = << >>
      /\ \A q \in Seqs : q # s => /\ InOutputs(q)' <=> InOutputs(q)
                                  /\ HasItsSlots(q)' <=> HasItsSlots(q)
                                  /\ proposal'[q] = proposal[q]
      /\ batch = {} /\ batch' = {} /\ pending = NothingPending /\ pending' = NothingPending
  BY <1>2, OutputTaken
<1>5. c # s /\ c \notin Running /\ c \notin todo /\ ~InOutputs(c) /\ ~HasItsSlots(c)
  BY <1>1, <1>2, <1>4 DEF Running, RoundInv, InOutputs, HasItsSlots
<1>6. NumLookaheadSlots = 0 /\ ~Drafted(s) /\ setup # "speculative decoding"
  <2>1. ~(NumLookaheadSlots > 0)
    BY <1>2 DEF Beams
  <2>2. NumLookaheadSlots = 0
    BY <2>1, LookaheadIs
  <2>3. setup # "speculative decoding"
    BY <2>2, KVCacheAssumption DEF NumLookaheadSlots
  <2>4. QED
    BY <2>2, <2>3 DEF Drafted
<1>7. \A q \in Seqs : proposal[q] = << >> /\ proposal'[q] = << >>
  BY <1>1, <1>4, <1>6 DEF ProposalInv
<1>8. PICK u \in Seq(Tokens) : u = tokens[s]
  BY <1>1 DEF TypeInv
<1>9. x \in Tokens /\ y \in Tokens
  <2>1. Longest(s) \in Nat /\ Len(u) \in Nat
    BY <1>1, KVCacheAssumption DEF TypeInv, Longest
  <2>2. Position(s) \in Nat \ {0} /\ Position(s) <= Longest(s)
    BY <1>2, <1>8, <2>1 DEF Position
  <2>3. Vocabulary[Position(s)] \subseteq Tokens
    BY <1>1, <2>2, SampledAre
  <2>4. QED
    BY <2>3
<1>10. ASSUME NEW z \in Tokens
       PROVE  /\ Append(u, z) \in Seq(Tokens) /\ Len(Append(u, z)) = Len(u) + 1
              /\ \A i \in 1..Len(u) : Append(u, z)[i] = u[i]
  BY AppendProperties
<1>11. PICK t \in Seq(Tokens) : t = Append(u, x)
  BY <1>9, <1>10
<1>12. PICK r \in Seq(Tokens) : r = Append(u, y)
  BY <1>9, <1>10
<1>13. \A q \in Seqs : tokens'[q] = IF q = s THEN t ELSE IF q = c THEN r ELSE tokens[q]
  BY <1>1, <1>3, <1>5, <1>8, <1>11, <1>12 DEF TypeInv
<1>14. PICK L \in Nat : L = Len(u)
  OBVIOUS
<1>15. /\ Len(t) = L + 1 /\ (\A i \in 1..L : t[i] = u[i])
       /\ Len(r) = L + 1 /\ (\A i \in 1..L : r[i] = u[i])
  BY <1>9, <1>10, <1>11, <1>12, <1>14
<1>16. /\ \A q \in Seqs : table'[q] = IF q = c THEN table[s] ELSE table[q]
       /\ \A q \in Seqs : seen'[q] = IF q = c THEN seen[s] ELSE seen[q]
  BY <1>1, <1>2 DEF ForkTable, TypeInv
<1>17. Running' = Running \cup {c} /\ Running \subseteq Seqs
  <2>1. \A q \in Seqs : status'[q] = IF q = c THEN "RUNNING" ELSE status[q]
    BY <1>2 DEF SetStatus
  <2>2. QED
    BY <2>1 DEF Running
<1>18. L <= Room(s) /\ Room(s) \in Nat /\ seen[s] <= L /\ seen[s] \in Nat
  <2>1. Len(tokens[s]) + Len(proposal[s]) <= Room(s) /\ Len(proposal[s]) = 0
    <3>1. proposal[s] = << >>
      BY <1>7
    <3>2. Len(tokens[s]) + Len(proposal[s]) <= Room(s)
      BY <1>1, <1>4 DEF RoomInv
    <3>3. Len(proposal[s]) = 0
      BY <3>1
    <3>4. QED
      BY <3>2, <3>3
  <2>2. seen[s] <= Len(tokens[s]) /\ seen[s] \in Nat
    BY <1>1, <1>4 DEF FitInv, TypeInv, Placed, Running
  <2>3. Room(s) \in Nat
    BY <1>1, RoomIs
  <2>4. QED
    BY <1>8, <1>14, <2>1, <2>2, <2>3
<1>19. SharingInv'
  <2>1. pending'.fresh = {} /\ pending'.copies = {}
    BY <1>4 DEF NothingPending
  <2>2. NumLookaheadSlots' = 0
    BY <1>2, <1>6 DEF NumLookaheadSlots
  <2>3. ASSUME NEW q1 \in Seqs, NEW q2 \in Seqs, Range(table'[q1]) \cap Range(table'[q2]) # {}
        PROVE  Owner[q1] = Owner[q2]
    <3>1. PICK p1 \in Seqs : p1 = IF q1 = c THEN s ELSE q1
      OBVIOUS
    <3>2. PICK p2 \in Seqs : p2 = IF q2 = c THEN s ELSE q2
      OBVIOUS
    <3>3. table'[q1] = table[p1] /\ table'[q2] = table[p2]
      BY <1>16, <3>1, <3>2
    <3>4. Owner[p1] = Owner[p2]
      BY <1>1, <2>3, <3>3 DEF SharingInv
    <3>5. QED
      BY <1>2, <3>1, <3>2, <3>4
  <2>4. NumLookaheadSlots' > 0 => \A b \in Blocks : refCount'[b] <= 1
    BY <2>2
  <2>5. QED
    BY <2>1, <2>3, <2>4 DEF SharingInv
<1>20. RoomInv'
  <2>1. ASSUME NEW q \in Running'
        PROVE  /\ Len(tokens'[q]) - 1 <= Room(q)'
               /\ ~HasItsSlots(q)' => seen'[q] < Len(tokens'[q])
               /\ InOutputs(q)' => Len(tokens'[q]) + Len(proposal'[q]) <= Room(q)'
    <3>1. CASE q = s \/ q = c
      <4>1. Len(tokens'[q]) = L + 1 /\ seen'[q] = seen[s] /\ Room(q)' = Room(s) /\ ~InOutputs(q)'
        BY <1>4, <1>5, <1>13, <1>15, <1>16, <3>1 DEF Room
      <4>2. L + 1 - 1 <= Room(s) /\ seen[s] < L + 1
        BY <1>18
      <4>3. Len(tokens'[q]) - 1 <= Room(q)' /\ seen'[q] < Len(tokens'[q])
        BY ONLY <4>1, <4>2
      <4>4. QED
        BY <4>1, <4>3
    <3>2. CASE q # s /\ q # c
      <4>1. q \in Running /\ q \in Seqs
        BY <1>17, <3>2
      <4>2. Room(q)' = Room(q) /\ tokens'[q] = tokens[q] /\ seen'[q] = seen[q]
        BY <1>13, <1>16, <3>2, <4>1 DEF Room
      <4>3. QED
        BY <1>1, <1>4, <3>2, <4>1, <4>2 DEF RoomInv
    <3>3. QED
      BY <3>1, <3>2
  <2>2. QED
    BY <1>4, <1>7, <2>1 DEF RoomInv
<1>21. \A b : Sources(b) = {b}
  BY <1>4, NoSources
<1>22. \A b : Sources(b)' = {b}
  BY <1>4 DEF Sources, NothingPending
<1>23. HoldsUpTo(kv, s, L)
  <2>1. TargetEnd(s) = Len(tokens[s]) + Len(proposal[s]) /\ Len(proposal[s]) = 0
    BY <1>1, <1>4, <1>7 DEF TargetEnd
  <2>2. TargetEnd(s) = L
    BY <1>8, <1>14, <2>1
  <2>3. FindsItsTokens(s)
    BY <1>1, <1>4 DEF ContentInv, Admitted
  <2>4. QED
    BY <2>2, <2>3 DEF FindsItsTokens
<1>24. ASSUME NEW q \in Seqs, q = s \/ q = c
       PROVE  FindsItsTokens(q)'
  <2>1. PICK v \in Seq(Tokens) : v = tokens'[q] /\ Len(v) = L + 1 /\ \A i \in 1..L : v[i] = u[i]
    BY <1>13, <1>15, <1>24
  <2>2. Text(q)' = v
    <3>1. v \o << >> = v
      BY NothingFollows
    <3>2. QED
      BY <1>7, <2>1, <3>1 DEF Text
  <2>3. TargetEnd(q)' = L
    <3>1. TargetEnd(q)' = Len(v) - 1
      BY <1>4, <1>5, <1>24, <2>1 DEF TargetEnd
    <3>2. QED
      BY <2>1, <3>1
  <2>4. ASSUME NEW p \in 1..L
        PROVE  \E b \in Sources(BlockAt(q, p))' : kv'[b][OffsetAt(p)] = SubSeq(Text(q)', 1, p)
    <3>1. PICK b \in Sources(BlockAt(s, p)) : kv[b][OffsetAt(p)] = SubSeq(Text(s), 1, p)
      BY <1>23 DEF HoldsUpTo
    <3>2. b = BlockAt(s, p)
      BY <1>21, <3>1
    <3>3. BlockAt(q, p)' = b
      BY <1>16, <1>24, <3>2 DEF BlockAt
    <3>4. Sources(BlockAt(q, p))' = {b}
      BY <1>4, <3>3 DEF Sources, NothingPending
    <3>5. Text(s) = u
      <4>1. u \o << >> = u
        BY NothingFollows
      <4>2. QED
        BY <1>7, <1>8, <4>1 DEF Text
    <3>6. SubSeq(v, 1, p) = SubSeq(u, 1, p)
      <4>1. p \in Nat /\ p <= Len(u) /\ p <= Len(v) /\ \A i \in 1..p : v[i] = u[i]
        BY <1>14, <2>1
      <4>2. QED
        BY <4>1, PrefixesAgree
    <3>7. QED
      BY <1>2, <2>2, <3>1, <3>4, <3>5, <3>6
  <2>5. HoldsUpTo(kv, q, TargetEnd(q))'
    BY <2>3, <2>4 DEF HoldsUpTo, OffsetAt
  <2>6. ~Drafted(q)'
    BY <1>2, <1>6 DEF Drafted
  <2>7. QED
    BY <2>5, <2>6 DEF FindsItsTokens
<1>25. ASSUME NEW q \in Running, q # s
       PROVE  FindsItsTokens(q)'
  <2>1. q \in Seqs /\ q # c /\ FindsItsTokens(q)
    BY <1>1, <1>4, <1>5, <1>17 DEF ContentInv, Admitted
  <2>2. table'[q] = table[q] /\ tokens'[q] = tokens[q] /\ proposal'[q] = proposal[q]
        /\ (InOutputs(q)' <=> InOutputs(q))
    BY <1>4, <1>13, <1>16, <1>25, <2>1
  <2>3. QED
    BY <1>2, <1>21, <1>22, <2>1, <2>2, UntouchedStays
<1>26. ContentInv'
  BY <1>4, <1>17, <1>24, <1>25 DEF ContentInv
<1>27. QED
  BY <1>19, <1>20, <1>26
\* Sequences that stop give back blocks, which the others keep.
LEMMA ReleaseHolds ==
    ASSUME HoldsTheirTokens, NEW S \in SUBSET Seqs, Release(S),
           batch = {}, batch' = {}, pending = NothingPending, pending' = NothingPending,
           \A q \in Seqs \ S : /\ InOutputs(q)' <=> InOutputs(q)
                               /\ HasItsSlots(q)' <=> HasItsSlots(q)
                               /\ proposal'[q] = proposal[q],
           \A q \in S : proposal'[q] = << >>
    PROVE  (SharingInv /\ RoomInv /\ ContentInv)'
<1>1. /\ TypeInv /\ SharingInv /\ RoomInv /\ ContentInv /\ BlocksInv /\ UsesV2
  BY DEF HoldsTheirTokens, BlocksInv
<1>2. /\ FreeTables(S) /\ SetStatus(S, "UNUSED") /\ UNCHANGED <<setup, kv, draft>>
      /\ tokens' = [s \in Seqs |-> IF s \in S THEN << >> ELSE tokens[s]]
  BY DEF Release
<1>3. /\ \A q \in Seqs : /\ table'[q] = IF q \in S THEN << >> ELSE table[q]
                         /\ seen'[q] = IF q \in S THEN 0 ELSE seen[q]
                         /\ tokens'[q] = IF q \in S THEN << >> ELSE tokens[q]
  BY <1>2 DEF FreeTables
<1>4. Running' = Running \ S /\ Running \subseteq Seqs
  <2>1. \A q \in Seqs : status'[q] = IF q \in S THEN "UNUSED" ELSE status[q]
    BY <1>2 DEF SetStatus
  <2>2. QED
    BY <2>1 DEF Running
<1>5. SharingInv'
  <2>1. pending'.fresh = {} /\ pending'.copies = {}
    BY DEF NothingPending
  <2>2. ASSUME NumLookaheadSlots' > 0, NEW b \in Blocks
        PROVE  refCount'[b] <= 1
    <3>1. refCount[b] <= 1 /\ refCount[b] \in Nat
      BY <1>1, <1>2, <2>2 DEF SharingInv, NumLookaheadSlots, TypeInv
    <3>2. NumFrees(b, S) \in Nat
      <4>1. {s \in S : b \in Range(table[s])} \in SUBSET Seqs
        OBVIOUS
      <4>2. QED
        BY <4>1, SeqSets DEF NumFrees
    <3>3. refCount'[b] = refCount[b] - NumFrees(b, S)
      BY <1>2 DEF FreeTables
    <3>4. QED
      BY <3>1, <3>2, <3>3
  <2>3. ASSUME NEW s \in Seqs, NEW q \in Seqs, Range(table'[s]) \cap Range(table'[q]) # {}
        PROVE  Owner[s] = Owner[q]
    <3>1. Range(<< >>) = {}
      BY DEF Range
    <3>2. s \notin S /\ q \notin S
      BY <1>3, <2>3, <3>1
    <3>3. QED
      BY <1>1, <1>3, <2>3, <3>2 DEF SharingInv
  <2>4. QED
    BY <2>1, <2>2, <2>3 DEF SharingInv
<1>6. RoomInv'
  <2>1. ASSUME NEW q \in Running'
        PROVE  /\ Len(tokens'[q]) - 1 <= Room(q)'
               /\ ~HasItsSlots(q)' => seen'[q] < Len(tokens'[q])
               /\ InOutputs(q)' => Len(tokens'[q]) + Len(proposal'[q]) <= Room(q)'
    <3>1. q \in Running /\ q \in Seqs \ S
      BY <1>4
    <3>2. Room(q)' = Room(q) /\ tokens'[q] = tokens[q] /\ seen'[q] = seen[q]
      BY <1>3, <3>1 DEF Room
    <3>3. QED
      BY <1>1, <3>1, <3>2 DEF RoomInv
  <2>2. ASSUME NEW q \in Seqs, proposal'[q] # << >>
        PROVE  InOutputs(q)'
    BY <1>1, <2>2 DEF RoomInv
  <2>3. QED
    BY <2>1, <2>2 DEF RoomInv
<1>7. ASSUME NEW q \in Running'
      PROVE  FindsItsTokens(q)'
  <2>1. q \in Running /\ q \in Seqs \ S
    BY <1>4
  <2>2. FindsItsTokens(q)
    BY <1>1, <2>1 DEF ContentInv, Admitted
  <2>3. \A b : Sources(b) = {b}
    BY NoSources
  <2>4. \A b : Sources(b)' = {b}
    BY DEF Sources, NothingPending
  <2>5. table'[q] = table[q] /\ tokens'[q] = tokens[q]
    BY <1>3, <2>1
  <2>6. QED
    BY <1>2, <2>1, <2>2, <2>3, <2>4, <2>5, UntouchedStays
<1>8. ContentInv'
  BY <1>7 DEF ContentInv
<1>9. QED
  BY <1>5, <1>6, <1>8

LEMMA StopHolds ==
    ASSUME HoldsTheirTokens, NEW s \in Seqs, Stop(s)
    PROVE  (SharingInv /\ RoomInv /\ ContentInv)'
<1>1. PICK S \in SUBSET Seqs : S = {s}
  OBVIOUS
<1>2. NextOutput(s) /\ Release(S)
  BY <1>1 DEF Stop
<1>3. /\ proposal'[s] = << >>
      /\ \A q \in Seqs : q # s => /\ InOutputs(q)' <=> InOutputs(q)
                                  /\ HasItsSlots(q)' <=> HasItsSlots(q)
                                  /\ proposal'[q] = proposal[q]
      /\ batch = {} /\ batch' = {} /\ pending = NothingPending /\ pending' = NothingPending
  BY <1>2, OutputTaken
<1>4. /\ \A q \in Seqs \ S : /\ InOutputs(q)' <=> InOutputs(q)
                             /\ HasItsSlots(q)' <=> HasItsSlots(q)
                             /\ proposal'[q] = proposal[q]
      /\ \A q \in S : proposal'[q] = << >>
  BY <1>1, <1>3
<1>5. QED
  BY <1>2, <1>3, <1>4, ReleaseHolds

LEMMA AbortHolds ==
    ASSUME HoldsTheirTokens, NEW r \in Requests, Abort(r)
    PROVE  (SharingInv /\ RoomInv /\ ContentInv)'
<1>1. PICK S \in SUBSET Seqs : S = Live(r)
  BY DEF Live
<1>2. /\ phase = "idle" /\ Release(S) /\ UNCHANGED <<proposal, phase, todo, batch, pending>>
  BY <1>1 DEF Abort
<1>3. batch = {} /\ pending = NothingPending /\ \A q \in Seqs : proposal[q] = << >>
  <2>1. \A q \in Seqs : proposal[q] = << >>
    BY <1>2, BeforeOutputs
  <2>2. QED
    BY <1>2, <2>1 DEF HoldsTheirTokens, BlocksInv, RoundInv
<1>4. /\ \A q \in Seqs \ S : /\ InOutputs(q)' <=> InOutputs(q)
                             /\ HasItsSlots(q)' <=> HasItsSlots(q)
                             /\ proposal'[q] = proposal[q]
      /\ \A q \in S : proposal'[q] = << >>
  BY <1>2, <1>3 DEF InOutputs, HasItsSlots
<1>5. QED
  BY <1>2, <1>3, <1>4, ReleaseHolds
-----------------------------------------------------------------------------
LEMMA InitV2Inv == Init => V2Inv
<1>1. SUFFICES ASSUME Init PROVE SharingInv /\ RoomInv /\ ContentInv
  BY DEF V2Inv
<1>2. /\ \A s \in Seqs : status[s] = "UNUSED" /\ table[s] = << >> /\ proposal[s] = << >>
      /\ \A b \in Blocks : refCount[b] = 0
      /\ batch = {} /\ pending = NothingPending
  BY <1>1 DEF Init
<1>3. pending.fresh = {} /\ pending.copies = {} /\ Running = {}
  BY <1>2 DEF NothingPending, Running
<1>4. \A s \in Seqs : Range(table[s]) = {}
  BY <1>2 DEF Range
<1>5. \A b \in Blocks : refCount[b] <= 1
  BY <1>2
<1>6. QED
  BY <1>2, <1>3, <1>4, <1>5 DEF SharingInv, RoomInv, ContentInv

LEMMA NextV2Inv == BlocksInv /\ V2Inv /\ [Next]_vars => V2Inv'
<1> SUFFICES ASSUME BlocksInv, V2Inv, [Next]_vars, UsesV2'
             PROVE  (SharingInv /\ RoomInv /\ ContentInv)'
  BY DEF V2Inv
<1>1. setup' = setup
  BY DEF Next, vars, StartDecode, Execute, AddRequest, PreemptBySwap, Abort, Release, Admit,
         AppendSlots, PreemptByRecompute, SwapIn, AppendToken, AppendAccepted, Fork, Stop, seqVars
<1>2. UsesV2 /\ HoldsTheirTokens
  <2>1. UsesV2
    BY <1>1 DEF UsesV2
  <2>2. QED
    BY <2>1 DEF V2Inv, HoldsTheirTokens
<1>3. CASE StartDecode
  BY <1>2, <1>3, StartDecodeHolds
<1>4. CASE Execute
  BY <1>2, <1>4, ExecuteHolds
<1>5. ASSUME NEW r \in Requests, NEW p \in Prompts[r], AddRequest(r, p)
      PROVE  (SharingInv /\ RoomInv /\ ContentInv)'
  BY <1>2, <1>5, AddRequestHolds
<1>6. ASSUME NEW r \in Requests, PreemptBySwap(r)
      PROVE  FALSE
  BY <1>2, <1>6 DEF PreemptBySwap
<1>7. ASSUME NEW r \in Requests, Abort(r)
      PROVE  (SharingInv /\ RoomInv /\ ContentInv)'
  BY <1>2, <1>7, AbortHolds
<1>8. ASSUME NEW s \in Seqs, Admit(s)
      PROVE  (SharingInv /\ RoomInv /\ ContentInv)'
  BY <1>2, <1>8, AdmitHolds
<1>9. ASSUME NEW s \in Seqs, AppendSlots(s)
      PROVE  (SharingInv /\ RoomInv /\ ContentInv)'
  BY <1>2, <1>9, AppendSlotsHolds
<1>10. ASSUME NEW s \in Seqs, PreemptByRecompute(s)
       PROVE  (SharingInv /\ RoomInv /\ ContentInv)'
  BY <1>2, <1>10, PreemptByRecomputeHolds
<1>11. ASSUME NEW s \in Seqs, SwapIn(s)
       PROVE  FALSE
  <2>1. s \in Swapped
    BY <1>11 DEF SwapIn, Earliest
  <2>2. QED
    BY <1>2, <2>1 DEF BlocksInv, StatusInv
<1>12. ASSUME NEW s \in Seqs, AppendToken(s)
       PROVE  (SharingInv /\ RoomInv /\ ContentInv)'
  BY <1>2, <1>12, AppendTokenHolds
<1>13. ASSUME NEW s \in Seqs, AppendAccepted(s)
       PROVE  (SharingInv /\ RoomInv /\ ContentInv)'
  BY <1>2, <1>13, AppendAcceptedHolds
<1>14. ASSUME NEW s \in Seqs, NEW c \in Seqs, Fork(s, c)
       PROVE  (SharingInv /\ RoomInv /\ ContentInv)'
  BY <1>2, <1>14, ForkHolds
<1>15. ASSUME NEW s \in Seqs, Stop(s)
       PROVE  (SharingInv /\ RoomInv /\ ContentInv)'
  BY <1>2, <1>15, StopHolds
<1>16. CASE UNCHANGED vars
  <2>1. /\ UNCHANGED <<setup, status, tokens, table, refCount, seen, kv, draft, proposal,
                       phase, todo, batch, pending>>
    BY <1>16 DEF vars
  <2>2. SharingInv /\ RoomInv /\ ContentInv
    BY <1>2 DEF HoldsTheirTokens
  <2>3. Running' = Running
    BY <2>1 DEF Running
  <2>4. SharingInv'
    <3>1. /\ NumLookaheadSlots' = NumLookaheadSlots /\ \A q \in Seqs : Group(q)' = Group(q)
      BY <2>1 DEF NumLookaheadSlots, Group, SeqsWith
    <3>2. \A q \in Running : q \in Seqs
      BY DEF Running
    <3>3. \A x \in pending.copies :
            \E q \in Running : x[1] \in Range(table[q]) /\ Group(q)' \cap batch # {}
      BY <2>2, <3>1, <3>2 DEF SharingInv
    <3>4. QED
      BY <2>1, <2>2, <2>3, <3>1, <3>3 DEF SharingInv
  <2>5. RoomInv'
    BY <2>1, <2>2, <2>3
       DEF RoomInv, Room, HasItsSlots, InOutputs, NumLookaheadSlots, BlockAt
  <2>6. ContentInv'
    <3>1. ASSUME NEW s \in Running, ~Admitted(s)
          PROVE  FindsItsTokens(s)'
      <4>1. FindsItsTokens(s)
        BY <2>2, <3>1 DEF ContentInv
      <4>2. \A b : Sources(b)' = Sources(b)
        BY <2>1 DEF Sources
      <4>3. QED
        BY <1>2, <2>1, <4>1, <4>2, UntouchedStays DEF InOutputs
    <3>2. QED
      BY <2>1, <2>3, <3>1 DEF ContentInv, Admitted
  <2>7. QED
    BY <2>4, <2>5, <2>6
<1>17. QED
  BY <1>3, <1>4, <1>5, <1>6, <1>7, <1>8, <1>9, <1>10, <1>11, <1>12, <1>13, <1>14, <1>15, <1>16
     DEF Next

LEMMA SpecV2Inv == Spec => []V2Inv
BY InitV2Inv, NextV2Inv, SpecBlocksInv, PTL DEF Spec
\* Where neither model got further than the tokens of a sequence, what is stored
\* at a position is the prefix that ends there.
LEMMA FoundIsPrefix ==
    ASSUME TypeInv, pending = NothingPending, NEW s \in Seqs, NEW cache, NEW n \in Nat,
           HoldsUpTo(cache, s, n), NEW p \in 1..n, p <= Len(tokens[s])
    PROVE  cache[BlockAt(s, p)][OffsetAt(p)] = Prefix(s, p)
<1>1. PICK x \in Sources(BlockAt(s, p)) : cache[x][OffsetAt(p)] = SubSeq(Text(s), 1, p)
  BY DEF HoldsUpTo
<1>2. x = BlockAt(s, p)
  BY <1>1, NoSources
<1>3. /\ tokens[s] \in Seq(Tokens) /\ Text(s) \in Seq(Tokens)
      /\ Len(tokens[s]) \in Nat /\ Len(proposal[s]) \in Nat
      /\ Len(Text(s)) = Len(tokens[s]) + Len(proposal[s])
      /\ \A i \in 1..Len(tokens[s]) : Text(s)[i] = tokens[s][i]
  BY TextIs
<1>4. PICK u \in Seq(Tokens), v \in Seq(Tokens) : u = tokens[s] /\ v = Text(s)
  BY <1>3
<1>5. p \in Nat /\ p <= Len(u) /\ p <= Len(v) /\ \A i \in 1..p : v[i] = u[i]
  <2>1. PICK L, P : L = Len(tokens[s]) /\ P = Len(proposal[s])
    OBVIOUS
  <2>2. L \in Nat /\ P \in Nat /\ p <= L /\ Len(v) = L + P /\ Len(u) = L
        /\ \A i \in 1..L : v[i] = u[i]
    BY <1>3, <1>4, <2>1
  <2>3. p \in Nat /\ p <= L + P /\ 1..p \subseteq 1..L
    BY <2>2
  <2>4. QED
    BY <2>2, <2>3
<1>6. SubSeq(v, 1, p) = SubSeq(u, 1, p)
  BY <1>5, PrefixesAgree
<1>7. Prefix(s, p) = SubSeq(u, 1, p)
  <2>1. MinOf(p, Len(u)) = p
    BY <1>5 DEF MinOf
  <2>2. QED
    BY <1>4, <2>1 DEF Prefix
<1>8. QED
  BY <1>1, <1>2, <1>4, <1>6, <1>7

\* Under version 2, with and without speculative decoding, every sequence finds
\* the keys and values of its own tokens in its blocks between two schedulings,
\* whatever was shared by fork(), copied on write, freed and given out again, or
\* written for proposals that were rejected (BlockTable, append_slots,
\* SpecDecodeWorker.execute_model).
THEOREM V2HoldsItsTokens == Spec => [](UsesV2 => TablesHoldTheirTokens)
<1>1. BlocksInv /\ V2Inv => (UsesV2 => TablesHoldTheirTokens)
  <2>1. SUFFICES ASSUME BlocksInv, V2Inv, UsesV2, phase \in {"idle", "outputs"},
                        NEW s \in Running \cup Swapped, NEW p \in 1..NumStored(s)
                 PROVE  kv[BlockAt(s, p)][OffsetAt(p)] = Prefix(s, p)
    BY DEF TablesHoldTheirTokens
  <2>2. /\ TypeInv /\ StatusInv /\ RoundInv /\ SharingInv /\ RoomInv /\ ContentInv
    BY <2>1 DEF BlocksInv, V2Inv
  <2>3. s \in Running /\ s \in Seqs
    BY <2>1, <2>2 DEF StatusInv, Running
  <2>4. pending = NothingPending /\ (phase = "idle" => todo = {})
    BY <2>1, <2>2 DEF RoundInv
  <2>5. HoldsUpTo(kv, s, TargetEnd(s))
    BY <2>1, <2>2, <2>3 DEF ContentInv, Admitted, FindsItsTokens
  <2>6. /\ Len(tokens[s]) \in Nat /\ Len(proposal[s]) \in Nat
        /\ TargetEnd(s) \in Nat
    BY <2>2, <2>3, RoomIs, EndsWithin
  <2>7. p \in 1..TargetEnd(s) /\ p <= Len(tokens[s])
    <3>1. CASE s \in todo
      <4>1. p \in 1..Len(tokens[s]) - 0
        BY <2>1, <3>1 DEF NumStored
      <4>2. TargetEnd(s) = Len(tokens[s]) + Len(proposal[s])
        BY <2>1, <2>4, <3>1 DEF TargetEnd, InOutputs
      <4>3. PICK L, P, T : L = Len(tokens[s]) /\ P = Len(proposal[s]) /\ T = TargetEnd(s)
        OBVIOUS
      <4>4. L \in Nat /\ P \in Nat /\ T = L + P /\ p \in 1..L - 0
        BY <2>6, <4>1, <4>2, <4>3
      <4>5. p \in 1..T /\ p <= L
        BY <4>4
      <4>6. QED
        BY <4>3, <4>5
    <3>2. CASE s \notin todo
      <4>1. p \in 1..Len(tokens[s]) - 1
        BY <2>1, <3>2 DEF NumStored
      <4>2. TargetEnd(s) = Len(tokens[s]) - 1
        BY <3>2 DEF TargetEnd, InOutputs
      <4>3. QED
        BY <2>6, <4>1, <4>2
    <3>3. QED
      BY <3>1, <3>2
  <2>8. QED
    BY <2>2, <2>3, <2>4, <2>5, <2>6, <2>7, FoundIsPrefix
<1>2. QED
  BY <1>1, SpecBlocksInv, SpecV2Inv, PTL

\* A sequence the draft model will be asked about has all tokens but its last one
\* in the draft model's cache, whatever was accepted or rejected before: without
\* the bonus token the draft model is never asked to go on from a position it
\* did not write (MultiStepWorker.execute_model, RejectionSampler).
THEOREM DraftHoldsTheTokens == Spec => []DraftCacheHoldsTheTokens
<1>1. BlocksInv /\ V2Inv => DraftCacheHoldsTheTokens
  <2>1. SUFFICES ASSUME BlocksInv, V2Inv, setup = "speculative decoding", phase = "idle",
                        NEW s \in Running, Speculates(s), NEW p \in 1..Len(tokens[s]) - 1
                 PROVE  draft[BlockAt(s, p)][OffsetAt(p)] = Prefix(s, p)
    BY DEF DraftCacheHoldsTheTokens
  <2>2. UsesV2
    BY <2>1 DEF UsesV2
  <2>3. /\ TypeInv /\ StatusInv /\ RoundInv /\ SharingInv /\ RoomInv /\ ContentInv
        /\ HoldsTheirTokens
    BY <2>1, <2>2 DEF BlocksInv, V2Inv, HoldsTheirTokens
  <2>4. s \in Seqs /\ pending = NothingPending
    BY <2>1, <2>3 DEF RoundInv, Running
  <2>5. ~InOutputs(s) /\ Len(proposal[s]) = 0
    <3>1. ~InOutputs(s) /\ proposal[s] = << >>
      BY <2>1, <2>3, <2>4, BeforeOutputs
    <3>2. QED
      BY <3>1
  <2>6. Len(tokens[s]) \in Nat /\ DraftEnd(s) \in Nat
    BY <2>3, <2>4, RoomIs, EndsWithin
  <2>7. DraftEnd(s) = Len(tokens[s]) + Len(proposal[s]) - 1
    BY <2>5 DEF DraftEnd
  <2>8. p \in 1..DraftEnd(s) /\ p <= Len(tokens[s])
    BY <2>5, <2>6, <2>7
  <2>9. HoldsUpTo(draft, s, DraftEnd(s))
    BY <2>1, <2>3 DEF ContentInv, Admitted, FindsItsTokens, Drafted
  <2>10. QED
    BY <2>3, <2>4, <2>6, <2>8, <2>9, FoundIsPrefix
<1>2. QED
  BY <1>1, SpecBlocksInv, SpecV2Inv, PTL
=============================================================================
