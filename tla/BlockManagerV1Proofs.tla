------------------------ MODULE BlockManagerV1Proofs ------------------------
(***************************************************************************)
(* Proofs about BlockManagerV1 for every number of blocks, sequences and   *)
(* groups, with every group of several sequences a beam search, and a      *)
(* sliding window only where every group has one sequence: its invariants, *)
(* its steps, and that it implements BlockPool.                            *)
(***************************************************************************)
EXTENDS BlockManagerV1, FiniteSetTheorems, TLAPS

NoSlidingWindow == BlockSlidingWindow = 0

\* No request samples more than one sequence.
SingleSequences == \A g \in Groups : BestOf[g] = 1

\* Copy on write replaces one entry of a table, and a window has several for the
\* same block: with siblings the tables would not agree with the counts.
WindowsAreUnshared == NoSlidingWindow \/ SingleSequences

\* A group of several sequences is never preempted by recomputation: a finished
\* sibling would be counted by allocate() without ever being freed.
OnlyBeamsBranch == \A g \in Groups : BestOf[g] > 1 => g \in BeamGroups

BlockTypeOK ==
    /\ blockTables \in [Seqs -> Seq(Blocks)]
    /\ refCount \in [Blocks -> Nat]
    /\ freeBlocks \subseteq Blocks

\* The sequences whose table contains b.
InTable(b) == {s \in Seqs : b \in Range(blockTables[s])}

CountsExact ==
    \A b \in Blocks : /\ refCount[b] = Cardinality(InTable(b))
                      /\ b \in freeBlocks <=> refCount[b] = 0

\* Without a window a table has a block once.  With one it goes round in the
\* window, and as many entries as the window has are different blocks.
FitsWindow(t) ==
    IF NoSlidingWindow
    THEN IsInjective(t)
    ELSE /\ \A i \in DOMAIN t : t[i] = t[((i - 1) % BlockSlidingWindow) + 1]
         /\ \A i, j \in DOMAIN t : i < j /\ j - i < BlockSlidingWindow => t[i] # t[j]

NoRepeats == \A s \in Seqs : FitsWindow(blockTables[s])

TableInv == BlockTypeOK /\ CountsExact /\ NoRepeats

\* s alone holds the last block of its table.
OwnsLast(s) == HasTable(s) /\ InTable(LastBlock(blockTables[s])) = {s}
-----------------------------------------------------------------------------
(***************************************************************************)
(* Arithmetic and finite sets                                              *)
(***************************************************************************)
\* A multiple of w that is nearer to 0 than w is 0.
LEMMA SmallMultiple ==
    ASSUME NEW w \in Nat \ {0}, NEW k \in Int, -w < w * k, w * k < w
    PROVE  k = 0
<1>1. CASE k >= 1
  <2>1. PICK j \in Nat : k = j + 1
    BY <1>1
  <2>2. w * k = w * j + w /\ w * j \in Nat
    BY <2>1
  <2>3. QED
    BY <2>2
<1>2. CASE k <= -1
  <2>1. PICK j \in Nat : k = -j - 1
    BY <1>2
  <2>2. w * k = -(w * j) - w /\ w * j \in Nat
    BY <2>1
  <2>3. QED
    BY <2>2
<1>3. QED
  BY <1>1, <1>2

\* Quotient and remainder.
LEMMA DivMod ==
    ASSUME NEW n \in Nat, NEW w \in Nat \ {0}
    PROVE  /\ n \div w \in Nat /\ n % w \in 0..(w - 1)
           /\ n = w * (n \div w) + (n % w)
OBVIOUS

\* The remainder does not change when a multiple of w is added ...
LEMMA ModShift ==
    ASSUME NEW w \in Nat \ {0}, NEW n \in Nat, NEW q \in Nat
    PROVE  n + w * q \in Nat /\ (n + w * q) % w = n % w
<1>1. PICK m \in Nat : m = n + w * q
  OBVIOUS
<1>2. PICK a \in Nat, r \in 0..(w - 1) : n = w * a + r /\ r = n % w
  BY DivMod
<1>3. PICK b \in Nat, t \in 0..(w - 1) : m = w * b + t /\ t = m % w
  BY DivMod
<1>4. w * (a + q - b) = w * a + w * q - w * b
  OBVIOUS
<1>5. PICK x \in Nat, y \in Nat, z \in Nat : x = w * a /\ y = w * b /\ z = w * q
  OBVIOUS
<1>6. w * (a + q - b) = t - r
  <2>1. n = x + r /\ m = n + z /\ m = y + t /\ w * (a + q - b) = x + z - y
    BY <1>1, <1>2, <1>3, <1>4, <1>5
  <2>2. x + z - y = t - r
    BY <2>1
  <2>3. QED
    BY <2>1, <2>2
<1>7. a + q - b = 0
  <2>1. -w < w * (a + q - b) /\ w * (a + q - b) < w /\ a + q - b \in Int
    BY <1>6
  <2>2. QED
    BY <2>1, SmallMultiple
<1>8. t = r
  BY <1>6, <1>7
<1>9. QED
  BY <1>1, <1>2, <1>3, <1>8

\* ... and differs for numbers that are less than w apart.
LEMMA ModDiffers ==
    ASSUME NEW w \in Nat \ {0}, NEW m \in Nat, NEW n \in Nat, m < n, n - m < w
    PROVE  m % w # n % w
<1>1. SUFFICES ASSUME m % w = n % w PROVE FALSE
  OBVIOUS
<1>2. PICK a \in Nat : m = w * a + (m % w)
  BY DivMod
<1>3. PICK b \in Nat : n = w * b + (n % w)
  BY DivMod
<1>4. m % w \in Nat
  BY DivMod
<1>5. w * (b - a) = n - m
  <2>1. w * (b - a) = w * b - w * a
    OBVIOUS
  <2>2. QED
    BY <1>1, <1>2, <1>3, <1>4, <2>1
<1>6. b - a = 0
  <2>1. -w < w * (b - a) /\ w * (b - a) < w /\ b - a \in Int
    BY <1>5
  <2>2. QED
    BY <2>1, SmallMultiple
<1>7. QED
  BY <1>5, <1>6

\* The window, when there is one.
LEMMA WindowType ==
    ASSUME ~NoSlidingWindow
    PROVE  BlockSlidingWindow \in Nat \ {0} /\ BlockSlidingWindow # 0
BY BlockManagerAssumption DEF NoSlidingWindow

\* _free_block_table frees every block of a table, the window or not.
LEMMA LiveBlocksAreAll ==
    ASSUME NEW t \in Seq(Blocks), FitsWindow(t)
    PROVE  LiveBlocks(t) = Range(t)
<1> DEFINE w == BlockSlidingWindow
           n == Len(t)
<1>1. n \in Nat /\ DOMAIN t = 1..n
  OBVIOUS
<1>2. CASE w = 0 \/ n <= w
  BY <1>1, <1>2 DEF LiveBlocks, Range
<1>3. CASE ~(w = 0 \/ n <= w)
  <2>1. w \in Nat \ {0} /\ n > w /\ ~NoSlidingWindow
    BY <1>1, <1>3, BlockManagerAssumption DEF NoSlidingWindow
  <2>2. \A i \in 1..n : t[i] = t[((i - 1) % w) + 1]
    BY <1>1, <2>1 DEF FitsWindow
  <2>3. LiveBlocks(t) = {t[i] : i \in (n - w + 1)..n}
    BY <2>1 DEF LiveBlocks
  <2> HIDE DEF w, n
  <2>4. ASSUME NEW i \in 1..n
        PROVE  t[i] \in LiveBlocks(t)
    <3>1. n - i \in Nat /\ i - 1 \in Nat
      BY <1>1
    <3>2. PICK q \in Nat : n - i = w * q + ((n - i) % w) /\ (n - i) % w \in 0..(w - 1)
      BY <2>1, <3>1, DivMod
    <3> DEFINE j == i + w * q
    <3>3. w * q \in Nat
      BY <2>1
    <3>4. j \in (n - w + 1)..n /\ j \in 1..n /\ j - 1 = (i - 1) + w * q
      BY <1>1, <2>1, <3>1, <3>2, <3>3
    <3>5. (j - 1) % w = (i - 1) % w
      BY <2>1, <3>1, <3>4, ModShift
    <3>6. t[j] = t[i]
      BY <2>2, <3>4, <3>5
    <3>7. QED
      BY <2>3, <3>4, <3>6
  <2>5. \A i \in (n - w + 1)..n : i \in 1..n
    BY <1>1, <2>1
  <2>6. QED
    BY <1>1, <2>3, <2>4, <2>5 DEF Range
<1>4. QED
  BY <1>2, <1>3

\* The empty table fits any window.
LEMMA EmptyFits == FitsWindow(<< >>)
BY DEF FitsWindow, IsInjective

\* The remainder of a number below w.
LEMMA SmallMod ==
    ASSUME NEW w \in Nat \ {0}, NEW i \in 1..w
    PROVE  ((i - 1) % w) + 1 = i
OBVIOUS

\* A number of logical blocks is a number.
LEMMA NumBlocksType ==
    ASSUME NEW n \in Nat
    PROVE  (n + BlockSize - 1) \div BlockSize \in Nat
BY SequenceGroupsAssumption

\* One more token needs at most one more logical block.
LEMMA NumBlocksGrow ==
    ASSUME NEW n \in Nat
    PROVE  \/ (n + 1 + BlockSize - 1) \div BlockSize = (n + BlockSize - 1) \div BlockSize
           \/ (n + 1 + BlockSize - 1) \div BlockSize = (n + BlockSize - 1) \div BlockSize + 1
BY SequenceGroupsAssumption

\* Sets of sequences are finite.
LEMMA SeqSetsFinite ==
    ASSUME NEW S \in SUBSET Seqs
    PROVE  IsFiniteSet(S) /\ Cardinality(S) \in Nat
BY FS_Subset, FS_CardinalityType, SequenceGroupsAssumption

\* The holders of a block are finitely many sequences.
LEMMA InTableFinite ==
    ASSUME NEW b
    PROVE  IsFiniteSet(InTable(b)) /\ Cardinality(InTable(b)) \in Nat
<1>1. InTable(b) \in SUBSET Seqs
  BY DEF InTable
<1>2. QED
  BY <1>1, SeqSetsFinite

\* A block is free exactly when no table contains it.
LEMMA FreeIsUnheld ==
    ASSUME TableInv, NEW b \in Blocks
    PROVE  b \in freeBlocks <=> InTable(b) = {}
BY InTableFinite, FS_EmptySet DEF TableInv, CountsExact

\* Appending to a table adds one entry.
LEMMA AppendToTable ==
    ASSUME NEW t \in Seq(Blocks), NEW b \in Blocks
    PROVE  /\ Append(t, b) \in Seq(Blocks)
           /\ Range(Append(t, b)) = Range(t) \cup {b}
           /\ /\ FitsWindow(t) /\ b \notin Range(t)
              /\ NoSlidingWindow \/ Len(t) < BlockSlidingWindow
              => FitsWindow(Append(t, b))
<1> DEFINE u == Append(t, b)
<1>1. /\ u \in Seq(Blocks)
      /\ DOMAIN u = 1..(Len(t) + 1) /\ DOMAIN t = 1..Len(t) /\ Len(t) \in Nat
      /\ \A i \in 1..Len(t) : u[i] = t[i]
      /\ u[Len(t) + 1] = b
  OBVIOUS
<1> HIDE DEF u
<1>2. Range(u) = Range(t) \cup {b}
  <2>1. Range(u) \subseteq Range(t) \cup {b}
    BY <1>1 DEF Range
  <2>2. Range(t) \subseteq Range(u) /\ b \in Range(u)
    BY <1>1 DEF Range
  <2>3. QED
    BY <2>1, <2>2
<1>3. ASSUME FitsWindow(t), b \notin Range(t), NoSlidingWindow \/ Len(t) < BlockSlidingWindow
      PROVE  FitsWindow(u)
  <2>1. CASE NoSlidingWindow
    BY <1>1, <1>3, <2>1 DEF FitsWindow, IsInjective, Range
  <2>2. CASE ~NoSlidingWindow
    <3> DEFINE w == BlockSlidingWindow
    <3>1. w \in Nat \ {0} /\ Len(t) + 1 <= w
      BY <1>1, <1>3, <2>2, WindowType
    <3> HIDE DEF w
    <3>2. \A i \in 1..(Len(t) + 1) : ((i - 1) % w) + 1 = i
      BY <1>1, <3>1, SmallMod
    <3>3. \A i, j \in 1..(Len(t) + 1) : i < j /\ j - i < w => u[i] # u[j]
      <4>1. SUFFICES ASSUME NEW i \in 1..(Len(t) + 1), NEW j \in 1..(Len(t) + 1),
                            i < j, j - i < w
                     PROVE  u[i] # u[j]
        OBVIOUS
      <4>2. i \in 1..Len(t)
        BY <1>1, <4>1
      <4>3. CASE j = Len(t) + 1
        BY <1>1, <1>3, <4>2, <4>3 DEF Range
      <4>4. CASE j \in 1..Len(t)
        BY <1>1, <1>3, <2>2, <4>1, <4>2, <4>4 DEF FitsWindow, w
      <4>5. QED
        BY <1>1, <4>3, <4>4
    <3>4. QED
      BY <1>1, <2>2, <3>2, <3>3 DEF FitsWindow, w
  <2>3. QED
    BY <2>1, <2>2
<1>4. QED
  BY <1>1, <1>2, <1>3 DEF u

\* append_slots() reuses the entry that leaves the window.
LEMMA ReuseEntry ==
    ASSUME NEW t \in Seq(Blocks), FitsWindow(t), ~NoSlidingWindow,
           Len(t) >= BlockSlidingWindow
    PROVE  LET u == Append(t, t[(Len(t) % BlockSlidingWindow) + 1])
           IN  /\ u \in Seq(Blocks) /\ Range(u) = Range(t) /\ FitsWindow(u)
               /\ Len(u) = Len(t) + 1 /\ u # << >> /\ u[Len(u)] \in Range(t)
<1> DEFINE w == BlockSlidingWindow
           n == Len(t)
           b == t[(n % w) + 1]
           u == Append(t, b)
<1>1. w \in Nat \ {0} /\ n \in Nat /\ n >= w /\ DOMAIN t = 1..n
  BY WindowType
<1>2. (n % w) + 1 \in 1..n
  <2> HIDE DEF w, n
  <2>1. n % w \in 0..(w - 1)
    BY <1>1, DivMod
  <2>2. QED
    BY <1>1, <2>1
<1>3. b \in Blocks /\ b \in Range(t)
  BY <1>1, <1>2 DEF Range
<1>4. /\ u \in Seq(Blocks) /\ Len(u) = n + 1 /\ DOMAIN u = 1..(n + 1)
      /\ \A i \in 1..n : u[i] = t[i]
      /\ u[n + 1] = b
  BY <1>3
<1>5. Range(u) = Range(t)
  <2>1. \A x \in Blocks : Range(Append(t, x)) = Range(t) \cup {x}
    BY AppendToTable
  <2>2. Range(u) = Range(t) \cup {b}
    BY <1>3, <2>1
  <2> HIDE DEF u, b
  <2>3. QED
    BY <1>3, <2>2
<1>6. /\ \A i \in 1..n : t[i] = t[((i - 1) % w) + 1]
      /\ \A i, j \in 1..n : i < j /\ j - i < w => t[i] # t[j]
  BY <1>1 DEF FitsWindow
<1> HIDE DEF w, n, u
<1>7. b = t[n + 1 - w] /\ n + 1 - w \in 1..n
  <2>1. n - w \in Nat /\ (n - w) + w * 1 = n
    BY <1>1
  <2>2. (n - w) % w = n % w
    <3>1. PICK k \in Nat : k = n - w
      BY <2>1
    <3>2. k + w * 1 = n /\ w \in Nat \ {0} /\ 1 \in Nat
      BY <1>1, <2>1, <3>1
    <3>3. (k + w * 1) % w = k % w
      BY <3>2, ModShift
    <3>4. QED
      BY <3>1, <3>2, <3>3
  <2>3. n + 1 - w \in 1..n /\ (n + 1 - w) - 1 = n - w
    BY <1>1
  <2>4. QED
    BY <1>6, <2>2, <2>3
<1> HIDE DEF b
<1>8. ASSUME NEW i \in 1..(n + 1)
      PROVE  u[i] = u[((i - 1) % w) + 1]
  <2>1. i - 1 \in Nat /\ (i - 1) % w \in 0..(w - 1)
    <3>1. i - 1 \in Nat
      BY <1>1
    <3>2. PICK k \in Nat : k = i - 1
      BY <3>1
    <3>3. w \in Nat \ {0}
      BY <1>1
    <3>4. k % w \in 0..(w - 1)
      BY <3>3, DivMod
    <3>5. QED
      BY <3>2, <3>4
  <2>2. ((i - 1) % w) + 1 \in 1..n
    BY <1>1, <2>1
  <2>3. CASE i \in 1..n
    <3>1. PICK k : k = ((i - 1) % w) + 1
      OBVIOUS
    <3>2. u[i] = t[i] /\ u[k] = t[k]
      BY <1>4, <2>2, <2>3, <3>1
    <3>3. t[i] = t[k]
      BY <1>6, <2>3, <3>1
    <3>4. QED
      BY <3>1, <3>2, <3>3
  <2>4. CASE i = n + 1
    <3>1. i - 1 = n
      BY <1>1, <2>4
    <3>2. u[i] = b /\ u[(n % w) + 1] = t[(n % w) + 1]
      BY <1>2, <1>4, <2>4
    <3>3. QED
      BY <3>1, <3>2 DEF b
  <2>5. QED
    BY <1>1, <2>3, <2>4
<1>9. ASSUME NEW i \in 1..(n + 1), NEW j \in 1..(n + 1), i < j, j - i < w
      PROVE  u[i] # u[j]
  <2>1. i \in 1..n
    BY <1>1, <1>9
  <2>2. CASE j \in 1..n
    BY <1>4, <1>6, <1>9, <2>1, <2>2
  <2>3. CASE j = n + 1
    <3>1. n + 1 - w < i /\ i - (n + 1 - w) < w
      BY <1>1, <1>9, <2>1, <2>3
    <3>2. t[n + 1 - w] # t[i]
      BY <1>6, <1>7, <2>1, <3>1
    <3>3. QED
      BY <1>4, <1>7, <2>1, <2>3, <3>2
  <2>4. QED
    BY <1>1, <2>2, <2>3
<1>10. FitsWindow(u)
  BY <1>4, <1>8, <1>9 DEF FitsWindow, w
<1>11. u # << >> /\ u[Len(u)] \in Range(t)
  BY <1>1, <1>3, <1>4
<1>12. QED
  BY <1>4, <1>5, <1>10, <1>11 DEF u, b, n, w

\* Replacing the last entry of a table without repeats.
LEMMA ReplaceLast ==
    ASSUME NEW t \in Seq(Blocks), t # << >>, IsInjective(t), NEW b \in Blocks,
           b \notin Range(t)
    PROVE  LET u == [t EXCEPT ![Len(t)] = b]
           IN  /\ u \in Seq(Blocks)
               /\ Range(u) = (Range(t) \ {t[Len(t)]}) \cup {b}
               /\ IsInjective(u)
<1> DEFINE n == Len(t)
           u == [t EXCEPT ![n] = b]
           old == t[n]
<1>1. /\ u \in Seq(Blocks)
      /\ n \in Nat /\ n \in 1..n /\ DOMAIN u = 1..n /\ DOMAIN t = 1..n
      /\ \A i \in 1..n : i # n => u[i] = t[i]
      /\ u[n] = b
  OBVIOUS
<1>2. old \in Range(t)
  BY <1>1 DEF Range
<1> HIDE DEF n, u
<1>3. Range(u) = (Range(t) \ {old}) \cup {b}
  <2>1. ASSUME NEW i \in 1..n
        PROVE  u[i] \in (Range(t) \ {old}) \cup {b}
    <3>1. CASE i = n
      BY <1>1, <3>1
    <3>2. CASE i # n
      <4>1. u[i] = t[i] /\ t[i] \in Range(t)
        BY <1>1, <3>2 DEF Range
      <4>2. t[i] # old
        BY <1>1, <3>2 DEF IsInjective
      <4>3. QED
        BY <4>1, <4>2
    <3>3. QED
      BY <3>1, <3>2
  <2>2. ASSUME NEW x \in Range(t) \ {old}
        PROVE  x \in Range(u)
    <3>1. PICK i \in 1..n : x = t[i]
      BY <1>1 DEF Range
    <3>2. i # n
      BY <3>1
    <3>3. QED
      BY <1>1, <3>1, <3>2 DEF Range
  <2>3. b \in Range(u)
    BY <1>1 DEF Range
  <2>4. QED
    BY <1>1, <2>1, <2>2, <2>3 DEF Range
<1>4. IsInjective(u)
  BY <1>1 DEF IsInjective, Range
<1>5. QED
  BY <1>1, <1>3, <1>4 DEF u, n
-----------------------------------------------------------------------------
(***************************************************************************)
(* Every operation of the block manager keeps TableInv                     *)
(***************************************************************************)

\* A new block at the end of a table has one holder.
LEMMA AppendNewBlockKeeps ==
    ASSUME TableInv, NEW s \in Seqs, AppendNewBlock(s)
    PROVE  /\ TableInv' /\ OwnsLast(s)'
           /\ Len(blockTables'[s]) = Len(blockTables[s]) + 1
           /\ Range(blockTables'[s]) \subseteq Range(blockTables[s]) \cup GpuFree
           /\ \A q \in Seqs \ {s} : blockTables'[q] = blockTables[q]
           /\ \A b \in Blocks : refCount'[b] = refCount[b] \/ refCount'[b] = 1
<1>1. PICK b \in GpuFree : /\ blockTables' = [blockTables EXCEPT ![s] = Append(@, b)]
                           /\ Update([x \in {b} |-> 1], Never)
  BY DEF AppendNewBlock
<1>2. b \in Blocks /\ b \in freeBlocks
  BY <1>1 DEF GpuFree, Blocks
<1>3. refCount' = [x \in Blocks |-> IF x = b THEN 1 ELSE refCount[x]]
  BY <1>1 DEF Update, Never, TableInv, BlockTypeOK
<1>4. freeBlocks' = freeBlocks \ {b}
  BY <1>1 DEF Update, Never
<1>5. BlockTypeOK'
  BY <1>1, <1>2, <1>3, <1>4 DEF TableInv, BlockTypeOK
<1>6. \A q \in Seqs : Range(blockTables'[q]) =
                        IF q = s THEN Range(blockTables[q]) \cup {b} ELSE Range(blockTables[q])
  BY <1>1, <1>2, AppendToTable DEF TableInv, BlockTypeOK
<1>7. InTable(b) = {}
  BY <1>2, FreeIsUnheld
<1>8. NoRepeats'
  <2>1. b \notin Range(blockTables[s])
    BY <1>7 DEF InTable
  <2>2. NoSlidingWindow \/ Len(blockTables[s]) < BlockSlidingWindow
    <3>1. BlockSlidingWindow \in Nat /\ Len(blockTables[s]) \in Nat
      BY BlockManagerAssumption DEF TableInv, BlockTypeOK
    <3>2. ~(BlockSlidingWindow > 0 /\ Len(blockTables[s]) >= BlockSlidingWindow)
      BY DEF AppendNewBlock, ReusesBlock
    <3>3. QED
      BY <3>1, <3>2 DEF NoSlidingWindow
  <2>3. \A q \in Seqs : FitsWindow(blockTables[q]) /\ blockTables[q] \in Seq(Blocks)
    BY DEF TableInv, NoRepeats, BlockTypeOK
  <2>4. FitsWindow(Append(blockTables[s], b))
    BY <1>2, <2>1, <2>2, <2>3, AppendToTable
  <2>5. \A q \in Seqs : blockTables'[q] = IF q = s THEN Append(blockTables[s], b)
                                          ELSE blockTables[q]
    BY <1>1 DEF TableInv, BlockTypeOK
  <2>6. QED
    BY <2>3, <2>4, <2>5 DEF NoRepeats
<1>e. InTable(b)' = {s}
  BY <1>6, <1>7 DEF InTable
<1>9. CountsExact'
  <2>1. SUFFICES ASSUME NEW x \in Blocks
                 PROVE  /\ refCount'[x] = Cardinality(InTable(x)')
                        /\ x \in freeBlocks' <=> refCount'[x] = 0
    BY DEF CountsExact
  <2>2. CASE x = b
    <3>1. InTable(x)' = {s}
      BY <1>e, <2>2
    <3>2. QED
      BY <1>2, <1>3, <1>4, <2>2, <3>1, FS_Singleton
  <2>3. CASE x # b
    <3>1. InTable(x)' = InTable(x)
      BY <1>6, <2>3 DEF InTable
    <3>2. QED
      BY <1>3, <1>4, <2>3, <3>1 DEF TableInv, CountsExact
  <2>4. QED
    BY <2>2, <2>3
<1>10. /\ blockTables'[s] = Append(blockTables[s], b)
       /\ \A q \in Seqs \ {s} : blockTables'[q] = blockTables[q]
  BY <1>1 DEF TableInv, BlockTypeOK
<1>11. /\ Len(blockTables'[s]) = Len(blockTables[s]) + 1
       /\ LastBlock(blockTables'[s]) = b /\ blockTables'[s] # << >>
  BY <1>2, <1>10 DEF LastBlock, TableInv, BlockTypeOK
<1>12. OwnsLast(s)'
  BY <1>e, <1>11 DEF OwnsLast, HasTable
<1>13. Range(blockTables'[s]) \subseteq Range(blockTables[s]) \cup GpuFree
  BY <1>6
<1>14. TableInv'
  BY <1>5, <1>8, <1>9 DEF TableInv
<1>15. QED
  BY <1>3, <1>10, <1>11, <1>12, <1>13, <1>14

\* Copy on write moves the reference of s from the shared block to the copy.
LEMMA AppendCopyOnWriteKeeps ==
    ASSUME NoSlidingWindow, TableInv, NEW s \in Seqs, HasTable(s), AppendCopyOnWrite(s)
    PROVE  /\ TableInv' /\ OwnsLast(s)'
           /\ Len(blockTables'[s]) = Len(blockTables[s])
           /\ Range(blockTables'[s]) \subseteq Range(blockTables[s]) \cup GpuFree
           /\ \A q \in Seqs \ {s} : blockTables'[q] = blockTables[q]
<1> DEFINE t == blockTables[s]
           old == t[Len(t)]
<1>1. t \in Seq(Blocks) /\ Len(t) \in 1..Len(t) /\ old \in Blocks
  BY DEF TableInv, BlockTypeOK, HasTable
<1>2. SlotTable(s) = t
  BY BlockManagerAssumption DEF SlotTable, ReusesBlock, NoSlidingWindow
<1>c. CopyLastBlock(s, t)
  BY <1>2 DEF AppendCopyOnWrite
<1>3. refCount[old] > 1
  BY <1>c DEF CopyLastBlock, LastBlock
<1>4. PICK b \in GpuFree :
         /\ blockTables' = [blockTables EXCEPT ![s] = [t EXCEPT ![Len(t)] = b]]
         /\ refCount' = [x \in Blocks |-> IF x = b THEN 1
                              ELSE refCount[x] - (IF x = old THEN 1 ELSE 0)]
         /\ freeBlocks' = (freeBlocks \ {b})
              \cup {x \in Blocks : /\ (IF x = old THEN 1 ELSE 0) > 0
                                   /\ (IF x = old THEN 1 ELSE 0) = refCount[x]}
  BY <1>c DEF CopyLastBlock, LastBlock, Update
<1>5. b \in Blocks /\ b \in freeBlocks /\ InTable(b) = {}
  BY FreeIsUnheld DEF GpuFree, Blocks
<1>6. b \notin Range(t) /\ old # b
  BY <1>1, <1>5 DEF InTable, Range
<1>7. refCount' = [x \in Blocks |-> IF x = b THEN 1
                                    ELSE IF x = old THEN refCount[x] - 1 ELSE refCount[x]]
  BY <1>4 DEF TableInv, BlockTypeOK
<1>8. freeBlocks' = freeBlocks \ {b}
  BY <1>1, <1>3, <1>4 DEF TableInv, BlockTypeOK
<1>9. /\ blockTables'[s] \in Seq(Blocks)
      /\ Range(blockTables'[s]) = (Range(t) \ {old}) \cup {b}
      /\ IsInjective(blockTables'[s])
  <2>1. blockTables'[s] = [t EXCEPT ![Len(t)] = b]
    BY <1>4 DEF TableInv, BlockTypeOK
  <2>2. t # << >> /\ IsInjective(t)
    BY DEF TableInv, NoRepeats, FitsWindow, HasTable
  <2>3. QED
    BY <1>1, <1>5, <1>6, <2>1, <2>2, ReplaceLast
<1>10. \A q \in Seqs : q # s => blockTables'[q] = blockTables[q]
  BY <1>4 DEF TableInv, BlockTypeOK
<1>11. BlockTypeOK'
  <2>1. refCount' \in [Blocks -> Nat]
    BY <1>1, <1>3, <1>7 DEF TableInv, BlockTypeOK
  <2>2. blockTables' \in [Seqs -> Seq(Blocks)]
    BY <1>4, <1>9, <1>10 DEF TableInv, BlockTypeOK
  <2>3. QED
    BY <1>8, <2>1, <2>2 DEF TableInv, BlockTypeOK
<1>12. \A q \in Seqs : q # s => Range(blockTables'[q]) = Range(blockTables[q])
  BY <1>10
<1>13. NoRepeats'
  BY <1>9, <1>10 DEF TableInv, NoRepeats, FitsWindow
<1>e. InTable(b)' = {s}
  BY <1>5, <1>9, <1>12 DEF InTable
<1>14. CountsExact'
  <2>1. SUFFICES ASSUME NEW x \in Blocks
                 PROVE  /\ refCount'[x] = Cardinality(InTable(x)')
                        /\ x \in freeBlocks' <=> refCount'[x] = 0
    BY DEF CountsExact
  <2>2. CASE x = b
    <3>1. InTable(x)' = {s}
      BY <1>e, <2>2
    <3>2. QED
      BY <1>5, <1>7, <1>8, <2>2, <3>1, FS_Singleton
  <2>3. CASE x = old
    <3>1. InTable(x)' = InTable(x) \ {s}
      BY <1>6, <1>9, <1>12, <2>3 DEF InTable
    <3>2. s \in InTable(x)
      BY <1>1, <2>3 DEF InTable, Range
    <3>3. Cardinality(InTable(x)') = Cardinality(InTable(x)) - 1
      BY <3>1, <3>2, InTableFinite, FS_RemoveElement
    <3>4. refCount[x] \in Nat
      BY DEF TableInv, BlockTypeOK
    <3>5. QED
      BY <1>3, <1>6, <1>7, <1>8, <2>3, <3>3, <3>4 DEF TableInv, CountsExact
  <2>4. CASE x # b /\ x # old
    <3>1. InTable(x)' = InTable(x)
      BY <1>9, <1>12, <2>4 DEF InTable
    <3>2. QED
      BY <1>7, <1>8, <2>4, <3>1 DEF TableInv, CountsExact
  <2>5. QED
    BY <2>2, <2>3, <2>4
<1>15. blockTables'[s] = [t EXCEPT ![Len(t)] = b]
  BY <1>4 DEF TableInv, BlockTypeOK
<1>16. /\ Len(blockTables'[s]) = Len(t)
       /\ LastBlock(blockTables'[s]) = b /\ blockTables'[s] # << >>
  BY <1>1, <1>5, <1>15 DEF LastBlock
<1>17. OwnsLast(s)'
  BY <1>e, <1>16 DEF OwnsLast, HasTable
<1>18. QED
  BY <1>4, <1>9, <1>10, <1>11, <1>13, <1>14, <1>16, <1>17 DEF TableInv

\* The table append_slots() works on: with the entry that leaves the window at its
\* end, when it is reused.
LEMMA SlotTableFits ==
    ASSUME TableInv, NEW s \in Seqs, HasTable(s)
    PROVE  /\ SlotTable(s) \in Seq(Blocks) /\ FitsWindow(SlotTable(s))
           /\ Range(SlotTable(s)) = Range(blockTables[s]) /\ SlotTable(s) # << >>
           /\ Len(SlotTable(s)) = IF ReusesBlock(s) THEN Len(blockTables[s]) + 1
                                  ELSE Len(blockTables[s])
           /\ LastBlock(SlotTable(s)) \in Range(blockTables[s])
<1> DEFINE t == blockTables[s]
           u == SlotTable(s)
<1>0. t \in Seq(Blocks) /\ FitsWindow(t) /\ t # << >>
  BY DEF TableInv, BlockTypeOK, NoRepeats, HasTable
<1>1. CASE ReusesBlock(s)
  <2>1. ~NoSlidingWindow /\ Len(t) >= BlockSlidingWindow
    BY <1>1, BlockManagerAssumption DEF ReusesBlock, NoSlidingWindow
  <2>2. u = Append(t, t[(Len(t) % BlockSlidingWindow) + 1])
    BY <1>1 DEF SlotTable
  <2> HIDE DEF t, u
  <2>3. /\ u \in Seq(Blocks) /\ Range(u) = Range(t) /\ FitsWindow(u)
        /\ Len(u) = Len(t) + 1 /\ u # << >> /\ u[Len(u)] \in Range(t)
    BY <1>0, <2>1, <2>2, ReuseEntry
  <2>4. LastBlock(u) \in Range(t)
    BY <2>3 DEF LastBlock
  <2>5. QED
    BY <1>1, <2>3, <2>4 DEF t, u
<1>2. CASE ~ReusesBlock(s)
  <2>1. u = t
    BY <1>2 DEF SlotTable
  <2> HIDE DEF t, u
  <2>2. t[Len(t)] \in Range(t)
    BY <1>0 DEF Range
  <2>3. LastBlock(u) \in Range(t)
    BY <2>1, <2>2 DEF LastBlock
  <2>4. QED
    BY <1>0, <1>2, <2>1, <2>3 DEF t, u
<1>3. QED
  BY <1>1, <1>2

\* A token goes in place, in the last block or in the one that leaves the window,
\* only into a block that no other table contains.
LEMMA AppendInPlaceKeeps ==
    ASSUME TableInv, NEW s \in Seqs, HasTable(s), AppendInPlace(s)
    PROVE  /\ TableInv' /\ OwnsLast(s)'
           /\ Len(blockTables'[s]) = IF ReusesBlock(s) THEN Len(blockTables[s]) + 1
                                     ELSE Len(blockTables[s])
           /\ \A q \in Seqs : Range(blockTables'[q]) = Range(blockTables[q])
           /\ \A q \in Seqs \ {s} : blockTables'[q] = blockTables[q]
           /\ refCount' = refCount
<1> DEFINE t == blockTables[s]
           u == SlotTable(s)
           last == LastBlock(u)
<1>1. /\ blockTables' = [blockTables EXCEPT ![s] = u]
      /\ refCount' = refCount /\ freeBlocks' = freeBlocks /\ refCount[last] = 1
  BY DEF AppendInPlace
<1>2. /\ t \in Seq(Blocks) /\ FitsWindow(t) /\ t # << >>
      /\ blockTables \in [Seqs -> Seq(Blocks)]
  BY DEF TableInv, BlockTypeOK, NoRepeats, HasTable
<1>3. /\ u \in Seq(Blocks) /\ FitsWindow(u) /\ Range(u) = Range(t)
      /\ Len(u) = IF ReusesBlock(s) THEN Len(t) + 1 ELSE Len(t)
      /\ u # << >> /\ last \in Range(t)
  BY SlotTableFits
<1>4. /\ \A q \in Seqs : blockTables'[q] = IF q = s THEN u ELSE blockTables[q]
      /\ blockTables' \in [Seqs -> Seq(Blocks)]
  BY <1>1, <1>2, <1>3
<1>5. \A q \in Seqs : Range(blockTables'[q]) = Range(blockTables[q])
  BY <1>3, <1>4
<1>6. TableInv'
  <2>1. BlockTypeOK'
    BY <1>1, <1>4 DEF TableInv, BlockTypeOK
  <2>2. NoRepeats'
    BY <1>3, <1>4 DEF TableInv, NoRepeats
  <2>3. \A b : InTable(b)' = InTable(b)
    BY <1>5 DEF InTable
  <2>4. CountsExact'
    BY <1>1, <2>3 DEF TableInv, CountsExact
  <2>5. QED
    BY <2>1, <2>2, <2>4 DEF TableInv
<1>7. last \in Blocks /\ s \in InTable(last)
  BY <1>2, <1>3 DEF InTable, Range
<1>8. Cardinality(InTable(last)) = 1
  BY <1>1, <1>7 DEF TableInv, CountsExact
<1>9. InTable(last) = {s}
  BY <1>7, <1>8, InTableFinite, FS_CardinalityType, FS_Singleton
<1>10. {q \in Seqs : last \in Range(blockTables'[q])} = {s}
  BY <1>5, <1>9 DEF InTable
<1>11. OwnsLast(s)'
  <2>1. blockTables'[s] = u
    BY <1>4
  <2>2. LastBlock(blockTables'[s]) = last /\ blockTables'[s] # << >>
    BY <1>3, <2>1
  <2> HIDE DEF u, last
  <2>3. QED
    BY <1>10, <2>2 DEF OwnsLast, HasTable, InTable
<1>12. Len(blockTables'[s]) = IF ReusesBlock(s) THEN Len(t) + 1 ELSE Len(t)
  BY <1>3, <1>4
<1>13. QED
  BY <1>1, <1>4, <1>5, <1>6, <1>11, <1>12

\* A forked table adds its sequence to the holders of every block in it.
LEMMA ForkTableKeeps ==
    ASSUME TableInv, NEW p \in Seqs, NEW c \in Seqs, ~HasTable(c), ForkTable(p, c)
    PROVE  TableInv'
<1>1. /\ blockTables' = [blockTables EXCEPT ![c] = blockTables[p]]
      /\ refCount' = [b \in Blocks |-> IF b \in Range(blockTables[p])
                                       THEN refCount[b] + 1 ELSE refCount[b]]
      /\ freeBlocks' = freeBlocks
  BY DEF ForkTable
<1>2. BlockTypeOK'
  BY <1>1 DEF TableInv, BlockTypeOK
<1>3. NoRepeats'
  BY <1>1 DEF TableInv, BlockTypeOK, NoRepeats
<1>4. CountsExact'
  <2>1. SUFFICES ASSUME NEW x \in Blocks
                 PROVE  /\ refCount'[x] = Cardinality(InTable(x)')
                        /\ x \in freeBlocks' <=> refCount'[x] = 0
    BY DEF CountsExact
  <2>2. c \notin InTable(x)
    BY DEF InTable, HasTable, Range
  <2>3. refCount[x] \in Nat
    BY DEF TableInv, BlockTypeOK
  <2>4. CASE x \in Range(blockTables[p])
    <3>1. InTable(x)' = InTable(x) \cup {c}
      BY <1>1, <2>4 DEF InTable, TableInv, BlockTypeOK
    <3>2. Cardinality(InTable(x)') = Cardinality(InTable(x)) + 1
      BY <2>2, <3>1, InTableFinite, FS_AddElement
    <3>3. p \in InTable(x)
      BY <2>4 DEF InTable
    <3>4. x \notin freeBlocks
      BY <3>3, FreeIsUnheld
    <3>5. QED
      BY <1>1, <2>3, <2>4, <3>2, <3>4 DEF TableInv, CountsExact
  <2>5. CASE x \notin Range(blockTables[p])
    <3>1. InTable(x)' = InTable(x)
      BY <1>1, <2>2, <2>5 DEF InTable, TableInv, BlockTypeOK
    <3>2. QED
      BY <1>1, <2>5, <3>1 DEF TableInv, CountsExact
  <2>6. QED
    BY <2>4, <2>5
<1>5. QED
  BY <1>2, <1>3, <1>4 DEF TableInv

\* A block is freed once for every one of its holders that is freed.
LEMMA NumFreesIsHolders ==
    ASSUME TableInv, NEW S \in SUBSET Seqs, NEW b \in Blocks
    PROVE  /\ NumFrees(b, S) = Cardinality(InTable(b) \cap S)
           /\ NumFrees(b, S) \in Nat
           /\ NumFrees(b, S) <= refCount[b]
           /\ Cardinality(InTable(b) \ S) = refCount[b] - NumFrees(b, S)
<1>1. {s \in S : b \in LiveBlocks(blockTables[s])} = InTable(b) \cap S
  BY LiveBlocksAreAll DEF InTable, TableInv, BlockTypeOK, NoRepeats
<1>2. refCount[b] = Cardinality(InTable(b))
  BY DEF TableInv, CountsExact
<1>3. InTable(b) \cap S \in SUBSET InTable(b)
  OBVIOUS
<1>4. /\ Cardinality(InTable(b) \cap S) <= Cardinality(InTable(b))
      /\ Cardinality(InTable(b) \ S) = Cardinality(InTable(b)) - Cardinality(InTable(b) \cap S)
  BY <1>3, InTableFinite, FS_Subset, FS_Difference
<1>5. Cardinality(InTable(b) \cap S) \in Nat
  BY <1>3, SeqSetsFinite DEF InTable
<1>6. QED
  BY <1>1, <1>2, <1>4, <1>5 DEF NumFrees

\* free() never finds a count of 0: no table is freed twice.
LEMMA CanAlwaysFree ==
    ASSUME TableInv, NEW S \in SUBSET Seqs
    PROVE  CanFree(S)
BY NumFreesIsHolders DEF CanFree

\* Freeing tables takes their sequences out of the holders of every block.
LEMMA FreeTablesKeeps ==
    ASSUME TableInv, NEW S \in SUBSET Seqs, FreeTables(S)
    PROVE  TableInv' /\ \A b \in Blocks : refCount'[b] <= refCount[b]
<1>1. /\ blockTables' = [s \in Seqs |-> IF s \in S THEN << >> ELSE blockTables[s]]
      /\ refCount' = [b \in Blocks |-> refCount[b] - NumFrees(b, S)]
      /\ freeBlocks' = freeBlocks \cup {b \in Blocks : NumFrees(b, S) > 0
                                                      /\ NumFrees(b, S) = refCount[b]}
  BY DEF FreeTables, Update, NoBlocks
<1> DEFINE k == [b \in Blocks |-> NumFrees(b, S)]
<1>2. /\ k \in [Blocks -> Nat]
      /\ \A b \in Blocks : /\ refCount[b] \in Nat /\ k[b] \in Nat /\ k[b] <= refCount[b]
                           /\ Cardinality(InTable(b) \ S) = refCount[b] - k[b]
  BY NumFreesIsHolders DEF TableInv, BlockTypeOK
<1>3. /\ refCount' = [b \in Blocks |-> refCount[b] - k[b]]
      /\ freeBlocks' = freeBlocks \cup {b \in Blocks : k[b] > 0 /\ k[b] = refCount[b]}
  BY <1>1
<1> HIDE DEF k
<1>4. BlockTypeOK'
  <2>1. ASSUME NEW b \in Blocks
        PROVE  refCount[b] - k[b] \in Nat
    <3>1. refCount[b] \in Nat /\ k[b] \in Nat /\ k[b] <= refCount[b]
      BY <1>2
    <3>2. QED
      BY <3>1
  <2>2. blockTables' \in [Seqs -> Seq(Blocks)] /\ freeBlocks' \subseteq Blocks
    BY <1>1, <1>3 DEF TableInv, BlockTypeOK
  <2>3. QED
    BY <1>3, <2>1, <2>2 DEF BlockTypeOK
<1>5. NoRepeats'
  BY <1>1, EmptyFits DEF TableInv, BlockTypeOK, NoRepeats
<1>6. CountsExact'
  <2>1. SUFFICES ASSUME NEW x \in Blocks
                 PROVE  /\ refCount'[x] = Cardinality(InTable(x)')
                        /\ x \in freeBlocks' <=> refCount'[x] = 0
    BY DEF CountsExact
  <2>2. InTable(x)' = InTable(x) \ S
    BY <1>1 DEF InTable, Range
  <2>3. x \in freeBlocks <=> refCount[x] = 0
    BY DEF TableInv, CountsExact
  <2>4. QED
    BY <1>2, <1>3, <2>2, <2>3
<1>7. ASSUME NEW b \in Blocks
      PROVE  refCount'[b] <= refCount[b]
  <2>1. refCount[b] \in Nat /\ k[b] \in Nat /\ refCount'[b] = refCount[b] - k[b]
    BY <1>2, <1>3
  <2>2. QED
    BY <2>1
<1>8. QED
  BY <1>4, <1>5, <1>6, <1>7 DEF TableInv

\* allocate() takes as many blocks as the window has, and goes round in them.
LEMMA TableOfPrompt ==
    ASSUME NEW n \in Nat, NEW k,
           k = IF BlockSlidingWindow = 0 THEN n ELSE MinOf(n, BlockSlidingWindow),
           NEW new \in Injection(1..k, GpuFree)
    PROVE  LET t == [i \in 1..n |-> new[((i - 1) % k) + 1]]
           IN  t \in Seq(Blocks) /\ Len(t) = n /\ Range(t) = Range(new) /\ FitsWindow(t)
<1> DEFINE w == BlockSlidingWindow
           t == [i \in 1..n |-> new[((i - 1) % k) + 1]]
<1>1. /\ w \in Nat /\ k \in Nat /\ k <= n /\ (w # 0 => k <= w)
      /\ k # n => w # 0 /\ k = w
      /\ NoSlidingWindow <=> w = 0
  BY BlockManagerAssumption DEF MinOf, NoSlidingWindow
<1>2. /\ new \in [1..k -> GpuFree] /\ \A i, j \in 1..k : i # j => new[i] # new[j]
      /\ GpuFree \subseteq Blocks
  BY DEF Injection, IsInjective, GpuFree, Blocks
<1>3. n = 0 \/ k # 0
  BY <1>1
<1>4. \A i \in 1..n : ((i - 1) % k) + 1 \in 1..k
  <2>1. SUFFICES ASSUME NEW i \in 1..n
                 PROVE  ((i - 1) % k) + 1 \in 1..k
    OBVIOUS
  <2>2. k \in Nat \ {0} /\ i - 1 \in Nat
    BY <1>1, <1>3
  <2>3. (i - 1) % k \in 0..(k - 1)
    BY <2>2, DivMod
  <2>4. QED
    BY <2>2, <2>3
<1>5. \A i \in 1..k : ((i - 1) % k) + 1 = i
  <2>1. SUFFICES ASSUME NEW i \in 1..k
                 PROVE  ((i - 1) % k) + 1 = i
    OBVIOUS
  <2>2. k \in Nat \ {0}
    BY <1>1
  <2>3. QED
    BY <2>2, SmallMod
<1>6. t \in Seq(Blocks) /\ Len(t) = n /\ DOMAIN t = 1..n
  <2>1. t \in [1..n -> Blocks]
    BY <1>2, <1>4
  <2>2. QED
    BY <2>1
<1>7. \A i \in 1..n : t[i] = new[((i - 1) % k) + 1]
  OBVIOUS
<1> HIDE DEF w, t
<1>8. \A i \in 1..k : i \in 1..n /\ t[i] = new[i]
  <2>1. \A i \in 1..k : i \in 1..n
    BY <1>1
  <2>2. QED
    BY <1>5, <1>7, <2>1
<1>9. Range(t) = Range(new)
  <2>1. Range(t) \subseteq Range(new)
    BY <1>2, <1>4, <1>6, <1>7 DEF Range
  <2>2. Range(new) \subseteq Range(t)
    BY <1>2, <1>6, <1>8 DEF Range
  <2>3. QED
    BY <2>1, <2>2
<1>10. ASSUME k = n
       PROVE  FitsWindow(t)
  <2>1. \A i, j \in 1..n : i # j => t[i] # t[j]
    BY <1>2, <1>8, <1>10
  <2>2. IsInjective(t)
    BY <1>6, <2>1 DEF IsInjective
  <2>3. CASE w = 0
    BY <2>2, <2>3 DEF FitsWindow, NoSlidingWindow, w
  <2>4. CASE w # 0
    <3>1. \A i \in 1..n : ((i - 1) % w) + 1 = i
      BY <1>1, <1>10, <2>4, SmallMod
    <3>2. \A i \in 1..n : t[i] = t[((i - 1) % w) + 1]
      BY <3>1
    <3>3. \A i, j \in 1..n : i < j /\ j - i < w => t[i] # t[j]
      BY <2>1
    <3>4. QED
      BY <1>6, <2>4, <3>2, <3>3 DEF FitsWindow, NoSlidingWindow, w
  <2>5. QED
    BY <2>3, <2>4
<1>11. ASSUME k # n
       PROVE  FitsWindow(t)
  <2>1. w \in Nat \ {0} /\ k = w
    BY <1>1, <1>11
  <2>2. \A i \in 1..n : t[i] = t[((i - 1) % w) + 1]
    BY <1>4, <1>7, <1>8, <2>1
  <2>3. ASSUME NEW i \in 1..n, NEW j \in 1..n, i < j, j - i < w
        PROVE  t[i] # t[j]
    <3>1. i - 1 \in Nat /\ j - 1 \in Nat /\ i - 1 < j - 1 /\ (j - 1) - (i - 1) < w
      BY <1>1, <2>1, <2>3
    <3>2. (i - 1) % w # (j - 1) % w
      BY <2>1, <3>1, ModDiffers
    <3>3. (i - 1) % w \in 0..(w - 1) /\ (j - 1) % w \in 0..(w - 1)
      BY <2>1, <3>1, DivMod
    <3>4. ((i - 1) % w) + 1 # ((j - 1) % w) + 1
      BY <2>1, <3>2, <3>3
    <3>5. QED
      BY <1>2, <1>4, <1>7, <2>1, <3>4
  <2>4. QED
    <3>1. \A i, j \in 1..n : i < j /\ j - i < w => t[i] # t[j]
      BY <2>3
    <3>2. QED
      BY <1>6, <2>1, <2>2, <3>1 DEF FitsWindow, NoSlidingWindow, w
<1>12. QED
  BY <1>6, <1>9, <1>10, <1>11 DEF t

\* The blocks given to a new group have its members as holders.
LEMMA AllocateTablesKeeps ==
    ASSUME TableInv, NEW g \in Groups, NEW s \in SeqsWith(g, "WAITING"),
           NumLogicalBlocks(s) \in Nat, AllocateTables(g, s),
           SeqsWith(g, "WAITING") = Members(g),
           \A q \in SeqsWith(g, "WAITING") : ~HasTable(q)
    PROVE  /\ TableInv'
           /\ \A q \in SeqsWith(g, "WAITING") :
                /\ Len(blockTables'[q]) = NumLogicalBlocks(s)
                /\ Range(blockTables'[q]) \subseteq GpuFree
           /\ \A q \in Seqs \ SeqsWith(g, "WAITING") : blockTables'[q] = blockTables[q]
           /\ \A b \in Blocks : \/ refCount'[b] = refCount[b]
                                \/ refCount'[b] = Cardinality(SeqsWith(g, "WAITING"))
<1> DEFINE W == SeqsWith(g, "WAITING")
           n == NumLogicalBlocks(s)
           k == IF BlockSlidingWindow = 0 THEN n ELSE MinOf(n, BlockSlidingWindow)
<1>1. PICK new \in Injection(1..k, GpuFree) :
         /\ blockTables' = [q \in Seqs |-> IF q \in W
                              THEN [i \in 1..n |-> new[((i - 1) % k) + 1]]
                              ELSE blockTables[q]]
         /\ Update([b \in Range(new) |-> NumSeqs(g)], Never)
  BY DEF AllocateTables, PromptBlocks
<1> DEFINE t == [i \in 1..n |-> new[((i - 1) % k) + 1]]
<1>2. /\ Range(new) \subseteq GpuFree
      /\ Range(new) \subseteq freeBlocks /\ Range(new) \subseteq Blocks
  BY DEF Injection, Range, GpuFree, Blocks
<1>3. t \in Seq(Blocks) /\ Len(t) = n /\ Range(t) = Range(new) /\ FitsWindow(t)
  <2> HIDE DEF n
  <2>1. k = IF BlockSlidingWindow = 0 THEN n ELSE MinOf(n, BlockSlidingWindow)
    OBVIOUS
  <2> HIDE DEF k
  <2>2. QED
    BY <2>1, TableOfPrompt DEF n
<1>4. blockTables' = [q \in Seqs |-> IF q \in W THEN t ELSE blockTables[q]]
  BY <1>1
<1> HIDE DEF t, k, n
<1>5. W \in SUBSET Seqs /\ IsFiniteSet(W) /\ Cardinality(W) \in Nat \ {0}
  BY SeqSetsFinite, FS_EmptySet DEF SeqsWith
<1>6. /\ refCount' = [b \in Blocks |-> IF b \in Range(new) THEN Cardinality(W)
                                       ELSE refCount[b]]
      /\ freeBlocks' = freeBlocks \ Range(new)
  BY <1>1 DEF Update, Never, NumSeqs, TableInv, BlockTypeOK
<1>8. BlockTypeOK'
  BY <1>3, <1>4, <1>5, <1>6 DEF TableInv, BlockTypeOK
<1>9. NoRepeats'
  BY <1>3, <1>4 DEF TableInv, NoRepeats
<1>10. CountsExact'
  <2>1. SUFFICES ASSUME NEW x \in Blocks
                 PROVE  /\ refCount'[x] = Cardinality(InTable(x)')
                        /\ x \in freeBlocks' <=> refCount'[x] = 0
    BY DEF CountsExact
  <2>2. InTable(x) \cap W = {}
    BY DEF InTable, HasTable, Range
  <2>3. CASE x \in Range(new)
    <3>1. InTable(x) = {}
      BY <1>2, <2>3, FreeIsUnheld
    <3>2. InTable(x)' = W
      BY <1>3, <1>4, <1>5, <2>3, <3>1 DEF InTable
    <3>3. QED
      BY <1>5, <1>6, <2>3, <3>2
  <2>4. CASE x \notin Range(new)
    <3>1. InTable(x)' = InTable(x)
      BY <1>3, <1>4, <2>2, <2>4 DEF InTable
    <3>2. QED
      BY <1>6, <2>4, <3>1 DEF TableInv, CountsExact
  <2>5. QED
    BY <2>3, <2>4
<1>11. \A q \in W : /\ Len(blockTables'[q]) = NumLogicalBlocks(s)
                     /\ Range(blockTables'[q]) \subseteq GpuFree
  BY <1>2, <1>3, <1>4, <1>5 DEF n
<1>12. /\ \A q \in Seqs \ W : blockTables'[q] = blockTables[q]
       /\ \A b \in Blocks : refCount'[b] = refCount[b] \/ refCount'[b] = Cardinality(W)
  BY <1>4, <1>6
<1>13. QED
  BY <1>8, <1>9, <1>10, <1>11, <1>12 DEF TableInv

\* A table without repeats has one entry for a block it contains.
LEMMA NumEntriesIsHolders ==
    ASSUME NoSlidingWindow, TableInv, NEW S \in SUBSET Seqs, NEW b \in Blocks
    PROVE  /\ NumEntries(b, S) = Cardinality(InTable(b) \cap S)
           /\ NumEntries(b, S) \in Nat
           /\ NumEntries(b, S) <= refCount[b]
           /\ Cardinality(InTable(b) \ S) = refCount[b] - NumEntries(b, S)
<1> DEFINE H == InTable(b) \cap S
           place(s) == CHOOSE i \in DOMAIN blockTables[s] : blockTables[s][i] = b
           f == [s \in H |-> <<s, place(s)>>]
<1>1. ASSUME NEW s \in H
      PROVE  place(s) \in DOMAIN blockTables[s] /\ blockTables[s][place(s)] = b
  BY DEF InTable, Range
<1>2. ASSUME NEW e \in Entries(b, S)
      PROVE  e[1] \in H /\ e = <<e[1], place(e[1])>>
  <2>1. PICK s \in S : e \in {s} \X DOMAIN blockTables[s]
    BY DEF Entries
  <2>2. e = <<s, e[2]>> /\ e[2] \in DOMAIN blockTables[s] /\ blockTables[s][e[2]] = b
    BY <2>1 DEF Entries
  <2>3. s \in H
    BY <2>2 DEF InTable, Range
  <2>4. place(s) = e[2]
    BY <1>1, <2>2, <2>3 DEF TableInv, NoRepeats, FitsWindow, IsInjective
  <2>5. QED
    BY <2>2, <2>3, <2>4
<1>3. ASSUME NEW s \in H
      PROVE  <<s, place(s)>> \in Entries(b, S)
  BY <1>1 DEF Entries
<1> HIDE DEF place
<1>4. f \in Bijection(H, Entries(b, S))
  <2>1. f \in [H -> Entries(b, S)]
    BY <1>3
  <2>2. IsInjective(f)
    BY DEF IsInjective
  <2>3. \A e \in Entries(b, S) : \E s \in H : f[s] = e
    BY <1>2
  <2>4. QED
    BY <2>1, <2>2, <2>3 DEF Bijection, Injection, Surjection
<1>5. IsFiniteSet(H) /\ Cardinality(H) \in Nat
  BY SeqSetsFinite DEF InTable
<1>6. NumEntries(b, S) = Cardinality(H)
  BY <1>4, <1>5, FS_Bijection DEF ExistsBijection, NumEntries
<1>7. refCount[b] = Cardinality(InTable(b))
  BY DEF TableInv, CountsExact
<1>8. /\ Cardinality(H) <= Cardinality(InTable(b))
      /\ Cardinality(InTable(b) \ S) = Cardinality(InTable(b)) - Cardinality(H)
  BY InTableFinite, FS_Subset, FS_Difference
<1>9. QED
  BY <1>5, <1>6, <1>7, <1>8

\* swap_in() and swap_out() never find a count of 0.
LEMMA CanAlwaysMove ==
    ASSUME NoSlidingWindow, TableInv, NEW S \in SUBSET Seqs
    PROVE  CanMove(S)
<1>1. BlocksOf(S) \subseteq Blocks
  BY DEF BlocksOf, Range, TableInv, BlockTypeOK
<1>2. QED
  BY <1>1, NumEntriesIsHolders DEF CanMove

\* Moving the tables of S gives the holders in S of a block to its copy.
LEMMA MoveTablesKeeps ==
    ASSUME NoSlidingWindow, TableInv, NEW S \in SUBSET Seqs, NEW free \in SUBSET freeBlocks,
           MoveTables(S, free)
    PROVE  /\ TableInv'
           /\ \A s \in S : /\ Len(blockTables'[s]) = Len(blockTables[s])
                            /\ Range(blockTables'[s]) \subseteq free
           /\ \A s \in Seqs \ S : blockTables'[s] = blockTables[s]
<1> DEFINE k == [b \in Blocks |-> NumEntries(b, S)]
<1>1. PICK m \in Injection(BlocksOf(S), free) :
         /\ blockTables' = [s \in Seqs |-> IF s \in S
                THEN [i \in DOMAIN blockTables[s] |-> m[blockTables[s][i]]]
                ELSE blockTables[s]]
         /\ Update([x \in Range(m) |->
                       NumEntries(CHOOSE b \in BlocksOf(S) : m[b] = x, S)],
                   LAMBDA b : NumEntries(b, S))
  BY DEF MoveTables
<1> DEFINE source(x) == CHOOSE b \in BlocksOf(S) : m[b] = x
<1>2. /\ m \in [BlocksOf(S) -> free] /\ IsInjective(m)
      /\ Range(m) \subseteq freeBlocks /\ Range(m) \subseteq Blocks
      /\ BlocksOf(S) \subseteq Blocks
  BY DEF Injection, Range, BlocksOf, TableInv, BlockTypeOK
<1>3. /\ k \in [Blocks -> Nat]
      /\ \A b \in Blocks : /\ refCount[b] \in Nat /\ k[b] \in Nat /\ k[b] <= refCount[b]
                           /\ k[b] = Cardinality(InTable(b) \cap S)
                           /\ Cardinality(InTable(b) \ S) = refCount[b] - k[b]
  BY NumEntriesIsHolders DEF TableInv, BlockTypeOK
<1>4. ASSUME NEW x \in Range(m)
      PROVE  source(x) \in BlocksOf(S) /\ m[source(x)] = x
  BY <1>2 DEF Range
<1>5. /\ refCount' = [b \in Blocks |-> IF b \in Range(m) THEN k[source(b)]
                                       ELSE refCount[b] - k[b]]
      /\ freeBlocks' = (freeBlocks \ Range(m))
                       \cup {b \in Blocks : k[b] > 0 /\ k[b] = refCount[b]}
  BY <1>1, <1>2, <1>4 DEF Update
<1> HIDE DEF k, source
<1>6. ASSUME NEW x \in Range(m)
      PROVE  refCount[x] = 0 /\ k[x] = 0 /\ InTable(x) = {}
  <2>1. x \in Blocks /\ x \in freeBlocks
    BY <1>2
  <2>2. InTable(x) = {}
    BY <2>1, FreeIsUnheld
  <2>3. QED
    BY <1>3, <2>1, <2>2, FS_EmptySet DEF TableInv, CountsExact
<1>7. ASSUME NEW s \in S
      PROVE  /\ blockTables'[s] \in Seq(Blocks)
             /\ IsInjective(blockTables'[s])
             /\ Range(blockTables'[s]) = {m[b] : b \in Range(blockTables[s])}
  <2>1. blockTables'[s] = [i \in DOMAIN blockTables[s] |-> m[blockTables[s][i]]]
    BY <1>1
  <2>2. \A i \in DOMAIN blockTables[s] : blockTables[s][i] \in BlocksOf(S)
    BY DEF BlocksOf, Range
  <2>3. \A b \in BlocksOf(S) : m[b] \in Blocks
    BY <1>2 DEF TableInv, BlockTypeOK
  <2>4. blockTables[s] \in Seq(Blocks) /\ IsInjective(blockTables[s])
    BY DEF TableInv, BlockTypeOK, NoRepeats, FitsWindow
  <2>5. blockTables'[s] \in Seq(Blocks)
    BY <2>1, <2>2, <2>3, <2>4
  <2>6. IsInjective(blockTables'[s])
    BY <1>2, <2>1, <2>2, <2>4 DEF IsInjective
  <2>7. Range(blockTables'[s]) = {m[b] : b \in Range(blockTables[s])}
    BY <2>1 DEF Range
  <2>8. QED
    BY <2>5, <2>6, <2>7
<1>8. \A s \in Seqs \ S : blockTables'[s] = blockTables[s]
  BY <1>1
<1>9. BlockTypeOK'
  <2>1. ASSUME NEW b \in Blocks
        PROVE  refCount'[b] \in Nat
    <3>1. CASE b \in Range(m)
      BY <1>2, <1>3, <1>4, <1>5, <3>1
    <3>2. CASE b \notin Range(m)
      <4>1. refCount[b] \in Nat /\ k[b] \in Nat /\ k[b] <= refCount[b]
        BY <1>3
      <4>2. QED
        BY <1>5, <3>2, <4>1
    <3>3. QED
      BY <3>1, <3>2
  <2>2. refCount' \in [Blocks -> Nat]
    BY <1>5, <2>1
  <2>3. blockTables' \in [Seqs -> Seq(Blocks)]
    BY <1>1, <1>7, <1>8 DEF TableInv, BlockTypeOK
  <2>4. freeBlocks' \subseteq Blocks
    BY <1>5 DEF TableInv, BlockTypeOK
  <2>5. QED
    BY <2>2, <2>3, <2>4 DEF BlockTypeOK
<1>10. NoRepeats'
  BY <1>7, <1>8 DEF TableInv, NoRepeats, FitsWindow
<1>11. CountsExact'
  <2>1. SUFFICES ASSUME NEW x \in Blocks
                 PROVE  /\ refCount'[x] = Cardinality(InTable(x)')
                        /\ x \in freeBlocks' <=> refCount'[x] = 0
    BY DEF CountsExact
  <2>2. CASE x \in Range(m)
    <3> DEFINE b == source(x)
    <3>1. b \in BlocksOf(S) /\ b \in Blocks /\ m[b] = x
      BY <1>2, <1>4, <2>2
    <3>2. \A s \in S : x \in Range(blockTables'[s]) <=> b \in Range(blockTables[s])
      <4>1. ASSUME NEW s \in S
            PROVE  x \in Range(blockTables'[s]) <=> b \in Range(blockTables[s])
        <5>1. Range(blockTables[s]) \subseteq BlocksOf(S)
          BY DEF BlocksOf
        <5>2. \A c \in BlocksOf(S) : m[c] = x => c = b
          BY <1>2, <3>1 DEF IsInjective
        <5>3. Range(blockTables'[s]) = {m[c] : c \in Range(blockTables[s])}
          BY <1>7
        <5>4. ASSUME x \in Range(blockTables'[s])
              PROVE  b \in Range(blockTables[s])
          <6>1. PICK c \in Range(blockTables[s]) : m[c] = x
            BY <5>3, <5>4
          <6>2. QED
            BY <5>1, <5>2, <6>1
        <5>5. ASSUME b \in Range(blockTables[s])
              PROVE  x \in Range(blockTables'[s])
          BY <3>1, <5>3, <5>5
        <5>6. QED
          BY <5>4, <5>5
      <4>2. QED
        BY <4>1
    <3>3. \A s \in Seqs \ S : x \notin Range(blockTables'[s])
      BY <1>6, <1>8, <2>2 DEF InTable
    <3>4. InTable(x)' = InTable(b) \cap S
      BY <3>2, <3>3 DEF InTable
    <3>5. refCount'[x] = k[b]
      BY <1>5, <2>2
    <3>6. k[b] # 0
      <4>1. PICK s \in S : b \in Range(blockTables[s])
        BY <3>1 DEF BlocksOf
      <4>2. s \in InTable(b) \cap S
        BY <4>1 DEF InTable
      <4>3. IsFiniteSet(InTable(b) \cap S)
        BY SeqSetsFinite DEF InTable
      <4>4. QED
        BY <1>3, <3>1, <4>2, <4>3, FS_EmptySet
    <3>7. x \notin freeBlocks'
      BY <1>5, <1>6, <2>2
    <3>8. QED
      BY <1>3, <3>1, <3>4, <3>5, <3>6, <3>7
  <2>3. CASE x \notin Range(m)
    <3>1. \A s \in S : x \notin Range(blockTables'[s])
      <4>1. ASSUME NEW s \in S
            PROVE  x \notin Range(blockTables'[s])
        <5>1. Range(blockTables[s]) \subseteq BlocksOf(S)
          BY DEF BlocksOf
        <5>2. \A c \in BlocksOf(S) : m[c] \in Range(m)
          BY <1>2 DEF Range
        <5>3. Range(blockTables'[s]) = {m[c] : c \in Range(blockTables[s])}
          BY <1>7
        <5>4. QED
          BY <2>3, <5>1, <5>2, <5>3
      <4>2. QED
        BY <4>1
    <3>2. InTable(x)' = InTable(x) \ S
      BY <1>8, <3>1 DEF InTable
    <3>3. refCount'[x] = refCount[x] - k[x]
      BY <1>5, <2>3
    <3>4. x \in freeBlocks' <=> (refCount[x] = 0 \/ (k[x] > 0 /\ k[x] = refCount[x]))
      BY <1>5, <2>3 DEF TableInv, CountsExact
    <3>5. /\ refCount[x] \in Nat /\ k[x] \in Nat /\ k[x] <= refCount[x]
          /\ Cardinality(InTable(x) \ S) = refCount[x] - k[x]
      BY <1>3
    <3>6. QED
      BY <3>2, <3>3, <3>4, <3>5
  <2>4. QED
    BY <2>2, <2>3
<1>12. ASSUME NEW s \in S
       PROVE  /\ Len(blockTables'[s]) = Len(blockTables[s])
              /\ Range(blockTables'[s]) \subseteq free
  <2>1. blockTables'[s] = [i \in DOMAIN blockTables[s] |-> m[blockTables[s][i]]]
    BY <1>1
  <2>2. \A i \in DOMAIN blockTables[s] : blockTables[s][i] \in BlocksOf(S)
    BY DEF BlocksOf, Range
  <2>3. blockTables[s] \in Seq(Blocks)
    BY DEF TableInv, BlockTypeOK
  <2>4. QED
    BY <1>2, <2>1, <2>2, <2>3 DEF Range
<1>13. QED
  BY <1>8, <1>9, <1>10, <1>11, <1>12 DEF TableInv
-----------------------------------------------------------------------------
(***************************************************************************)
(* The inductive invariant.  TableInv alone is not inductive: fork() adds a *)
(* holder only to blocks of a sequence without a table, allocate() counts  *)
(* the members of a group for the tables of its waiting sequences, and     *)
(* append_slots() asserts that a table is one block short.                 *)
(***************************************************************************)

\* A group that waits has only its prompt sequence, and a group that samples
\* one sequence never has another one.
GroupsInv ==
    \A s \in Seqs :
        /\ status[s] = "WAITING" => Members(GroupOf[s]) = {s}
        /\ status[s] # "UNUSED" /\ BestOf[GroupOf[s]] = 1 => s = Parent[GroupOf[s]]
        /\ status[s] # "UNUSED" => len[s] > 0

\* In a round a sequence is given a slot, then a token.
RoundInv ==
    /\ scheduled \cap sampled = {}
    /\ \A s \in scheduled : status[s] = "RUNNING"

\* A table is at most one block short, and not short for a scheduled sequence.
FitInv ==
    \A s \in Seqs :
        /\ status[s] \in {"RUNNING", "SWAPPED"} =>
             Len(blockTables[s]) \in {NumLogicalBlocks(s) - 1, NumLogicalBlocks(s)}
        /\ s \in scheduled => Len(blockTables[s]) = NumLogicalBlocks(s)

SlotInv == \A s \in scheduled : OwnsLast(s)

\* can_append_slots() said that there is room, or can_swap_in() did: a free block
\* for every sequence that _append_slots has yet to go through.
GrantInv ==
    /\ granted \subseteq Seqs
    /\ \A s \in granted : status[s] = "RUNNING"
    /\ Cardinality(granted) <= Cardinality(GpuFree)

\* With a window no block is shared and nothing is swapped.
WindowInv ==
    NoSlidingWindow \/ /\ SingleSequences
                       /\ \A b \in Blocks : refCount[b] <= 1
                       /\ \A s \in Seqs : status[s] # "SWAPPED"

IInv == /\ TypeOK
        /\ TableInv
        /\ WindowInv
        /\ TablesAreOnTheRightDevice
        /\ GroupsInv
        /\ RoundInv
        /\ FitInv
        /\ SlotInv
        /\ GrantInv
        /\ NoBlockError

\* The free blocks of the GPU can be counted.
LEMMA GpuFreeFinite ==
    /\ IsFiniteSet(GpuFree) /\ Cardinality(GpuFree) \in Nat
    /\ IsFiniteSet(GpuFree') /\ Cardinality(GpuFree') \in Nat
<1>1. GpuFree \in SUBSET GpuBlocks /\ GpuFree' \in SUBSET GpuBlocks
  BY DEF GpuFree
<1>2. QED
  BY <1>1, BlockManagerAssumption, FS_Subset, FS_CardinalityType

\* Nothing is promised between two groups.
LEMMA NothingGranted ==
    ASSUME granted' = {}
    PROVE  GrantInv'
<1>1. Cardinality({}) = 0
  BY FS_EmptySet
<1>2. Cardinality(granted') <= Cardinality(GpuFree')
  BY <1>1, GpuFreeFinite
<1>3. QED
  BY <1>2 DEF GrantInv

\* Taking as many blocks as the range of an injection has.
LEMMA TakeBlocks ==
    ASSUME NEW S, IsFiniteSet(S), NEW m \in Injection(S, GpuFree),
           GpuFree \ Range(m) \subseteq GpuFree'
    PROVE  /\ Cardinality(GpuFree') \in Nat /\ Cardinality(GpuFree) \in Nat
           /\ Cardinality(S) \in Nat
           /\ Cardinality(GpuFree') >= Cardinality(GpuFree) - Cardinality(S)
<1>1. Cardinality(S) \in Nat
  BY FS_CardinalityType
<1>2. Range(m) \subseteq GpuFree /\ GpuFree \cap Range(m) = Range(m)
  BY DEF Range, Injection
<1>3. m \in Surjection(S, Range(m))
  BY DEF Surjection, Injection, Range
<1>4. Cardinality(Range(m)) \in Nat /\ Cardinality(Range(m)) <= Cardinality(S)
  BY <1>1, <1>2, <1>3, GpuFreeFinite, FS_Surjection, FS_Subset, FS_CardinalityType
<1>5. Cardinality(GpuFree \ Range(m)) = Cardinality(GpuFree) - Cardinality(Range(m))
  BY <1>2, GpuFreeFinite, FS_Difference
<1>6. /\ Cardinality(GpuFree \ Range(m)) <= Cardinality(GpuFree')
      /\ Cardinality(GpuFree \ Range(m)) \in Nat
  BY GpuFreeFinite, FS_Subset, FS_CardinalityType
<1>7. QED
  BY <1>1, <1>4, <1>5, <1>6, GpuFreeFinite

\* allocate() takes no more blocks than can_allocate() found.
LEMMA AllocateSucceeds ==
    ASSUME IInv, NEW g \in Groups, Allocate(g)
    PROVE  /\ \E s \in SeqsWith(g, "WAITING") :
                CanAllocate(g, s) = "OK" /\ AllocateTables(g, s)
           /\ SetStatus(SeqsWith(g, "WAITING"), "RUNNING")
           /\ scheduled' = scheduled \cup SeqsWith(g, "WAITING")
           /\ sampled' = {} /\ len' = len /\ err' = err
           /\ granted = {} /\ granted' = {}
<1>1. ASSUME NEW s \in SeqsWith(g, "WAITING"), CanAllocate(g, s) = "OK"
      PROVE  ~RunsOut(GpuFree, PromptBlocks(s))
  <2>1. NumLogicalBlocks(s) \in Nat
    BY NumBlocksType DEF SeqsWith, NumLogicalBlocks, IInv, TypeOK, SequencesTypeOK
  <2>2. PromptBlocks(s) \in Nat
    BY <2>1, BlockManagerAssumption DEF PromptBlocks, MinOf
  <2>3. Cardinality(GpuFree) - PromptBlocks(s) >= WatermarkBlocks
    BY <1>1 DEF CanAllocate
  <2>4. QED
    BY <2>2, <2>3, GpuFreeFinite, BlockManagerAssumption DEF RunsOut
<1>2. granted = {}
  BY DEF Allocate, Scheduling, Ready
<1>3. QED
  BY <1>1, <1>2 DEF Allocate

\* Finitely many blocks, those of one group among those of its unfinished members.
LEMMA BlocksOfGroup ==
    ASSUME IInv, NEW g \in Groups, NEW st \in {"RUNNING", "SWAPPED"}
    PROVE  LET S == SeqsWith(g, st)
           IN  /\ IsFiniteSet(BlocksOf(S)) /\ Cardinality(BlocksOf(S)) \in Nat
               /\ Cardinality(BlocksOf(Unfinished(g))) \in Nat
               /\ Cardinality(BlocksOf(S)) <= Cardinality(BlocksOf(Unfinished(g)))
               /\ S \in SUBSET Seqs /\ Cardinality(S) \in Nat
<1> DEFINE S == SeqsWith(g, st)
           U == Unfinished(g)
<1>1. S \subseteq U /\ U \subseteq Seqs
  BY DEF SeqsWith, Unfinished, Members
<1>2. BlocksOf(S) \subseteq BlocksOf(U) /\ BlocksOf(U) \subseteq Blocks
  BY <1>1 DEF BlocksOf, Range, IInv, TypeOK
<1>3. IsFiniteSet(Blocks)
  BY BlockManagerAssumption, FS_Union DEF Blocks
<1>4. Cardinality(S) \in Nat
  BY <1>1, SeqSetsFinite
<1> HIDE DEF S, U
<1>5. /\ IsFiniteSet(BlocksOf(U)) /\ IsFiniteSet(BlocksOf(S))
      /\ Cardinality(BlocksOf(U)) \in Nat /\ Cardinality(BlocksOf(S)) \in Nat
      /\ Cardinality(BlocksOf(S)) <= Cardinality(BlocksOf(U))
  BY <1>2, <1>3, FS_Subset, FS_CardinalityType
<1>6. QED
  BY <1>1, <1>4, <1>5 DEF S, U

\* swap_out() and swap_in() take no more blocks than was asked for.
LEMMA SwapsDoNotRunOut ==
    ASSUME IInv, NEW g \in Groups
    PROVE  /\ CanSwapOut(g) =>
                ~RunsOut(CpuFree, Cardinality(BlocksOf(SeqsWith(g, "RUNNING"))))
           /\ CanSwapIn(g) =>
                ~RunsOut(GpuFree, Cardinality(BlocksOf(SeqsWith(g, "SWAPPED"))))
<1>1. ASSUME CanSwapOut(g)
      PROVE  ~RunsOut(CpuFree, Cardinality(BlocksOf(SeqsWith(g, "RUNNING"))))
  <2>1. CpuFree \in SUBSET CpuBlocks
    BY DEF CpuFree
  <2>2. Cardinality(CpuFree) \in Nat
    BY <2>1, BlockManagerAssumption, FS_Subset, FS_CardinalityType
  <2>3. Cardinality(BlocksOf(Unfinished(g))) <= Cardinality(CpuFree)
    BY <1>1 DEF CanSwapOut
  <2>4. /\ Cardinality(BlocksOf(SeqsWith(g, "RUNNING"))) \in Nat
        /\ Cardinality(BlocksOf(Unfinished(g))) \in Nat
        /\ Cardinality(BlocksOf(SeqsWith(g, "RUNNING")))
             <= Cardinality(BlocksOf(Unfinished(g)))
    BY BlocksOfGroup
  <2>5. QED
    BY <2>2, <2>3, <2>4 DEF RunsOut
<1>2. ASSUME CanSwapIn(g)
      PROVE  ~RunsOut(GpuFree, Cardinality(BlocksOf(SeqsWith(g, "SWAPPED"))))
  <2>1. Cardinality(GpuFree)
          - (Cardinality(BlocksOf(Unfinished(g))) + Cardinality(SeqsWith(g, "SWAPPED")))
        >= WatermarkBlocks
    BY <1>2 DEF CanSwapIn
  <2>2. /\ Cardinality(BlocksOf(SeqsWith(g, "SWAPPED"))) \in Nat
        /\ Cardinality(BlocksOf(Unfinished(g))) \in Nat
        /\ Cardinality(SeqsWith(g, "SWAPPED")) \in Nat
        /\ Cardinality(BlocksOf(SeqsWith(g, "SWAPPED")))
             <= Cardinality(BlocksOf(Unfinished(g)))
    BY BlocksOfGroup
  <2>3. QED
    BY <2>1, <2>2, GpuFreeFinite, BlockManagerAssumption DEF RunsOut
<1>3. QED
  BY <1>1, <1>2

\* After swap_in() there is a free block for every sequence it brought back.
LEMMA SwapInGrants ==
    ASSUME IInv, NEW g \in Groups, CanSwapIn(g),
           MoveTables(SeqsWith(g, "SWAPPED"), GpuFree)
    PROVE  Cardinality(GpuFree')
             >= WatermarkBlocks + Cardinality(SeqsWith(g, "SWAPPED"))
<1> DEFINE S == SeqsWith(g, "SWAPPED")
<1>1. Cardinality(GpuFree) - (Cardinality(BlocksOf(Unfinished(g))) + Cardinality(S))
        >= WatermarkBlocks
  BY DEF CanSwapIn
<1>2. PICK m \in Injection(BlocksOf(S), GpuFree) :
        Update([x \in Range(m) |-> NumEntries(CHOOSE b \in BlocksOf(S) : m[b] = x, S)],
               LAMBDA b : NumEntries(b, S))
  BY DEF MoveTables
<1>3. GpuFree \ Range(m) \subseteq GpuFree'
  BY <1>2 DEF Update, GpuFree
<1>4. /\ IsFiniteSet(BlocksOf(S)) /\ Cardinality(BlocksOf(S)) \in Nat
      /\ Cardinality(BlocksOf(Unfinished(g))) \in Nat
      /\ Cardinality(BlocksOf(S)) <= Cardinality(BlocksOf(Unfinished(g)))
      /\ Cardinality(S) \in Nat
  BY BlocksOfGroup
<1> HIDE DEF S
<1>5. Cardinality(GpuFree') >= Cardinality(GpuFree) - Cardinality(BlocksOf(S))
  BY <1>2, <1>3, <1>4, TakeBlocks
<1>6. Cardinality(GpuFree') >= WatermarkBlocks + Cardinality(S)
  BY <1>1, <1>4, <1>5, GpuFreeFinite, BlockManagerAssumption
<1>7. QED
  BY <1>6 DEF S

\* Giving one sequence its slot takes one free block at most.
LEMMA AppendTakesOne ==
    ASSUME NEW s \in Seqs,
           AppendNewBlock(s) \/ AppendInPlace(s) \/ AppendCopyOnWrite(s)
    PROVE  Cardinality(GpuFree') >= Cardinality(GpuFree) - 1
<1>1. ASSUME NEW b, freeBlocks \ {b} \subseteq freeBlocks'
      PROVE  Cardinality(GpuFree') >= Cardinality(GpuFree) - 1
  <2>1. GpuFree \ {b} \subseteq GpuFree'
    BY <1>1 DEF GpuFree
  <2>2. /\ Cardinality(GpuFree \ {b}) \in Nat
        /\ Cardinality(GpuFree \ {b}) <= Cardinality(GpuFree')
    BY <2>1, GpuFreeFinite, FS_Subset, FS_CardinalityType
  <2>3. Cardinality(GpuFree \ {b})
          = IF b \in GpuFree THEN Cardinality(GpuFree) - 1 ELSE Cardinality(GpuFree)
    BY GpuFreeFinite, FS_RemoveElement
  <2>4. QED
    BY <2>2, <2>3, GpuFreeFinite
<1>2. ASSUME AppendInPlace(s)
      PROVE  \E b : freeBlocks \ {b} \subseteq freeBlocks'
  BY <1>2 DEF AppendInPlace
<1>3. ASSUME AppendNewBlock(s)
      PROVE  \E b : freeBlocks \ {b} \subseteq freeBlocks'
  <2>1. PICK b \in GpuFree : Update([x \in {b} |-> 1], Never)
    BY <1>3 DEF AppendNewBlock
  <2>2. QED
    BY <2>1 DEF Update
<1>4. ASSUME AppendCopyOnWrite(s)
      PROVE  \E b : freeBlocks \ {b} \subseteq freeBlocks'
  <2> DEFINE once(x) == IF x = LastBlock(SlotTable(s)) THEN 1 ELSE 0
  <2>1. PICK b \in GpuFree : Update([x \in {b} |-> 1], once)
    BY <1>4 DEF AppendCopyOnWrite, CopyLastBlock
  <2>2. QED
    BY <2>1 DEF Update
<1>5. QED
  BY <1>1, <1>2, <1>3, <1>4

\* A sequence that owns its last block keeps it while the other tables only
\* lose blocks or gain free ones.
LEMMA OwnsLastKept ==
    ASSUME TableInv, NEW s \in Seqs, OwnsLast(s), blockTables'[s] = blockTables[s],
           \A q \in Seqs \ {s} :
               Range(blockTables'[q]) \subseteq Range(blockTables[q]) \cup freeBlocks
    PROVE  OwnsLast(s)'
<1> DEFINE last == LastBlock(blockTables[s])
<1>1. last \in Blocks /\ last \in Range(blockTables[s])
  BY DEF LastBlock, Range, TableInv, BlockTypeOK, OwnsLast, HasTable
<1>2. InTable(last) = {s}
  BY DEF OwnsLast
<1>3. last \notin freeBlocks
  BY <1>1, <1>2, FreeIsUnheld
<1>4. {q \in Seqs : last \in Range(blockTables'[q])} = {s}
  BY <1>1, <1>2, <1>3 DEF InTable
<1>5. LastBlock(blockTables'[s]) = last
  OBVIOUS
<1> HIDE DEF last
<1>6. QED
  BY <1>4, <1>5 DEF OwnsLast, HasTable, InTable

\* A new request takes over a group that holds no block.
LEMMA AddRequestKeeps ==
    ASSUME IInv, NEW g \in Groups, AddRequest(g)
    PROVE  IInv'
<1> DEFINE p == Parent[g]
<1>1. /\ p \in Seqs /\ GroupOf[p] = g /\ PromptLen[g] \in Nat \ {0}
      /\ status \in [Seqs -> Statuses] /\ len \in [Seqs -> Nat]
  BY SequenceGroupsAssumption DEF IInv, TypeOK, SequencesTypeOK
<1>2. /\ \A s \in Seqs : status'[s] = IF s = p THEN "WAITING"
                                      ELSE IF GroupOf[s] = g THEN "UNUSED" ELSE status[s]
      /\ \A s \in Seqs : len'[s] = IF s = p THEN PromptLen[g]
                                   ELSE IF GroupOf[s] = g THEN 0 ELSE len[s]
      /\ sampled' \subseteq sampled /\ scheduled' = scheduled /\ err' = err
      /\ blockTables' = blockTables /\ refCount' = refCount /\ freeBlocks' = freeBlocks
  BY DEF AddRequest, blockVars
<1>3. \A s \in Seqs : GroupOf[s] = g => status[s] \in {"UNUSED", "FINISHED"}
  BY <1>1 DEF AddRequest, Unfinished, Members
<1>4. \A s \in scheduled : s \in Seqs /\ GroupOf[s] # g /\ s # p
  BY <1>1, <1>3 DEF IInv, TypeOK, RoundInv
<1>g. granted' = {} /\ GrantInv'
  BY NothingGranted DEF AddRequest, Ready
<1>5. TypeOK'
  BY <1>g, <1>1, <1>2 DEF IInv, TypeOK, SequencesTypeOK, AddRequest, Statuses
<1>6. TableInv'
  BY <1>2 DEF IInv, TableInv, BlockTypeOK, CountsExact, NoRepeats, InTable
<1>7. TablesAreOnTheRightDevice'
  BY <1>1, <1>2, <1>3 DEF IInv, TablesAreOnTheRightDevice, HasTable, BlocksOf
<1>8. GroupsInv'
  <2>1. SUFFICES ASSUME NEW s \in Seqs
                 PROVE  /\ status'[s] = "WAITING" => Members(GroupOf[s])' = {s}
                        /\ status'[s] # "UNUSED" /\ BestOf[GroupOf[s]] = 1
                             => s = Parent[GroupOf[s]]
                        /\ status'[s] # "UNUSED" => len'[s] > 0
    BY DEF GroupsInv
  <2>2. CASE GroupOf[s] = g
    BY <1>1, <1>2, <2>2 DEF Members
  <2>3. CASE GroupOf[s] # g
    <3>1. Members(GroupOf[s])' = Members(GroupOf[s])
      BY <1>1, <1>2, <2>3 DEF Members
    <3>2. QED
      BY <1>1, <1>2, <2>3, <3>1 DEF IInv, GroupsInv
  <2>4. QED
    BY <2>2, <2>3
<1>9. RoundInv'
  BY <1>2, <1>4 DEF IInv, RoundInv
<1>10. FitInv'
  BY <1>1, <1>2, <1>3, <1>4 DEF IInv, FitInv, NumLogicalBlocks
<1>11. SlotInv'
  BY <1>2, <1>4 DEF IInv, SlotInv, OwnsLast, HasTable, InTable
<1>12. WindowInv'
  BY <1>2 DEF IInv, WindowInv
<1>13. QED
  BY <1>g, <1>2, <1>5, <1>6, <1>7, <1>8, <1>9, <1>10, <1>11, <1>12 DEF IInv, NoBlockError

\* A waiting group is given its first tables.
LEMMA AllocateKeeps ==
    ASSUME IInv, NEW g \in Groups, Allocate(g)
    PROVE  IInv'
<1> DEFINE W == SeqsWith(g, "WAITING")
<1>1. PICK s \in W : AllocateTables(g, s)
  BY AllocateSucceeds
<1>2. /\ W \in SUBSET Seqs /\ s \in Seqs /\ GroupOf[s] = g /\ status[s] = "WAITING"
      /\ status \in [Seqs -> Statuses] /\ len \in [Seqs -> Nat]
  BY DEF SeqsWith, IInv, TypeOK, SequencesTypeOK
<1>3. Members(g) = {s} /\ W = {s}
  BY <1>2 DEF IInv, GroupsInv, SeqsWith, Members
<1>4. /\ \A q \in Seqs : status'[q] = IF q = s THEN "RUNNING" ELSE status[q]
      /\ status' \in [Seqs -> Statuses]
      /\ len' = len /\ err' = err /\ sampled' = {} /\ scheduled' = scheduled \cup {s}
  BY <1>2, <1>3, AllocateSucceeds DEF SetStatus, Statuses
<1>5. NumLogicalBlocks(s) \in Nat /\ NumLogicalBlocks(s) # 0
  BY <1>2, SequenceGroupsAssumption DEF NumLogicalBlocks, IInv, GroupsInv
<1>6. \A q \in W : ~HasTable(q)
  BY <1>2, <1>3 DEF IInv, TablesAreOnTheRightDevice
<1>7. /\ TableInv'
      /\ Len(blockTables'[s]) = NumLogicalBlocks(s)
      /\ Range(blockTables'[s]) \subseteq GpuFree
      /\ \A q \in Seqs \ {s} : blockTables'[q] = blockTables[q]
      /\ \A b \in Blocks : refCount'[b] = refCount[b] \/ refCount'[b] = Cardinality(W)
  BY <1>1, <1>3, <1>5, <1>6, AllocateTablesKeeps DEF IInv
<1>8. blockTables'[s] \in Seq(Blocks) /\ blockTables'[s] # << >>
  BY <1>2, <1>5, <1>7 DEF TableInv, BlockTypeOK
<1>g. granted' = {} /\ GrantInv'
  BY AllocateSucceeds, NothingGranted
<1>9. TypeOK'
  BY <1>g, <1>2, <1>4, <1>7 DEF IInv, TypeOK, SequencesTypeOK, TableInv, BlockTypeOK
<1>10. TablesAreOnTheRightDevice'
  <2>1. Range(blockTables'[s]) \subseteq GpuBlocks
    BY <1>7 DEF GpuFree
  <2>2. QED
    BY <1>2, <1>4, <1>7, <1>8, <2>1 DEF IInv, TablesAreOnTheRightDevice, HasTable, BlocksOf
<1>11. GroupsInv'
  <2>1. \A q \in Seqs : Members(GroupOf[q])' = Members(GroupOf[q])
    BY <1>2, <1>4 DEF Members
  <2>2. QED
    BY <1>2, <1>4, <2>1 DEF IInv, GroupsInv
<1>12. RoundInv'
  BY <1>2, <1>4 DEF IInv, RoundInv, TypeOK
<1>13. FitInv'
  <2>1. NumLogicalBlocks(s)' = NumLogicalBlocks(s)
    BY <1>4 DEF NumLogicalBlocks
  <2>2. \A q \in Seqs \ {s} : /\ NumLogicalBlocks(q)' = NumLogicalBlocks(q)
                              /\ Len(blockTables'[q]) = Len(blockTables[q])
    BY <1>4, <1>7 DEF NumLogicalBlocks
  <2>3. QED
    BY <1>4, <1>7, <2>1, <2>2 DEF IInv, FitInv
<1>14. SlotInv'
  <2>1. OwnsLast(s)'
    <3>1. LastBlock(blockTables'[s]) \in Range(blockTables'[s])
      BY <1>8 DEF LastBlock, Range
    <3>2. LastBlock(blockTables'[s]) \in Blocks /\ LastBlock(blockTables'[s]) \in freeBlocks
      BY <1>7, <3>1 DEF GpuFree, Blocks
    <3>3. InTable(LastBlock(blockTables'[s])) = {}
      BY <3>2, FreeIsUnheld DEF IInv
    <3>4. {q \in Seqs : LastBlock(blockTables'[s]) \in Range(blockTables'[q])} = {s}
      BY <1>2, <1>7, <3>1, <3>3 DEF InTable
    <3>5. QED
      BY <1>8, <3>4 DEF OwnsLast, HasTable, InTable, LastBlock
  <2>2. ASSUME NEW q \in scheduled, q # s
        PROVE  OwnsLast(q)'
    <3>1. /\ q \in Seqs /\ OwnsLast(q) /\ blockTables'[q] = blockTables[q]
          /\ \A r \in Seqs \ {q} :
               Range(blockTables'[r]) \subseteq Range(blockTables[r]) \cup freeBlocks
      BY <1>7, <2>2 DEF IInv, TypeOK, SlotInv, GpuFree
    <3>2. QED
      BY <3>1, OwnsLastKept DEF IInv
  <2>3. QED
    BY <1>4, <2>1, <2>2 DEF SlotInv
<1>15. WindowInv'
  <2>1. Cardinality(W) = 1
    BY <1>3, FS_Singleton
  <2>2. \A b \in Blocks : refCount'[b] = refCount[b] \/ refCount'[b] = 1
    BY <1>7, <2>1
  <2>3. QED
    BY <1>4, <2>2 DEF IInv, WindowInv
<1>16. QED
  BY <1>g, <1>4, <1>7, <1>9, <1>10, <1>11, <1>12, <1>13, <1>14, <1>15 DEF IInv, NoBlockError

\* A running sequence is given a slot of its own, and never an exception.
LEMMA AppendSlotsKeeps ==
    ASSUME IInv, NEW s \in Seqs, AppendSlots(s)
    PROVE  IInv'
<1>1. /\ status[s] = "RUNNING" /\ s \notin scheduled /\ HasTable(s)
      /\ status \in [Seqs -> Statuses] /\ len \in [Seqs -> Nat]
      /\ blockTables \in [Seqs -> Seq(Blocks)] /\ refCount \in [Blocks -> Nat]
  <2>1. status[s] = "RUNNING" /\ s \notin scheduled
    BY DEF AppendSlots, Turns, SeqsWith, IInv, GrantInv
  <2>2. QED
    BY <2>1 DEF IInv, TypeOK, SequencesTypeOK, TablesAreOnTheRightDevice
<1>r. /\ Turns(s) \in SUBSET Seqs /\ \A q \in Turns(s) : status[q] = "RUNNING"
      /\ s \in Turns(s)
      /\ IsFiniteSet(Turns(s)) /\ Cardinality(Turns(s)) \in Nat
      /\ Cardinality(Turns(s)) <= Cardinality(GpuFree)
  <2>1. /\ Turns(s) \in SUBSET Seqs /\ \A q \in Turns(s) : status[q] = "RUNNING"
        /\ s \in Turns(s)
    BY DEF AppendSlots, Turns, SeqsWith, IInv, GrantInv
  <2>2. Cardinality(Turns(s)) <= Cardinality(GpuFree)
    <3>1. CASE granted = {}
      BY <3>1 DEF AppendSlots, CanAppendSlots
    <3>2. CASE granted # {}
      BY <3>2 DEF Turns, IInv, GrantInv
    <3>3. QED
      BY <3>1, <3>2
  <2>3. QED
    BY <2>1, <2>2, SeqSetsFinite
<1>2. /\ NumLogicalBlocks(s) \in Nat
      /\ Len(blockTables[s]) \in {NumLogicalBlocks(s) - 1, NumLogicalBlocks(s)}
  BY <1>1, NumBlocksType DEF NumLogicalBlocks, IInv, FitInv
<1>t. LastBlock(SlotTable(s)) \in Range(blockTables[s]) /\ LastBlock(SlotTable(s)) \in Blocks
  BY <1>1, SlotTableFits DEF IInv, Range
<1>3. ~AppendError(s)
  <2>1. GpuFree # {}
    <3>1. Cardinality(Turns(s)) # 0
      BY <1>r, FS_EmptySet
    <3>2. Cardinality(GpuFree) # 0
      BY <1>r, <3>1, GpuFreeFinite
    <3>3. QED
      BY <3>2, FS_EmptySet
  <2>2. refCount[LastBlock(SlotTable(s))] # 0
    <3>1. s \in InTable(LastBlock(SlotTable(s)))
      BY <1>t DEF InTable
    <3>2. QED
      BY <1>t, <3>1, FreeIsUnheld DEF IInv, TableInv, CountsExact
  <2>3. NeedsBlock(s) => Len(blockTables[s]) = NumLogicalBlocks(s) - 1
    BY <1>2 DEF NeedsBlock
  <2>4. QED
    BY <1>2, <2>1, <2>2, <2>3 DEF AppendError
<1>4. /\ AppendNewBlock(s) \/ AppendInPlace(s) \/ AppendCopyOnWrite(s)
      /\ scheduled' = scheduled \cup {s} /\ sampled' = {}
      /\ status' = status /\ len' = len /\ err' = err
      /\ granted' = Turns(s) \ scheduled'
  BY <1>3 DEF AppendSlots
<1>5. /\ TableInv' /\ OwnsLast(s)'
      /\ Len(blockTables'[s]) = NumLogicalBlocks(s)
      /\ Range(blockTables'[s]) \subseteq Range(blockTables[s]) \cup GpuFree
      /\ \A q \in Seqs \ {s} : blockTables'[q] = blockTables[q]
      /\ NoSlidingWindow \/ \A b \in Blocks : refCount'[b] = refCount[b] \/ refCount'[b] = 1
  <2>1. CASE AppendNewBlock(s)
    <3>1. Len(blockTables[s]) = NumLogicalBlocks(s) - 1
      BY <1>2, <2>1 DEF AppendNewBlock, NeedsBlock
    <3>2. QED
      BY <1>2, <2>1, <3>1, AppendNewBlockKeeps DEF IInv
  <2>2. CASE AppendInPlace(s)
    <3>1. /\ TableInv' /\ OwnsLast(s)' /\ refCount' = refCount
          /\ Len(blockTables'[s]) = IF ReusesBlock(s) THEN Len(blockTables[s]) + 1
                                    ELSE Len(blockTables[s])
          /\ Range(blockTables'[s]) = Range(blockTables[s])
          /\ \A q \in Seqs \ {s} : blockTables'[q] = blockTables[q]
      BY <1>1, <2>2, AppendInPlaceKeeps DEF IInv
    <3>2. Len(blockTables[s]) =
            IF ReusesBlock(s) THEN NumLogicalBlocks(s) - 1 ELSE NumLogicalBlocks(s)
      BY <1>2, <2>2 DEF AppendInPlace, NeedsBlock, ReusesBlock
    <3>3. Len(blockTables'[s]) = NumLogicalBlocks(s)
      BY <1>2, <3>1, <3>2
    <3>4. QED
      BY <3>1, <3>3
  <2>3. CASE AppendCopyOnWrite(s)
    <3>1. NoSlidingWindow
      <4>1. refCount[LastBlock(SlotTable(s))] > 1 /\ refCount[LastBlock(SlotTable(s))] \in Nat
        BY <1>1, <1>t, <2>3 DEF AppendCopyOnWrite, CopyLastBlock
      <4>2. ~(refCount[LastBlock(SlotTable(s))] <= 1)
        BY <4>1
      <4>3. QED
        BY <1>t, <4>2 DEF IInv, WindowInv
    <3>2. Len(blockTables[s]) = NumLogicalBlocks(s)
      <4>1. ~ReusesBlock(s)
        BY <3>1 DEF ReusesBlock, NoSlidingWindow
      <4>2. QED
        BY <1>2, <2>3, <4>1 DEF AppendCopyOnWrite, NeedsBlock
    <3>3. QED
      BY <1>1, <2>3, <3>1, <3>2, AppendCopyOnWriteKeeps DEF IInv
  <2>4. QED
    BY <1>4, <2>1, <2>2, <2>3
<1>g. granted' \subseteq Seqs /\ GrantInv'
  <2>1. granted' \subseteq Turns(s) \ {s}
    BY <1>4
  <2>2. /\ Cardinality(Turns(s) \ {s}) = Cardinality(Turns(s)) - 1
        /\ IsFiniteSet(Turns(s) \ {s})
    BY <1>r, FS_RemoveElement
  <2>3. Cardinality(granted') \in Nat /\ Cardinality(granted') <= Cardinality(Turns(s)) - 1
    BY <2>1, <2>2, FS_Subset, FS_CardinalityType
  <2>4. Cardinality(GpuFree') >= Cardinality(GpuFree) - 1
    BY <1>4, AppendTakesOne
  <2>5. Cardinality(granted') <= Cardinality(GpuFree')
    BY <1>r, <2>3, <2>4, GpuFreeFinite
  <2>6. QED
    BY <1>r, <1>4, <2>1, <2>5 DEF GrantInv
<1>6. TypeOK'
  BY <1>g, <1>4, <1>5 DEF IInv, TypeOK, SequencesTypeOK, TableInv, BlockTypeOK
<1>7. TablesAreOnTheRightDevice'
  <2>1. Range(blockTables[s]) \subseteq GpuBlocks
    BY <1>1 DEF IInv, TablesAreOnTheRightDevice, BlocksOf
  <2>2. Range(blockTables'[s]) \subseteq GpuBlocks /\ blockTables'[s] # << >>
    BY <1>5, <2>1 DEF GpuFree, OwnsLast, HasTable
  <2>3. \A q \in Seqs \ {s} : HasTable(q)' = HasTable(q) /\ BlocksOf({q})' = BlocksOf({q})
    BY <1>5 DEF HasTable, BlocksOf
  <2>4. HasTable(s)' /\ BlocksOf({s})' \subseteq GpuBlocks
    BY <2>2 DEF HasTable, BlocksOf
  <2>5. QED
    BY <1>1, <1>4, <2>3, <2>4 DEF IInv, TablesAreOnTheRightDevice
<1>8. GroupsInv'
  BY <1>4 DEF IInv, GroupsInv, Members
<1>9. RoundInv'
  BY <1>1, <1>4 DEF IInv, RoundInv
<1>10. FitInv'
  <2>1. \A q \in Seqs : NumLogicalBlocks(q)' = NumLogicalBlocks(q)
    BY <1>4 DEF NumLogicalBlocks
  <2>2. QED
    BY <1>4, <1>5, <2>1 DEF IInv, FitInv
<1>11. SlotInv'
  <2>1. ASSUME NEW q \in scheduled, q # s
        PROVE  OwnsLast(q)'
    <3>1. /\ q \in Seqs /\ OwnsLast(q) /\ blockTables'[q] = blockTables[q]
          /\ \A r \in Seqs \ {q} :
               Range(blockTables'[r]) \subseteq Range(blockTables[r]) \cup freeBlocks
      BY <1>5, <2>1 DEF IInv, TypeOK, SlotInv, GpuFree
    <3>2. QED
      BY <3>1, OwnsLastKept DEF IInv
  <2>2. QED
    BY <1>4, <1>5, <2>1 DEF SlotInv
<1>12. WindowInv'
  BY <1>4, <1>5 DEF IInv, WindowInv
<1>13. QED
  BY <1>g, <1>4, <1>5, <1>6, <1>7, <1>8, <1>9, <1>10, <1>11, <1>12 DEF IInv, NoBlockError

\* A token is appended: the table may now be one block short.
LEMMA AppendTokenKeeps ==
    ASSUME IInv, NEW s \in Seqs, AppendToken(s)
    PROVE  IInv'
<1>1. /\ s \in scheduled /\ status[s] = "RUNNING"
      /\ status \in [Seqs -> Statuses] /\ len \in [Seqs -> Nat]
      /\ blockTables \in [Seqs -> Seq(Blocks)]
  BY DEF AppendToken, Ran, IInv, TypeOK, SequencesTypeOK, RoundInv
<1>2. /\ \A q \in Seqs : len'[q] = IF q = s THEN len[s] + 1 ELSE len[q]
      /\ len' \in [Seqs -> Nat]
      /\ scheduled' = scheduled \ {s} /\ sampled' = sampled \cup {s}
      /\ status' = status /\ err' = err
      /\ blockTables' = blockTables /\ refCount' = refCount /\ freeBlocks' = freeBlocks
  BY <1>1 DEF AppendToken, blockVars
<1>g. granted' = {} /\ GrantInv'
  BY NothingGranted DEF AppendToken, Ready
<1>3. TypeOK'
  BY <1>g, <1>2 DEF IInv, TypeOK, SequencesTypeOK
<1>4. TableInv'
  BY <1>2 DEF IInv, TableInv, BlockTypeOK, CountsExact, NoRepeats, InTable
<1>5. TablesAreOnTheRightDevice'
  BY <1>2 DEF IInv, TablesAreOnTheRightDevice, HasTable, BlocksOf
<1>6. GroupsInv'
  <2>1. \A q \in Seqs : Members(GroupOf[q])' = Members(GroupOf[q])
    BY <1>2 DEF Members
  <2>2. ASSUME NEW q \in Seqs, len[q] > 0
        PROVE  len'[q] > 0
    <3>1. len[q] \in Nat /\ (len'[q] = len[q] \/ len'[q] = len[q] + 1)
      BY <1>1, <1>2
    <3>2. QED
      BY <2>2, <3>1
  <2>3. QED
    BY <1>2, <2>1, <2>2 DEF IInv, GroupsInv
<1>7. RoundInv'
  BY <1>2 DEF IInv, RoundInv
<1>8. FitInv'
  <2>1. Len(blockTables[s]) = NumLogicalBlocks(s)
    BY <1>1 DEF IInv, FitInv
  <2>2. NumLogicalBlocks(s)' \in {NumLogicalBlocks(s), NumLogicalBlocks(s) + 1}
    BY <1>1, <1>2, NumBlocksGrow DEF NumLogicalBlocks
  <2>3. NumLogicalBlocks(s) \in Nat
    BY <1>1, NumBlocksType DEF NumLogicalBlocks
  <2>4. Len(blockTables'[s]) \in {NumLogicalBlocks(s)' - 1, NumLogicalBlocks(s)'}
    BY <1>2, <2>1, <2>2, <2>3
  <2>5. \A q \in Seqs \ {s} : NumLogicalBlocks(q)' = NumLogicalBlocks(q)
    BY <1>2 DEF NumLogicalBlocks
  <2>6. QED
    BY <1>2, <2>4, <2>5 DEF IInv, FitInv
<1>9. SlotInv'
  BY <1>2 DEF IInv, SlotInv, OwnsLast, HasTable, InTable
<1>10. WindowInv'
  BY <1>2 DEF IInv, WindowInv
<1>11. QED
  BY <1>g, <1>2, <1>3, <1>4, <1>5, <1>6, <1>7, <1>8, <1>9, <1>10 DEF IInv, NoBlockError

\* Nothing is sampled: the sequence only leaves the round.
LEMMA SkipSampleKeeps ==
    ASSUME IInv, NEW s \in Seqs, SkipSample(s)
    PROVE  IInv'
<1>1. /\ scheduled' = scheduled \ {s} /\ sampled' = sampled
      /\ status' = status /\ len' = len /\ err' = err
      /\ blockTables' = blockTables /\ refCount' = refCount /\ freeBlocks' = freeBlocks
  BY DEF SkipSample, blockVars
<1>g. granted' = {} /\ GrantInv'
  BY NothingGranted DEF SkipSample, Ready
<1>2. TypeOK' /\ TableInv'
  BY <1>g, <1>1 DEF IInv, TypeOK, SequencesTypeOK, TableInv, BlockTypeOK, CountsExact, NoRepeats,
              InTable
<1>3. TablesAreOnTheRightDevice' /\ GroupsInv'
  BY <1>1 DEF IInv, TablesAreOnTheRightDevice, HasTable, BlocksOf, GroupsInv, Members
<1>4. RoundInv' /\ FitInv' /\ SlotInv'
  BY <1>1 DEF IInv, RoundInv, FitInv, SlotInv, NumLogicalBlocks, OwnsLast, HasTable, InTable
<1>5. WindowInv'
  BY <1>1 DEF IInv, WindowInv
<1>6. QED
  BY <1>g, <1>1, <1>2, <1>3, <1>4, <1>5 DEF IInv, NoBlockError

\* A child shares every block of its parent, whose token has just come.
LEMMA ForkKeeps ==
    ASSUME IInv, NEW p \in Seqs, NEW c \in Seqs, Fork(p, c)
    PROVE  IInv'
<1>1. /\ status[p] = "RUNNING" /\ status[c] = "UNUSED" /\ p # c
      /\ GroupOf[c] = GroupOf[p] /\ BestOf[GroupOf[p]] # 1
      /\ p \notin scheduled /\ c \notin scheduled /\ ~HasTable(c)
      /\ status \in [Seqs -> Statuses] /\ len \in [Seqs -> Nat]
      /\ blockTables \in [Seqs -> Seq(Blocks)]
      /\ GroupOf[p] \in Groups /\ BestOf[GroupOf[p]] \in Nat
  <2>1. BestOf[GroupOf[p]] > 1 /\ GroupOf[p] \in Groups /\ BestOf[GroupOf[p]] \in Nat
    BY SequenceGroupsAssumption DEF Fork
  <2>2. /\ status[p] = "RUNNING" /\ status[c] = "UNUSED" /\ p \in sampled
        /\ GroupOf[c] = GroupOf[p]
    BY DEF Fork
  <2>3. p \notin scheduled /\ c \notin scheduled
    BY <2>2 DEF IInv, RoundInv
  <2>4. ~HasTable(c)
    BY <2>2 DEF IInv, TablesAreOnTheRightDevice
  <2>5. /\ status \in [Seqs -> Statuses] /\ len \in [Seqs -> Nat]
        /\ blockTables \in [Seqs -> Seq(Blocks)]
    BY DEF IInv, TypeOK, SequencesTypeOK
  <2>6. QED
    BY <2>1, <2>2, <2>3, <2>4, <2>5
<1>2. /\ \A q \in Seqs : len'[q] = IF q = c THEN len[p] ELSE len[q]
      /\ len' \in [Seqs -> Nat]
      /\ scheduled' = scheduled /\ sampled' = sampled \cup {c} /\ err' = err
  BY <1>1 DEF Fork
<1>3. PICK st \in {"RUNNING", "FINISHED"} :
         /\ status' = [q \in Seqs |-> IF q = c THEN st ELSE status[q]]
         /\ st = "RUNNING" => ForkTable(p, c)
         /\ st = "FINISHED" => UNCHANGED blockVars
  BY DEF Fork, SetStatus
<1>4. /\ \A q \in Seqs : status'[q] = IF q = c THEN st ELSE status[q]
      /\ status' \in [Seqs -> Statuses]
  BY <1>1, <1>3 DEF Statuses
<1>5. /\ TableInv'
      /\ \A q \in Seqs \ {c} : blockTables'[q] = blockTables[q]
      /\ st = "RUNNING" => blockTables'[c] = blockTables[p]
      /\ st = "FINISHED" => blockTables'[c] = blockTables[c]
  <2>1. CASE st = "RUNNING"
    BY <1>1, <1>3, <2>1, ForkTableKeeps DEF IInv, ForkTable
  <2>2. CASE st = "FINISHED"
    BY <1>3, <2>2 DEF blockVars, IInv, TableInv, BlockTypeOK, CountsExact, NoRepeats, InTable
  <2>3. QED
    BY <2>1, <2>2
<1>g. granted' = {} /\ GrantInv'
  BY NothingGranted DEF Fork, Ready
<1>6. TypeOK'
  BY <1>g, <1>2, <1>4, <1>5 DEF IInv, TypeOK, SequencesTypeOK, TableInv, BlockTypeOK
<1>7. TablesAreOnTheRightDevice'
  <2>1. HasTable(p) /\ BlocksOf({p}) \subseteq GpuBlocks
    BY <1>1 DEF IInv, TablesAreOnTheRightDevice
  <2>2. st = "RUNNING" => HasTable(c)' /\ BlocksOf({c})' \subseteq GpuBlocks
    BY <1>5, <2>1 DEF HasTable, BlocksOf
  <2>3. st = "FINISHED" => ~HasTable(c)'
    BY <1>1, <1>5 DEF HasTable
  <2>4. \A q \in Seqs \ {c} : HasTable(q)' = HasTable(q) /\ BlocksOf({q})' = BlocksOf({q})
    BY <1>5 DEF HasTable, BlocksOf
  <2>5. QED
    BY <1>4, <2>2, <2>3, <2>4 DEF IInv, TablesAreOnTheRightDevice
<1>8. GroupsInv'
  <2>1. SUFFICES ASSUME NEW s \in Seqs
                 PROVE  /\ status'[s] = "WAITING" => Members(GroupOf[s])' = {s}
                        /\ status'[s] # "UNUSED" /\ BestOf[GroupOf[s]] = 1
                             => s = Parent[GroupOf[s]]
                        /\ status'[s] # "UNUSED" => len'[s] > 0
    BY DEF GroupsInv
  <2>2. status'[s] = "WAITING" => Members(GroupOf[s])' = {s}
    <3>1. SUFFICES ASSUME status'[s] = "WAITING"
                   PROVE  Members(GroupOf[s])' = {s}
      OBVIOUS
    <3>2. s # c /\ status[s] = "WAITING"
      BY <1>4, <3>1
    <3>3. Members(GroupOf[s]) = {s}
      BY <3>2 DEF IInv, GroupsInv
    <3>4. GroupOf[c] # GroupOf[s]
      BY <1>1, <3>2, <3>3 DEF Members
    <3>5. QED
      BY <1>4, <3>3, <3>4 DEF Members
  <2>3. QED
    BY <1>1, <1>2, <1>4, <2>2 DEF IInv, GroupsInv
<1>9. RoundInv'
  BY <1>1, <1>2, <1>4 DEF IInv, RoundInv, TypeOK
<1>10. FitInv'
  <2>1. \A q \in Seqs \ {c} : NumLogicalBlocks(q)' = NumLogicalBlocks(q)
    BY <1>2 DEF NumLogicalBlocks
  <2>2. NumLogicalBlocks(c)' = NumLogicalBlocks(p)
    BY <1>2 DEF NumLogicalBlocks
  <2>3. QED
    BY <1>1, <1>2, <1>4, <1>5, <2>1, <2>2 DEF IInv, FitInv
<1>11. SlotInv'
  <2>1. SUFFICES ASSUME NEW q \in scheduled
                 PROVE  OwnsLast(q)'
    BY <1>2 DEF SlotInv
  <2>2. q \in Seqs /\ q # p /\ q # c /\ OwnsLast(q)
    BY <1>1 DEF IInv, TypeOK, SlotInv
  <2>3. LastBlock(blockTables[q]) \notin Range(blockTables[p])
    BY <2>2 DEF OwnsLast, InTable
  <2>4. {r \in Seqs : LastBlock(blockTables[q]) \in Range(blockTables'[r])}
          = InTable(LastBlock(blockTables[q]))
    <3>1. LastBlock(blockTables[q]) \notin Range(blockTables[c])
      BY <2>2 DEF OwnsLast, InTable
    <3>2. LastBlock(blockTables[q]) \notin Range(blockTables'[c])
      BY <1>5, <2>3, <3>1
    <3>3. QED
      BY <1>5, <3>1, <3>2 DEF InTable
  <2>5. QED
    BY <1>5, <2>2, <2>4 DEF OwnsLast, HasTable, InTable
<1>12. WindowInv'
  BY <1>1 DEF IInv, WindowInv, SingleSequences
<1>13. QED
  BY <1>g, <1>2, <1>5, <1>6, <1>7, <1>8, <1>9, <1>10, <1>11, <1>12 DEF IInv, NoBlockError

\* Freeing the tables of S and giving its sequences the status st, for which no
\* table is expected, disturbs no other sequence.
LEMMA FreeingKeeps ==
    ASSUME IInv, NEW S \in SUBSET Seqs, FreeTables(S),
           NEW st \in {"UNUSED", "WAITING", "FINISHED"}, SetStatus(S, st),
           \A s \in Seqs \ S : len'[s] = len[s],
           scheduled' \subseteq scheduled \ S
    PROVE  /\ TableInv'
           /\ WindowInv'
           /\ TablesAreOnTheRightDevice'
           /\ FitInv'
           /\ SlotInv'
           /\ status' \in [Seqs -> Statuses]
           /\ \A s \in Seqs : status'[s] = IF s \in S THEN st ELSE status[s]
<1>1. /\ \A s \in S : blockTables'[s] = << >>
      /\ \A s \in Seqs \ S : blockTables'[s] = blockTables[s]
  BY DEF FreeTables
<1>2. TableInv' /\ \A b \in Blocks : refCount'[b] <= refCount[b]
  BY FreeTablesKeeps DEF IInv
<1>3. /\ status' \in [Seqs -> Statuses]
      /\ \A s \in Seqs : status'[s] = IF s \in S THEN st ELSE status[s]
  BY DEF SetStatus, IInv, TypeOK, SequencesTypeOK, Statuses
<1>4. TablesAreOnTheRightDevice'
  BY <1>1, <1>3 DEF IInv, TablesAreOnTheRightDevice, HasTable, BlocksOf
<1>5. FitInv'
  <2>1. \A s \in Seqs \ S : /\ NumLogicalBlocks(s)' = NumLogicalBlocks(s)
                            /\ Len(blockTables'[s]) = Len(blockTables[s])
    BY <1>1 DEF NumLogicalBlocks
  <2>2. QED
    BY <1>3, <2>1 DEF IInv, FitInv
<1>6. SlotInv'
  <2>1. SUFFICES ASSUME NEW q \in scheduled \ S
                 PROVE  OwnsLast(q)'
    BY DEF SlotInv
  <2>2. q \in Seqs /\ OwnsLast(q)
    BY DEF IInv, TypeOK, SlotInv
  <2>3. blockTables'[q] = blockTables[q]
    BY <1>1, <2>2
  <2>4. ASSUME NEW r \in Seqs \ {q}
        PROVE  Range(blockTables'[r]) \subseteq Range(blockTables[r]) \cup freeBlocks
    BY <1>1 DEF Range
  <2>5. QED
    BY <2>2, <2>3, <2>4, OwnsLastKept DEF IInv
<1>7. WindowInv'
  <2>1. ASSUME NEW b \in Blocks, refCount[b] <= 1
        PROVE  refCount'[b] <= 1
    <3>1. refCount[b] \in Nat /\ refCount'[b] \in Nat /\ refCount'[b] <= refCount[b]
      BY <1>2 DEF IInv, TableInv, BlockTypeOK
    <3>2. QED
      BY <2>1, <3>1
  <2>2. QED
    BY <1>3, <2>1 DEF IInv, WindowInv
<1>8. QED
  BY <1>2, <1>3, <1>4, <1>5, <1>6, <1>7

\* Members of a group that finish stay in it.
LEMMA FinishKeeps ==
    ASSUME IInv, NEW S \in SUBSET Seqs, Finish(S),
           \A s \in S : status[s] # "UNUSED"
    PROVE  IInv'
<1>1. /\ FreeTables(S) /\ SetStatus(S, "FINISHED")
      /\ scheduled' = scheduled \ S /\ sampled' = sampled \ S
      /\ len' = len /\ err' = err
  BY CanAlwaysFree DEF Finish, IInv
<1>2. /\ TableInv' /\ WindowInv' /\ TablesAreOnTheRightDevice' /\ FitInv' /\ SlotInv'
      /\ status' \in [Seqs -> Statuses]
      /\ \A s \in Seqs : status'[s] = IF s \in S THEN "FINISHED" ELSE status[s]
  <2>1. FreeTables(S) /\ SetStatus(S, "FINISHED") /\ scheduled' \subseteq scheduled \ S
        /\ \A s \in Seqs \ S : len'[s] = len[s]
    BY <1>1
  <2>2. QED
    BY <2>1, FreeingKeeps
<1>g. granted' = {} /\ GrantInv'
  BY CanAlwaysFree, NothingGranted DEF IInv, Finish, Raise, Ready
<1>3. TypeOK'
  BY <1>g, <1>1, <1>2 DEF IInv, TypeOK, SequencesTypeOK, TableInv, BlockTypeOK
<1>4. GroupsInv'
  <2>1. \A s \in Seqs : Members(GroupOf[s])' = Members(GroupOf[s])
    BY <1>2 DEF Members
  <2>2. QED
    BY <1>1, <1>2, <2>1 DEF IInv, GroupsInv
<1>5. RoundInv'
  BY <1>1, <1>2 DEF IInv, RoundInv, TypeOK
<1>6. QED
  BY <1>g, <1>1, <1>2, <1>3, <1>4, <1>5 DEF IInv, NoBlockError

\* A sequence that beam search drops leaves its group.
LEMMA RemoveSeqKeeps ==
    ASSUME IInv, NEW s \in Seqs, RemoveSeq(s)
    PROVE  IInv'
<1>1. {s} \in SUBSET Seqs /\ CanFree({s}) /\ status[s] \in {"RUNNING", "FINISHED"}
  <2>1. {s} \in SUBSET Seqs
    OBVIOUS
  <2>2. QED
    BY <2>1, CanAlwaysFree DEF IInv, RemoveSeq
<1>2. /\ FreeTables({s}) /\ SetStatus({s}, "UNUSED")
      /\ len' = [len EXCEPT ![s] = 0]
      /\ scheduled' = scheduled \ {s} /\ sampled' = sampled \ {s} /\ err' = err
  BY <1>1 DEF RemoveSeq
<1>3. /\ len' \in [Seqs -> Nat] /\ \A q \in Seqs \ {s} : len'[q] = len[q]
  BY <1>2 DEF IInv, TypeOK, SequencesTypeOK
<1>4. /\ TableInv' /\ WindowInv' /\ TablesAreOnTheRightDevice' /\ FitInv' /\ SlotInv'
      /\ status' \in [Seqs -> Statuses]
      /\ \A q \in Seqs : status'[q] = IF q \in {s} THEN "UNUSED" ELSE status[q]
  <2>1. scheduled' \subseteq scheduled \ {s}
    BY <1>2
  <2>2. QED
    BY <1>1, <1>2, <1>3, <2>1, FreeingKeeps
<1>g. granted' = {} /\ GrantInv'
  BY NothingGranted DEF RemoveSeq, Raise, Ready
<1>5. TypeOK'
  BY <1>g, <1>2, <1>3, <1>4 DEF IInv, TypeOK, SequencesTypeOK, TableInv, BlockTypeOK
<1>6. GroupsInv'
  <2>1. SUFFICES ASSUME NEW q \in Seqs, status'[q] # "UNUSED"
                 PROVE  /\ status'[q] = "WAITING" => Members(GroupOf[q])' = {q}
                        /\ BestOf[GroupOf[q]] = 1 => q = Parent[GroupOf[q]]
                        /\ len'[q] > 0
    BY <1>4 DEF GroupsInv
  <2>2. q # s /\ status[q] = status'[q]
    BY <1>4, <2>1
  <2>3. Members(GroupOf[q])' = Members(GroupOf[q]) \ {s}
    BY <1>4 DEF Members
  <2>4. QED
    BY <1>3, <2>1, <2>2, <2>3 DEF IInv, GroupsInv
<1>7. RoundInv'
  BY <1>2, <1>4 DEF IInv, RoundInv, TypeOK
<1>8. QED
  BY <1>g, <1>2, <1>4, <1>5, <1>6, <1>7 DEF IInv, NoBlockError

\* A group is recomputed only when it never has more than one sequence.
LEMMA PreemptByRecomputeKeeps ==
    ASSUME OnlyBeamsBranch, IInv, NEW g \in Groups, PreemptByRecompute(g)
    PROVE  IInv'
<1> DEFINE p == Parent[g]
           S == SeqsWith(g, "RUNNING")
<1>1. BestOf[g] = 1 /\ BestOf[g] \in Nat
  <2>1. /\ BestOf[g] \in Nat \ {0}
        /\ g \in BeamGroups => MaxNumRunningSeqs(g) = BestOf[g]
        /\ MaxNumRunningSeqs(g) = 1
    BY SequenceGroupsAssumption DEF MaxNumRunningSeqs, PreemptByRecompute
  <2>2. QED
    BY <2>1 DEF OnlyBeamsBranch
<1>2. /\ \A s \in Seqs : GroupOf[s] = g /\ status[s] # "UNUSED" => s = p
      /\ p \in Seqs /\ GroupOf[p] = g
  BY <1>1, SequenceGroupsAssumption DEF IInv, GroupsInv
<1>3. S = {p} /\ S \cap scheduled = {} /\ S \in SUBSET Seqs
  <2>1. S # {} /\ S \cap scheduled = {}
    BY DEF PreemptByRecompute, Preemptible
  <2>2. S \subseteq {p}
    BY <1>2 DEF SeqsWith
  <2>3. QED
    BY <1>2, <2>1, <2>2
<1>4. Cardinality(S) = 1 /\ CanFree(S)
  BY <1>3, FS_Singleton, CanAlwaysFree DEF IInv
<1>5. /\ FreeTables(S) /\ SetStatus(S, "WAITING") /\ sampled' = {}
      /\ len' = len /\ scheduled' = scheduled /\ err' = err
  BY <1>4 DEF PreemptByRecompute
<1>6. /\ TableInv' /\ WindowInv' /\ TablesAreOnTheRightDevice' /\ FitInv' /\ SlotInv'
      /\ status' \in [Seqs -> Statuses]
      /\ \A s \in Seqs : status'[s] = IF s \in S THEN "WAITING" ELSE status[s]
  <2>1. scheduled' \subseteq scheduled \ S /\ \A s \in Seqs \ S : len'[s] = len[s]
    BY <1>3, <1>5
  <2>2. QED
    BY <1>3, <1>5, <2>1, FreeingKeeps
<1>g. granted' = {} /\ GrantInv'
  BY NothingGranted DEF PreemptByRecompute, Scheduling, Raise, Ready
<1>7. TypeOK'
  BY <1>g, <1>5, <1>6 DEF IInv, TypeOK, SequencesTypeOK, TableInv, BlockTypeOK
<1>8. GroupsInv'
  <2>1. \A s \in Seqs : Members(GroupOf[s])' = Members(GroupOf[s])
    BY <1>3, <1>6 DEF Members, SeqsWith
  <2>2. Members(g) = {p}
    BY <1>2, <1>3 DEF Members, SeqsWith
  <2>3. status[p] # "UNUSED"
    BY <1>3 DEF SeqsWith
  <2>4. QED
    BY <1>2, <1>3, <1>5, <1>6, <2>1, <2>2, <2>3 DEF IInv, GroupsInv
<1>9. RoundInv'
  BY <1>3, <1>5, <1>6 DEF IInv, RoundInv, TypeOK
<1>10. QED
  BY <1>g, <1>5, <1>6, <1>7, <1>8, <1>9 DEF IInv, NoBlockError

\* Moving the tables of S to free blocks of a device, with the status st that
\* goes with the device.
LEMMA MovingKeeps ==
    ASSUME NoSlidingWindow, IInv, NEW S \in SUBSET Seqs, NEW device \in {GpuBlocks, CpuBlocks},
           MoveTables(S, freeBlocks \cap device),
           NEW st \in {"RUNNING", "SWAPPED"}, SetStatus(S, st),
           device = IF st = "RUNNING" THEN GpuBlocks ELSE CpuBlocks,
           \A s \in S : status[s] \in {"RUNNING", "SWAPPED"} /\ s \notin scheduled,
           len' = len, scheduled' = scheduled, sampled' = {}, err' = err, GrantInv'
    PROVE  IInv'
<1>1. /\ TableInv'
      /\ \A s \in S : /\ Len(blockTables'[s]) = Len(blockTables[s])
                      /\ Range(blockTables'[s]) \subseteq freeBlocks \cap device
      /\ \A s \in Seqs \ S : blockTables'[s] = blockTables[s]
  <2>1. freeBlocks \cap device \in SUBSET freeBlocks
    OBVIOUS
  <2>2. QED
    BY <2>1, MoveTablesKeeps DEF IInv
<1>2. /\ status' \in [Seqs -> Statuses]
      /\ \A s \in Seqs : status'[s] = IF s \in S THEN st ELSE status[s]
  BY DEF SetStatus, IInv, TypeOK, SequencesTypeOK, Statuses
<1>3. TypeOK'
  BY <1>1, <1>2 DEF GrantInv, IInv, TypeOK, SequencesTypeOK, TableInv, BlockTypeOK
<1>4. TablesAreOnTheRightDevice'
  <2>1. ASSUME NEW s \in S
        PROVE  HasTable(s)' /\ BlocksOf({s})' \subseteq device
    <3>1. HasTable(s) /\ blockTables[s] \in Seq(Blocks) /\ blockTables'[s] \in Seq(Blocks)
      BY <1>1 DEF IInv, TablesAreOnTheRightDevice, TableInv, BlockTypeOK
    <3>2. blockTables'[s] # << >>
      BY <1>1, <3>1 DEF HasTable
    <3>3. QED
      BY <1>1, <3>2 DEF HasTable, BlocksOf
  <2>2. \A s \in Seqs \ S : HasTable(s)' = HasTable(s) /\ BlocksOf({s})' = BlocksOf({s})
    BY <1>1 DEF HasTable, BlocksOf
  <2>3. QED
    BY <1>2, <2>1, <2>2 DEF IInv, TablesAreOnTheRightDevice
<1>5. GroupsInv'
  <2>1. \A s \in Seqs : Members(GroupOf[s])' = Members(GroupOf[s])
    BY <1>2 DEF Members
  <2>2. \A s \in Seqs : /\ status'[s] = "WAITING" => status[s] = "WAITING"
                        /\ status'[s] # "UNUSED" => status[s] # "UNUSED"
    BY <1>2
  <2>3. QED
    BY <2>1, <2>2 DEF IInv, GroupsInv
<1>6. RoundInv'
  BY <1>2 DEF IInv, RoundInv, TypeOK
<1>7. FitInv'
  <2>1. \A s \in Seqs : /\ NumLogicalBlocks(s)' = NumLogicalBlocks(s)
                        /\ Len(blockTables'[s]) = Len(blockTables[s])
    BY <1>1 DEF NumLogicalBlocks
  <2>2. QED
    BY <1>2, <2>1 DEF IInv, FitInv
<1>8. SlotInv'
  <2>1. SUFFICES ASSUME NEW q \in scheduled
                 PROVE  OwnsLast(q)'
    BY DEF SlotInv
  <2>2. /\ q \in Seqs /\ q \notin S /\ OwnsLast(q) /\ blockTables'[q] = blockTables[q]
        /\ \A r \in Seqs \ {q} :
             Range(blockTables'[r]) \subseteq Range(blockTables[r]) \cup freeBlocks
    BY <1>1 DEF IInv, TypeOK, SlotInv
  <2>3. QED
    BY <2>2, OwnsLastKept DEF IInv
<1>9. WindowInv'
  BY DEF WindowInv
<1>10. QED
  BY <1>1, <1>3, <1>4, <1>5, <1>6, <1>7, <1>8, <1>9 DEF IInv, NoBlockError

\* A group of one sequence is preempted by recomputation: nothing is swapped with
\* a window.
LEMMA SwapsNeedNoWindow ==
    ASSUME IInv, NEW g \in Groups, PreemptBySwap(g) \/ SwapIn(g)
    PROVE  NoSlidingWindow
<1>1. SUFFICES ASSUME SingleSequences, \A s \in Seqs : status[s] # "SWAPPED"
               PROVE  FALSE
  BY DEF IInv, WindowInv
<1>2. ~SwapIn(g)
  BY <1>1 DEF SwapIn, SeqsWith
<1>3. BestOf[g] = 1
  BY <1>1 DEF SingleSequences
<1>4. PICK s \in Seqs : s \in SeqsWith(g, "RUNNING")
  BY <1>2 DEF PreemptBySwap, Preemptible, SeqsWith
<1>5. Unfinished(g) = {s}
  BY <1>3, <1>4 DEF IInv, GroupsInv, Unfinished, Members, SeqsWith
<1>6. MaxNumRunningSeqs(g) = 1
  BY <1>3, <1>5, FS_Singleton DEF MaxNumRunningSeqs
<1>7. QED
  BY <1>2, <1>6 DEF PreemptBySwap

\* A group is swapped out, or the lack of CPU blocks stops the engine.
LEMMA PreemptBySwapKeeps ==
    ASSUME IInv, NEW g \in Groups, PreemptBySwap(g)
    PROVE  IInv'
<1> DEFINE S == SeqsWith(g, "RUNNING")
<1>1. /\ S \in SUBSET Seqs
      /\ \A s \in S : status[s] \in {"RUNNING", "SWAPPED"} /\ s \notin scheduled
  BY DEF SeqsWith, PreemptBySwap, Preemptible
<1>w. NoSlidingWindow
  BY SwapsNeedNoWindow
<1>2. CanMove(S)
  BY <1>1, <1>w, CanAlwaysMove DEF IInv
<1>g. granted' = {} /\ GrantInv'
  BY NothingGranted DEF PreemptBySwap, MoveError, Scheduling, Ready, Raise
<1>3. CASE CanSwapOut(g)
  <2>1. /\ MoveTables(S, freeBlocks \cap CpuBlocks) /\ SetStatus(S, "SWAPPED")
        /\ len' = len /\ scheduled' = scheduled /\ sampled' = {} /\ err' = err
    BY <1>2, <1>3, SwapsDoNotRunOut DEF PreemptBySwap, MoveError, CpuFree, Raise
  <2> HIDE DEF S
  <2>2. QED
    BY <1>1, <1>w, <1>g, <2>1, MovingKeeps
<1>4. CASE ~CanSwapOut(g)
  <2>1. /\ err' = "no CPU swap space"
        /\ status' = status /\ len' = len /\ scheduled' = scheduled /\ sampled' = sampled
        /\ blockTables' = blockTables /\ refCount' = refCount /\ freeBlocks' = freeBlocks
    BY <1>4 DEF PreemptBySwap, Raise, blockVars
  <2>2. TypeOK' /\ TableInv' /\ NoBlockError'
    BY <1>g, <2>1 DEF IInv, TypeOK, SequencesTypeOK, TableInv, BlockTypeOK, CountsExact,
                NoRepeats, InTable, NoBlockError, Errors
  <2>3. TablesAreOnTheRightDevice' /\ GroupsInv'
    <3>1. TablesAreOnTheRightDevice'
      BY <2>1 DEF IInv, TablesAreOnTheRightDevice, HasTable, BlocksOf
    <3>2. GroupsInv'
      BY <2>1 DEF IInv, GroupsInv, Members
    <3>3. QED
      BY <3>1, <3>2
  <2>4. RoundInv' /\ FitInv' /\ SlotInv'
    BY <2>1 DEF IInv, RoundInv, FitInv, SlotInv, NumLogicalBlocks, OwnsLast, HasTable, InTable
  <2>5. WindowInv'
    BY <2>1 DEF IInv, WindowInv
  <2>6. QED
    BY <1>g, <2>2, <2>3, <2>4, <2>5 DEF IInv
<1>5. QED
  BY <1>3, <1>4

\* A group is swapped in.
LEMMA SwapInKeeps ==
    ASSUME IInv, NEW g \in Groups, SwapIn(g)
    PROVE  IInv'
<1> DEFINE S == SeqsWith(g, "SWAPPED")
<1>1. /\ S \in SUBSET Seqs
      /\ \A s \in S : status[s] \in {"RUNNING", "SWAPPED"} /\ s \notin scheduled
  BY DEF SeqsWith, IInv, RoundInv
<1>w. NoSlidingWindow
  BY SwapsNeedNoWindow
<1>2. CanMove(S)
  BY <1>1, <1>w, CanAlwaysMove DEF IInv
<1>3. /\ MoveTables(S, freeBlocks \cap GpuBlocks) /\ SetStatus(S, "RUNNING")
      /\ len' = len /\ scheduled' = scheduled /\ sampled' = {} /\ err' = err
      /\ granted' = S /\ CanSwapIn(g)
  BY <1>2, SwapsDoNotRunOut DEF SwapIn, MoveError, GpuFree
<1>g. GrantInv'
  <2>1. \A s \in S : status'[s] = "RUNNING"
    BY <1>1, <1>3 DEF SetStatus
  <2>2. Cardinality(GpuFree') >= WatermarkBlocks + Cardinality(S)
    BY <1>3, SwapInGrants DEF GpuFree
  <2>3. Cardinality(S) \in Nat
    BY <1>1, SeqSetsFinite
  <2>4. Cardinality(S) <= Cardinality(GpuFree')
    BY <2>2, <2>3, GpuFreeFinite, BlockManagerAssumption
  <2>5. QED
    BY <1>1, <1>3, <2>1, <2>4 DEF GrantInv
<1> HIDE DEF S
<1>4. QED
  BY <1>1, <1>3, <1>w, <1>g, MovingKeeps
-----------------------------------------------------------------------------
(***************************************************************************)
(* The theorems                                                            *)
(***************************************************************************)
\* The invariant holds in the initial states.
LEMMA InitIInv ==
    ASSUME WindowsAreUnshared, Init
    PROVE  IInv
<1>2. /\ \A s \in Seqs : status[s] = "UNUSED" /\ blockTables[s] = << >>
      /\ \A b \in Blocks : InTable(b) = {}
  BY DEF Init, SequencesInit, InTable, Range
<1>3. TypeOK /\ BlockTypeOK
  BY DEF Init, SequencesInit, TypeOK, SequencesTypeOK, BlockTypeOK, Statuses, Errors
<1>4. CountsExact
  BY <1>2, FS_EmptySet DEF Init, CountsExact
<1>5. NoRepeats
  BY <1>2, EmptyFits DEF NoRepeats
<1>6. TablesAreOnTheRightDevice /\ GroupsInv /\ FitInv
  BY <1>2 DEF Init, TablesAreOnTheRightDevice, HasTable, GroupsInv, FitInv
<1>7. RoundInv /\ SlotInv /\ NoBlockError
  BY DEF Init, RoundInv, SlotInv, NoBlockError
<1>g. GrantInv
  BY GpuFreeFinite, FS_EmptySet DEF Init, GrantInv
<1>8. WindowInv
  BY <1>2 DEF Init, WindowsAreUnshared, WindowInv
<1>9. QED
  BY <1>g, <1>3, <1>4, <1>5, <1>6, <1>7, <1>8 DEF IInv, TableInv

\* Every call of the scheduler and of the output processor keeps the invariant.
LEMMA NextIInv ==
    ASSUME OnlyBeamsBranch, IInv, [Next]_vars
    PROVE  IInv'
<1>1. ASSUME NEW g \in Groups, GroupStep(g)
      PROVE  IInv'
  <2>1. CASE AddRequest(g)
    BY <2>1, AddRequestKeeps
  <2>2. CASE Allocate(g)
    BY <2>2, AllocateKeeps
  <2>3. CASE PreemptByRecompute(g)
    BY <2>3, PreemptByRecomputeKeeps
  <2>4. CASE PreemptBySwap(g)
    BY <2>4, PreemptBySwapKeeps
  <2>5. CASE SwapIn(g)
    BY <2>5, SwapInKeeps
  <2>6. CASE Abort(g)
    <3>1. /\ Unfinished(g) \in SUBSET Seqs /\ Finish(Unfinished(g))
          /\ \A s \in Unfinished(g) : status[s] # "UNUSED"
      BY <2>6 DEF Abort, Unfinished, Members
    <3>2. QED
      BY <3>1, FinishKeeps
  <2>7. QED
    BY <1>1, <2>1, <2>2, <2>3, <2>4, <2>5, <2>6 DEF GroupStep
<1>2. ASSUME NEW s \in Seqs, SeqStep(s)
      PROVE  IInv'
  <2>1. CASE AppendSlots(s)
    BY <2>1, AppendSlotsKeeps
  <2>2. CASE AppendToken(s)
    BY <2>2, AppendTokenKeeps
  <2>3. CASE SkipSample(s)
    BY <2>3, SkipSampleKeeps
  <2>4. CASE Stop(s)
    <3>1. {s} \in SUBSET Seqs /\ Finish({s}) /\ \A q \in {s} : status[q] # "UNUSED"
      BY <2>4 DEF Stop
    <3>2. QED
      BY <3>1, FinishKeeps
  <2>5. CASE RemoveSeq(s)
    BY <2>5, RemoveSeqKeeps
  <2>6. CASE \E c \in Seqs : Fork(s, c)
    BY <2>6, ForkKeeps
  <2>7. QED
    BY <1>2, <2>1, <2>2, <2>3, <2>4, <2>5, <2>6 DEF SeqStep
<1>3. CASE UNCHANGED vars
  <2>1. /\ err' = err /\ status' = status /\ len' = len
        /\ scheduled' = scheduled /\ sampled' = sampled
        /\ blockTables' = blockTables /\ refCount' = refCount /\ freeBlocks' = freeBlocks
        /\ granted' = granted
    BY <1>3 DEF vars
  <2>2. TypeOK' /\ TableInv' /\ NoBlockError'
    BY <2>1 DEF IInv, TypeOK, SequencesTypeOK, TableInv, BlockTypeOK, CountsExact,
                NoRepeats, InTable, NoBlockError
  <2>3. TablesAreOnTheRightDevice' /\ GroupsInv'
    BY <2>1 DEF IInv, TablesAreOnTheRightDevice, HasTable, BlocksOf, GroupsInv, Members
  <2>4. RoundInv' /\ FitInv' /\ SlotInv'
    BY <2>1 DEF IInv, RoundInv, FitInv, SlotInv, NumLogicalBlocks, OwnsLast, HasTable, InTable
  <2>5. WindowInv'
    BY <2>1 DEF IInv, WindowInv
  <2>6. GrantInv'
    BY <2>1 DEF IInv, GrantInv, GpuFree
  <2>7. QED
    BY <2>2, <2>3, <2>4, <2>5, <2>6 DEF IInv
<1>4. QED
  BY <1>1, <1>2, <1>3 DEF Next

\* The inductive invariant holds in every reachable state of the block manager.
THEOREM Invariant ==
    ASSUME WindowsAreUnshared, OnlyBeamsBranch
    PROVE  Spec => []IInv
BY InitIInv, NextIInv, PTL DEF Spec

\* Every variable of the block manager has its type in every reachable state.
THEOREM TypeCorrect ==
    ASSUME WindowsAreUnshared, OnlyBeamsBranch
    PROVE  Spec => []TypeOK
<1>1. IInv => TypeOK
  BY DEF IInv
<1>2. QED
  BY <1>1, Invariant, PTL

\* The reference count of a block is the number of sequences that hold it, and
\* it is free exactly when that is 0, whatever the order of allocate(),
\* append_slots(), fork(), swap_out(), swap_in() and free().
THEOREM CountsAreExact ==
    ASSUME WindowsAreUnshared, OnlyBeamsBranch
    PROVE  Spec => []RefCountExact
<1>1. ASSUME IInv
      PROVE  RefCountExact
  <2>1. \A b \in Blocks : Holders(b) = InTable(b)
    BY <1>1, LiveBlocksAreAll DEF IInv, TableInv, BlockTypeOK, NoRepeats, Holders, InTable
  <2>2. QED
    BY <1>1, <2>1 DEF IInv, TableInv, CountsExact, RefCountExact
<1>2. QED
  BY <1>1, Invariant, PTL

\* No call of the block manager raises: the checks can_allocate(),
\* can_append_slots() and can_swap_in() are enough, and only swap space may lack.
THEOREM NoException ==
    ASSUME WindowsAreUnshared, OnlyBeamsBranch
    PROVE  Spec => []NoBlockError
<1>1. IInv => NoBlockError
  BY DEF IInv
<1>2. QED
  BY <1>1, Invariant, PTL

\* Running sequences are on the GPU, swapped ones on the CPU, and no other
\* sequence holds a block.
THEOREM RightDevice ==
    ASSUME WindowsAreUnshared, OnlyBeamsBranch
    PROVE  Spec => []TablesAreOnTheRightDevice
<1>1. IInv => TablesAreOnTheRightDevice
  BY DEF IInv
<1>2. QED
  BY <1>1, Invariant, PTL

\* The slot the next forward pass writes for a sequence exists and is its own:
\* copy on write in append_slots() is never late.
THEOREM SlotIsExclusive ==
    ASSUME WindowsAreUnshared, OnlyBeamsBranch
    PROVE  Spec => []ScheduledSlotIsExclusive
<1>1. ASSUME IInv
      PROVE  ScheduledSlotIsExclusive
  <2>1. SUFFICES ASSUME NEW s \in scheduled
                 PROVE  /\ status[s] = "RUNNING"
                        /\ Len(blockTables[s]) = NumLogicalBlocks(s)
                        /\ Holders(LastBlock(blockTables[s])) = {s}
    BY DEF ScheduledSlotIsExclusive
  <2>2. /\ s \in Seqs /\ status[s] = "RUNNING"
        /\ Len(blockTables[s]) = NumLogicalBlocks(s)
        /\ InTable(LastBlock(blockTables[s])) = {s}
    BY <1>1 DEF IInv, TypeOK, RoundInv, FitInv, SlotInv, OwnsLast
  <2>3. \A b : Holders(b) = InTable(b)
    BY <1>1, LiveBlocksAreAll DEF IInv, TableInv, BlockTypeOK, NoRepeats, Holders, InTable
  <2>4. QED
    BY <2>2, <2>3
<1>2. QED
  BY <1>1, Invariant, PTL

\* A token appended under a sliding window goes into the block that attention has
\* just stopped reading: any n consecutive logical blocks are n blocks, however
\* long the prompt was and however far the sequence has grown (allocate,
\* append_slots).
THEOREM WindowIsKept ==
    ASSUME WindowsAreUnshared, OnlyBeamsBranch
    PROVE  Spec => []WindowIsNotOverwritten
<1>1. ASSUME IInv
      PROVE  WindowIsNotOverwritten
  <2>1. SUFFICES ASSUME NEW s \in Seqs,
                        NEW i \in DOMAIN blockTables[s], NEW j \in DOMAIN blockTables[s],
                        i < j, BlockSlidingWindow = 0 \/ j - i < BlockSlidingWindow
                 PROVE  blockTables[s][i] # blockTables[s][j]
    BY DEF WindowIsNotOverwritten
  <2>2. FitsWindow(blockTables[s]) /\ blockTables[s] \in Seq(Blocks)
    BY <1>1 DEF IInv, TableInv, NoRepeats, BlockTypeOK
  <2>3. i # j
    BY <2>1, <2>2
  <2>4. QED
    BY <2>1, <2>2, <2>3 DEF FitsWindow, NoSlidingWindow, IsInjective
<1>2. QED
  BY <1>1, Invariant, PTL
-----------------------------------------------------------------------------
(***************************************************************************)
(* The steps: what admission and swapping may do, and that the manager     *)
(* implements BlockPool.                                                   *)
(***************************************************************************)

OneGroup(S) == \A s, q \in S : GroupOf[s] = GroupOf[q]

\* A block is shared inside one group only.
GroupsAreApart == \A b \in Blocks : OneGroup(InTable(b))

\* A sequence gains no block that is not free.
GainsFreeBlocks ==
    \A s \in Seqs : Range(blockTables'[s]) \subseteq Range(blockTables[s]) \cup freeBlocks

\* The tables that change are those of one group.
ChangesOneGroup ==
    \E g \in Groups : \A s \in Seqs : GroupOf[s] # g => blockTables'[s] = blockTables[s]

\* c gets the table of p.
CopiesTable(p, c) ==
    /\ p \in Seqs /\ c \in Seqs /\ GroupOf[c] = GroupOf[p] /\ ~HasTable(c)
    /\ blockTables'[c] = blockTables[p]
    /\ \A s \in Seqs \ {c} : blockTables'[s] = blockTables[s]

\* The two ways in which tables change.
TablesStep ==
    \/ GainsFreeBlocks /\ ChangesOneGroup
    \/ \E p, c \in Seqs : CopiesTable(p, c)
-----------------------------------------------------------------------------
(***************************************************************************)
(* Every step changes the tables in one of the two ways                    *)
(***************************************************************************)

\* Freeing tables of one group.
LEMMA FreeTablesStep ==
    ASSUME NEW g \in Groups, NEW S \in SUBSET Seqs, \A s \in S : GroupOf[s] = g,
           FreeTables(S)
    PROVE  GainsFreeBlocks /\ ChangesOneGroup
<1>1. \A s \in Seqs : blockTables'[s] = IF s \in S THEN << >> ELSE blockTables[s]
  BY DEF FreeTables
<1>2. Range(<< >>) = {}
  BY DEF Range
<1>3. GainsFreeBlocks
  BY <1>1, <1>2 DEF GainsFreeBlocks
<1>4. ChangesOneGroup
  BY <1>1 DEF ChangesOneGroup
<1>5. QED
  BY <1>3, <1>4

\* Moving tables of one group.
LEMMA MoveTablesStep ==
    ASSUME NoSlidingWindow, TableInv,
           NEW g \in Groups, NEW S \in SUBSET Seqs, \A s \in S : GroupOf[s] = g,
           NEW free \in SUBSET freeBlocks, MoveTables(S, free)
    PROVE  GainsFreeBlocks /\ ChangesOneGroup
<1>1. /\ \A s \in S : Range(blockTables'[s]) \subseteq free
      /\ \A s \in Seqs \ S : blockTables'[s] = blockTables[s]
  BY MoveTablesKeeps
<1>2. GainsFreeBlocks
  BY <1>1 DEF GainsFreeBlocks
<1>3. ChangesOneGroup
  BY <1>1 DEF ChangesOneGroup
<1>4. QED
  BY <1>2, <1>3

\* A step that leaves the tables alone; the step that raises is one.
LEMMA SameTablesStep ==
    ASSUME NEW g \in Groups, blockTables' = blockTables
    PROVE  GainsFreeBlocks /\ ChangesOneGroup
BY DEF GainsFreeBlocks, ChangesOneGroup

\* allocate() fills the tables of the waiting group.
LEMMA AllocateStep ==
    ASSUME IInv, NEW g \in Groups, Allocate(g)
    PROVE  GainsFreeBlocks /\ ChangesOneGroup
<1> DEFINE W == SeqsWith(g, "WAITING")
<1>1. PICK s \in W : AllocateTables(g, s)
  BY AllocateSucceeds
<1>2. s \in Seqs /\ GroupOf[s] = g /\ status[s] = "WAITING" /\ len \in [Seqs -> Nat]
  BY DEF SeqsWith, IInv, TypeOK, SequencesTypeOK
<1>3. Members(g) = {s} /\ W = {s}
  BY <1>2 DEF IInv, GroupsInv, SeqsWith, Members
<1>4. NumLogicalBlocks(s) \in Nat
  BY <1>2, NumBlocksType, SequenceGroupsAssumption DEF NumLogicalBlocks
<1>5. \A q \in W : ~HasTable(q)
  BY <1>2, <1>3 DEF IInv, TablesAreOnTheRightDevice
<1>6. /\ Range(blockTables'[s]) \subseteq GpuFree
      /\ \A q \in Seqs \ {s} : blockTables'[q] = blockTables[q]
  BY <1>1, <1>3, <1>4, <1>5, AllocateTablesKeeps DEF IInv
<1>7. GainsFreeBlocks
  BY <1>6 DEF GainsFreeBlocks, GpuFree
<1>8. ChangesOneGroup
  BY <1>2, <1>6 DEF ChangesOneGroup
<1>9. QED
  BY <1>7, <1>8

\* append_slots() adds a free block, or puts one in the place of the last.
LEMMA AppendSlotsStep ==
    ASSUME IInv, NEW s \in Seqs, AppendSlots(s)
    PROVE  GainsFreeBlocks /\ ChangesOneGroup
<1>1. GroupOf[s] \in Groups /\ HasTable(s) /\ TableInv
  <2>1. status[s] = "RUNNING"
    BY DEF AppendSlots, Turns, SeqsWith, IInv, GrantInv
  <2>2. QED
    BY <2>1, SequenceGroupsAssumption DEF IInv, TablesAreOnTheRightDevice
<1>2. ASSUME /\ Range(blockTables'[s]) \subseteq Range(blockTables[s]) \cup GpuFree
             /\ \A q \in Seqs \ {s} : blockTables'[q] = blockTables[q]
      PROVE  GainsFreeBlocks /\ ChangesOneGroup
  <2>1. GainsFreeBlocks
    BY <1>2 DEF GainsFreeBlocks, GpuFree
  <2>2. ChangesOneGroup
    BY <1>1, <1>2 DEF ChangesOneGroup
  <2>3. QED
    BY <2>1, <2>2
<1>3. CASE AppendNewBlock(s)
  BY <1>1, <1>2, <1>3, AppendNewBlockKeeps
<1>4. CASE AppendCopyOnWrite(s)
  <2>1. NoSlidingWindow
    <3>1. LastBlock(SlotTable(s)) \in Blocks
      BY <1>1, SlotTableFits DEF TableInv, BlockTypeOK, Range
    <3>2. refCount[LastBlock(SlotTable(s))] > 1 /\ refCount[LastBlock(SlotTable(s))] \in Nat
      BY <1>1, <1>4, <3>1 DEF AppendCopyOnWrite, CopyLastBlock, TableInv, BlockTypeOK
    <3>3. ~(refCount[LastBlock(SlotTable(s))] <= 1)
      BY <3>2
    <3>4. QED
      BY <3>1, <3>3 DEF IInv, WindowInv
  <2>2. QED
    BY <1>1, <1>2, <1>4, <2>1, AppendCopyOnWriteKeeps
<1>5. CASE AppendInPlace(s)
  BY <1>1, <1>2, <1>5, AppendInPlaceKeeps
<1>6. CASE AppendError(s)
  <2>1. blockTables' = blockTables
    BY <1>6 DEF AppendError, Raise, blockVars
  <2>2. QED
    BY <1>1, <2>1, SameTablesStep
<1>7. QED
  BY <1>3, <1>4, <1>5, <1>6 DEF AppendSlots

\* fork() copies a table inside the group, to a sequence without one.
LEMMA ForkStep ==
    ASSUME IInv, NEW p \in Seqs, NEW c \in Seqs, Fork(p, c)
    PROVE  TablesStep
<1>1. GroupOf[c] \in Groups /\ GroupOf[c] = GroupOf[p] /\ ~HasTable(c)
  BY SequenceGroupsAssumption DEF Fork, IInv, TablesAreOnTheRightDevice
<1>2. CASE ForkTable(p, c)
  <2>1. blockTables' = [blockTables EXCEPT ![c] = blockTables[p]]
    BY <1>2 DEF ForkTable
  <2>2. CopiesTable(p, c)
    BY <1>1, <2>1 DEF CopiesTable, IInv, TypeOK
  <2>3. QED
    BY <2>2 DEF TablesStep
<1>3. CASE blockTables' = blockTables
  BY <1>1, <1>3, SameTablesStep DEF TablesStep
<1>4. QED
  BY <1>2, <1>3 DEF Fork, blockVars

\* Finish frees its sequences, or raises.
LEMMA FinishStep ==
    ASSUME NEW g \in Groups, NEW S \in SUBSET Seqs, \A s \in S : GroupOf[s] = g, Finish(S)
    PROVE  GainsFreeBlocks /\ ChangesOneGroup
<1>1. CASE FreeTables(S)
  BY <1>1, FreeTablesStep
<1>2. CASE Raise("double free")
  BY <1>2, SameTablesStep DEF Raise, blockVars
<1>3. QED
  BY <1>1, <1>2 DEF Finish

\* The steps of a group.
LEMMA GroupStepTables ==
    ASSUME IInv, NEW g \in Groups, GroupStep(g)
    PROVE  TablesStep
<1>1. SUFFICES GainsFreeBlocks /\ ChangesOneGroup
  BY DEF TablesStep
<1>2. CASE AddRequest(g)
  BY <1>2, SameTablesStep DEF AddRequest, blockVars
<1>3. CASE Allocate(g)
  BY <1>3, AllocateStep
<1>4. CASE PreemptByRecompute(g)
  <2>1. SeqsWith(g, "RUNNING") \in SUBSET Seqs
        /\ \A s \in SeqsWith(g, "RUNNING") : GroupOf[s] = g
    BY DEF SeqsWith
  <2>2. CASE FreeTables(SeqsWith(g, "RUNNING"))
    BY <2>1, <2>2, FreeTablesStep
  <2>3. CASE blockTables' = blockTables
    BY <2>3, SameTablesStep
  <2>4. QED
    BY <1>4, <2>2, <2>3 DEF PreemptByRecompute, Raise, blockVars
<1>5. CASE PreemptBySwap(g)
  <2>1. /\ SeqsWith(g, "RUNNING") \in SUBSET Seqs /\ CpuFree \in SUBSET freeBlocks
        /\ \A s \in SeqsWith(g, "RUNNING") : GroupOf[s] = g
    BY DEF SeqsWith, CpuFree
  <2>2. CASE MoveTables(SeqsWith(g, "RUNNING"), CpuFree)
    BY <1>5, <2>1, <2>2, SwapsNeedNoWindow, MoveTablesStep DEF IInv
  <2>3. CASE blockTables' = blockTables
    BY <2>3, SameTablesStep
  <2>4. QED
    BY <1>5, <2>2, <2>3 DEF PreemptBySwap, MoveError, Raise, blockVars
<1>6. CASE SwapIn(g)
  <2>1. /\ SeqsWith(g, "SWAPPED") \in SUBSET Seqs /\ GpuFree \in SUBSET freeBlocks
        /\ \A s \in SeqsWith(g, "SWAPPED") : GroupOf[s] = g
    BY DEF SeqsWith, GpuFree
  <2>2. CASE MoveTables(SeqsWith(g, "SWAPPED"), GpuFree)
    BY <1>6, <2>1, <2>2, SwapsNeedNoWindow, MoveTablesStep DEF IInv
  <2>3. CASE blockTables' = blockTables
    BY <2>3, SameTablesStep
  <2>4. QED
    BY <1>6, <2>2, <2>3 DEF SwapIn, MoveError, Raise, blockVars
<1>7. CASE Abort(g)
  <2>1. Unfinished(g) \in SUBSET Seqs /\ \A s \in Unfinished(g) : GroupOf[s] = g
    BY DEF Unfinished, Members
  <2>2. QED
    BY <1>7, <2>1, FinishStep DEF Abort
<1>8. QED
  BY <1>2, <1>3, <1>4, <1>5, <1>6, <1>7 DEF GroupStep

\* The steps of a sequence.
LEMMA SeqStepTables ==
    ASSUME IInv, NEW s \in Seqs, SeqStep(s)
    PROVE  TablesStep
<1>1. GroupOf[s] \in Groups /\ {s} \in SUBSET Seqs
  BY SequenceGroupsAssumption
<1>2. CASE AppendSlots(s)
  BY <1>2, AppendSlotsStep DEF TablesStep
<1>3. CASE AppendToken(s)
  BY <1>1, <1>3, SameTablesStep DEF AppendToken, blockVars, TablesStep
<1>4. CASE SkipSample(s)
  BY <1>1, <1>4, SameTablesStep DEF SkipSample, blockVars, TablesStep
<1>5. CASE Stop(s)
  BY <1>1, <1>5, FinishStep DEF Stop, TablesStep
<1>6. CASE RemoveSeq(s)
  <2>1. CASE FreeTables({s})
    BY <1>1, <2>1, FreeTablesStep DEF TablesStep
  <2>2. CASE blockTables' = blockTables
    BY <1>1, <2>2, SameTablesStep DEF TablesStep
  <2>3. QED
    BY <1>6, <2>1, <2>2 DEF RemoveSeq, Raise, blockVars
<1>7. CASE \E c \in Seqs : Fork(s, c)
  BY <1>7, ForkStep
<1>8. QED
  BY <1>2, <1>3, <1>4, <1>5, <1>6, <1>7 DEF SeqStep

\* What a step may do to the tables.
LEMMA NextTables ==
    ASSUME IInv, Next
    PROVE  TablesStep
BY GroupStepTables, SeqStepTables DEF Next
-----------------------------------------------------------------------------
(***************************************************************************)
(* The manager implements the pool                                         *)
(***************************************************************************)

\* A free block goes to one group, a held one stays with its group.
LEMMA GroupsStayApart ==
    ASSUME IInv, GroupsAreApart, TablesStep
    PROVE  GroupsAreApart'
<1>1. SUFFICES ASSUME NEW b \in Blocks, NEW s \in Seqs, NEW q \in Seqs,
                      b \in Range(blockTables'[s]), b \in Range(blockTables'[q])
               PROVE  GroupOf[s] = GroupOf[q]
  BY DEF GroupsAreApart, OneGroup, InTable
<1>2. \A x, y \in Seqs : b \in Range(blockTables[x]) /\ b \in Range(blockTables[y])
                           => GroupOf[x] = GroupOf[y]
  BY DEF GroupsAreApart, OneGroup, InTable
<1>3. CASE GainsFreeBlocks /\ ChangesOneGroup
  <2>1. PICK g \in Groups : \A x \in Seqs : GroupOf[x] # g => blockTables'[x] = blockTables[x]
    BY <1>3 DEF ChangesOneGroup
  <2>2. CASE b \in freeBlocks
    <3>1. InTable(b) = {}
      BY <2>2, FreeIsUnheld DEF IInv
    <3>2. GroupOf[s] = g /\ GroupOf[q] = g
      BY <1>1, <2>1, <3>1 DEF InTable
    <3>3. QED
      BY <3>2
  <2>3. CASE b \notin freeBlocks
    BY <1>1, <1>2, <1>3, <2>3 DEF GainsFreeBlocks
  <2>4. QED
    BY <2>2, <2>3
<1>4. CASE \E p, c \in Seqs : CopiesTable(p, c)
  <2>1. PICK p \in Seqs, c \in Seqs : CopiesTable(p, c)
    BY <1>4
  <2>2. \A x \in Seqs : b \in Range(blockTables'[x]) =>
            \E y \in Seqs : GroupOf[y] = GroupOf[x] /\ b \in Range(blockTables[y])
    BY <2>1 DEF CopiesTable
  <2>3. QED
    BY <1>1, <1>2, <2>2
<1>5. QED
  BY <1>3, <1>4 DEF TablesStep

\* Groups are apart in every reachable state.
LEMMA ApartInvariant ==
    ASSUME WindowsAreUnshared, OnlyBeamsBranch
    PROVE  Spec => [](IInv /\ GroupsAreApart)
<1>1. Init => GroupsAreApart
  <2>1. ASSUME Init, NEW b \in Blocks
        PROVE  InTable(b) = {}
    BY <2>1 DEF Init, InTable, Range
  <2>2. QED
    BY <2>1 DEF GroupsAreApart, OneGroup
<1>2. IInv /\ GroupsAreApart /\ [Next]_vars => GroupsAreApart'
  <2>1. ASSUME IInv, GroupsAreApart, Next
        PROVE  GroupsAreApart'
    BY <2>1, NextTables, GroupsStayApart
  <2>2. ASSUME GroupsAreApart, UNCHANGED vars
        PROVE  GroupsAreApart'
    BY <2>2 DEF vars, GroupsAreApart, InTable
  <2>3. QED
    BY <2>1, <2>2
<1>3. QED
  BY <1>1, <1>2, Invariant, PTL DEF Spec

\* The pool starts with every block idle.
LEMMA InitPool ==
    ASSUME Init
    PROVE  Pool!PoolInit
<1>1. \A b \in Blocks : Holders(b) = {}
  <2>1. \A s \in Seqs : blockTables[s] \in Seq(Blocks) /\ Range(blockTables[s]) = {}
    BY DEF Init, Range
  <2>2. QED
    BY <2>1, LiveBlocksAreAll, EmptyFits DEF Init, Holders
<1>2. QED
  BY <1>1 DEF Init, Pool!PoolInit

\* Every change of the tables is a step of the pool.
LEMMA NextPool ==
    ASSUME IInv, IInv', GroupsAreApart', TablesStep
    PROVE  Pool!PoolNext
<1> DEFINE owners == [b \in Blocks |-> Holders(b)]
<1>1. \A b \in Blocks : Holders(b) = InTable(b)
  BY LiveBlocksAreAll DEF IInv, TableInv, BlockTypeOK, NoRepeats, Holders, InTable
<1>2. \A b \in Blocks : Holders(b)' = InTable(b)'
  BY LiveBlocksAreAll DEF IInv, TableInv, BlockTypeOK, NoRepeats, Holders, InTable
<1>3. owners' \in [Blocks -> SUBSET Seqs]
  BY DEF Holders
<1>4. ASSUME NEW b \in Blocks
      PROVE  \/ b \in freeBlocks /\ Holders(b)' # {}
             \/ b \notin freeBlocks /\ Holders(b) \subseteq Holders(b)'
             \/ b \notin freeBlocks /\ Holders(b)' \subseteq Holders(b)
             \/ Holders(b)' = Holders(b)
  <2>1. CASE b \in freeBlocks
    BY <1>1, <2>1, FreeIsUnheld DEF IInv
  <2>2. CASE b \notin freeBlocks /\ GainsFreeBlocks
    BY <1>1, <1>2, <2>2 DEF GainsFreeBlocks, InTable
  <2>3. CASE b \notin freeBlocks /\ \E p, c \in Seqs : CopiesTable(p, c)
    <3>1. PICK p \in Seqs, c \in Seqs : CopiesTable(p, c)
      BY <2>3
    <3>2. b \notin Range(blockTables[c])
      BY <3>1 DEF CopiesTable, HasTable, Range
    <3>3. InTable(b) \subseteq InTable(b)'
      BY <3>1, <3>2 DEF CopiesTable, InTable
    <3>4. QED
      BY <1>1, <1>2, <2>3, <3>3
  <2>4. QED
    BY <2>1, <2>2, <2>3 DEF TablesStep
<1>5. \A b \in Blocks : OneGroup(Holders(b))'
  BY <1>2 DEF GroupsAreApart
<1>6. freeBlocks' = {b \in Blocks : Holders(b)' = {}}
  <2>1. ASSUME NEW b \in Blocks
        PROVE  b \in freeBlocks' <=> InTable(b)' = {}
    <3>1. /\ refCount'[b] = Cardinality(InTable(b)')
          /\ b \in freeBlocks' <=> refCount'[b] = 0
      BY DEF IInv, TableInv, CountsExact
    <3>2. IsFiniteSet(InTable(b)')
      BY SeqSetsFinite DEF InTable
    <3>3. QED
      BY <3>1, <3>2, FS_EmptySet
  <2>2. freeBlocks' \subseteq Blocks
    BY DEF IInv, TableInv, BlockTypeOK
  <2>3. QED
    BY <1>2, <2>1, <2>2
<1>7. QED
  BY <1>3, <1>4, <1>5, <1>6
     DEF Pool!PoolNext, Pool!Taken, Pool!Shared, Pool!Dropped, Pool!Untouched,
         Pool!SameGroup, OneGroup

\* The block manager implements the pool: a block has owners of one group only,
\* and it reaches another group only through a free list (allocate, append_slots,
\* fork, swap_in, swap_out, free).
THEOREM ManagerImplementsPool ==
    ASSUME WindowsAreUnshared, OnlyBeamsBranch
    PROVE  Spec => ImplementsPool
<1>1. Init => Pool!PoolInit
  BY InitPool
<1>2. /\ IInv /\ IInv'
      /\ GroupsAreApart'
      /\ [Next]_vars
      => [Pool!PoolNext]_(Pool!poolVars)
  <2>1. ASSUME IInv, IInv', GroupsAreApart', Next
        PROVE  Pool!PoolNext
    BY <2>1, NextTables, NextPool
  <2>2. ASSUME UNCHANGED vars
        PROVE  UNCHANGED Pool!poolVars
    BY <2>2 DEF vars, Pool!poolVars, Holders
  <2>3. QED
    BY <2>1, <2>2
<1>3. QED
  BY <1>1, <1>2, ApartInvariant, PTL DEF Spec, ImplementsPool, Pool!PoolSpec
-----------------------------------------------------------------------------
(***************************************************************************)
(* What swapping and admission do                                          *)
(***************************************************************************)
SwapsIn(s) == Becomes(s, "SWAPPED", "RUNNING")
SwapsOut(s) == Becomes(s, "RUNNING", "SWAPPED")
Admitted(s) == Becomes(s, "WAITING", "RUNNING")

\* The statuses after SetStatus.
LEMMA StatusesSet ==
    ASSUME NEW S \in SUBSET Seqs, NEW st, SetStatus(S, st)
    PROVE  \A s \in Seqs : status'[s] = IF s \in S THEN st ELSE status[s]
BY DEF SetStatus

\* Only swap_in(), swap_out() and allocate() move a sequence to or from the GPU.
LEMMA WhoMoves ==
    ASSUME Next, NEW s \in Seqs
    PROVE  /\ SwapsOut(s) => \E g \in Groups :
                PreemptBySwap(g) /\ MoveTables(SeqsWith(g, "RUNNING"), CpuFree)
                /\ SetStatus(SeqsWith(g, "RUNNING"), "SWAPPED")
           /\ SwapsIn(s) => \E g \in Groups :
                SwapIn(g) /\ MoveTables(SeqsWith(g, "SWAPPED"), GpuFree)
                /\ SetStatus(SeqsWith(g, "SWAPPED"), "RUNNING")
           /\ Admitted(s) => \E g \in Groups : Allocate(g)
<1> USE DEF SwapsOut, SwapsIn, Admitted, Becomes
<1>1. CASE status' = status
  BY <1>1
<1>2. CASE \E S \in SUBSET Seqs, st \in {"UNUSED", "WAITING", "FINISHED"} : SetStatus(S, st)
  BY <1>2, StatusesSet
<1>3. ASSUME NEW g \in Groups, GroupStep(g), status' # status,
             ~\E S \in SUBSET Seqs, st \in {"UNUSED", "WAITING", "FINISHED"} : SetStatus(S, st)
      PROVE  \/ AddRequest(g) \/ Allocate(g)
             \/ PreemptBySwap(g) /\ MoveTables(SeqsWith(g, "RUNNING"), CpuFree)
                /\ SetStatus(SeqsWith(g, "RUNNING"), "SWAPPED")
             \/ SwapIn(g) /\ MoveTables(SeqsWith(g, "SWAPPED"), GpuFree)
                /\ SetStatus(SeqsWith(g, "SWAPPED"), "RUNNING")
  <2>1. ~PreemptByRecompute(g)
    BY <1>3 DEF PreemptByRecompute, Raise, SeqsWith
  <2>2. ~Abort(g)
    BY <1>3 DEF Abort, Finish, Raise, Unfinished, Members
  <2>3. QED
    BY <1>3, <2>1, <2>2 DEF GroupStep, PreemptBySwap, SwapIn, MoveError, Raise
<1>4. ASSUME NEW q \in Seqs, SeqStep(q), status' # status,
             ~\E S \in SUBSET Seqs, st \in {"UNUSED", "WAITING", "FINISHED"} : SetStatus(S, st)
      PROVE  \E c \in Seqs : status[c] = "UNUSED" /\ SetStatus({c}, "RUNNING")
  <2>1. ~AppendSlots(q) /\ ~AppendToken(q) /\ ~SkipSample(q)
    BY <1>4 DEF AppendSlots, AppendToken, SkipSample, AppendError, Raise
  <2>2. ~Stop(q) /\ ~RemoveSeq(q)
    BY <1>4 DEF Stop, Finish, RemoveSeq, Raise
  <2>3. PICK c \in Seqs : Fork(q, c)
    BY <1>4, <2>1, <2>2 DEF SeqStep
  <2>4. QED
    BY <1>4, <2>3 DEF Fork
<1>5. ASSUME NEW g \in Groups, AddRequest(g)
      PROVE  (status'[s] # "RUNNING" /\ status'[s] # "SWAPPED") \/ status'[s] = status[s]
  BY <1>5 DEF AddRequest
<1>6. ASSUME NEW g \in Groups, Allocate(g)
      PROVE  status'[s] = status[s] \/ Admitted(s)
  <2>1. CASE SetStatus(SeqsWith(g, "WAITING"), "RUNNING")
    BY <2>1 DEF SetStatus, SeqsWith
  <2>2. CASE status' = status
    BY <2>2
  <2>3. QED
    BY <1>6, <2>1, <2>2 DEF Allocate, Raise
<1>7. ASSUME NEW g \in Groups, SetStatus(SeqsWith(g, "RUNNING"), "SWAPPED")
      PROVE  status'[s] = status[s] \/ SwapsOut(s)
  <2>1. \A x \in Seqs : status'[x] = IF x \in SeqsWith(g, "RUNNING") THEN "SWAPPED" ELSE status[x]
    BY <1>7 DEF SetStatus
  <2>2. QED
    BY <2>1 DEF SeqsWith
<1>8. ASSUME NEW g \in Groups, SetStatus(SeqsWith(g, "SWAPPED"), "RUNNING")
      PROVE  status'[s] = status[s] \/ SwapsIn(s)
  <2>1. \A x \in Seqs : status'[x] = IF x \in SeqsWith(g, "SWAPPED") THEN "RUNNING" ELSE status[x]
    BY <1>8 DEF SetStatus
  <2>2. QED
    BY <2>1 DEF SeqsWith
<1>9. ASSUME NEW c \in Seqs, status[c] = "UNUSED", SetStatus({c}, "RUNNING")
      PROVE  ~SwapsOut(s) /\ ~SwapsIn(s) /\ ~Admitted(s)
  BY <1>9 DEF SetStatus
<1>10. CASE /\ status' # status
            /\ ~\E S \in SUBSET Seqs, st \in {"UNUSED", "WAITING", "FINISHED"} : SetStatus(S, st)
  BY <1>3, <1>4, <1>5, <1>6, <1>7, <1>8, <1>9, <1>10 DEF Next
<1>11. QED
  BY <1>1, <1>2, <1>10

\* The sequences moved by swap_in() or swap_out() keep what they share.
LEMMA MoveKeepsSharing ==
    ASSUME TableInv, NEW S \in SUBSET Seqs, NEW free, MoveTables(S, free),
           NEW s \in S, NEW q \in S,
           NEW i \in DOMAIN blockTables[s] \cap DOMAIN blockTables[q]
    PROVE  (blockTables[s][i] = blockTables[q][i])
               <=> (blockTables'[s][i] = blockTables'[q][i])
<1>1. PICK m \in Injection(BlocksOf(S), free) :
        blockTables' = [x \in Seqs |-> IF x \in S
                           THEN [j \in DOMAIN blockTables[x] |-> m[blockTables[x][j]]]
                           ELSE blockTables[x]]
  BY DEF MoveTables
<1>2. /\ blockTables'[s][i] = m[blockTables[s][i]]
      /\ blockTables'[q][i] = m[blockTables[q][i]]
  BY <1>1
<1>3. blockTables[s][i] \in BlocksOf(S) /\ blockTables[q][i] \in BlocksOf(S)
  BY DEF BlocksOf, Range
<1>4. QED
  BY <1>1, <1>2, <1>3 DEF Injection, IsInjective

\* swap_out() and swap_in() keep what siblings share.
THEOREM SwapsKeepSharing ==
    ASSUME WindowsAreUnshared, OnlyBeamsBranch
    PROVE  Spec => SwapKeepsSharing
<1> DEFINE Moved(r) == SwapsOut(r) \/ SwapsIn(r)
<1>1. ASSUME IInv, Next, NEW s \in Seqs, NEW q \in Seqs, Moved(s), Moved(q),
             NEW i \in DOMAIN blockTables[s] \cap DOMAIN blockTables[q]
      PROVE  (blockTables[s][i] = blockTables[q][i])
                 <=> (blockTables'[s][i] = blockTables'[q][i])
  <2>1. PICK S \in SUBSET Seqs : /\ \E st : SetStatus(S, st)
                                 /\ \E free : MoveTables(S, free)
    <3>1. CASE SwapsOut(s)
      <4>1. PICK g \in Groups : /\ MoveTables(SeqsWith(g, "RUNNING"), CpuFree)
                                /\ SetStatus(SeqsWith(g, "RUNNING"), "SWAPPED")
        BY <1>1, <3>1, WhoMoves
      <4>2. QED
        BY <4>1 DEF SeqsWith
    <3>2. CASE SwapsIn(s)
      <4>1. PICK g \in Groups : /\ MoveTables(SeqsWith(g, "SWAPPED"), GpuFree)
                                /\ SetStatus(SeqsWith(g, "SWAPPED"), "RUNNING")
        BY <1>1, <3>2, WhoMoves
      <4>2. QED
        BY <4>1 DEF SeqsWith
    <3>3. QED
      BY <1>1, <3>1, <3>2
  <2>2. \A r \in Seqs \ S : status'[r] = status[r]
    BY <2>1 DEF SetStatus
  <2>3. s \in S /\ q \in S
    BY <1>1, <2>2 DEF SwapsOut, SwapsIn, Becomes
  <2>4. QED
    BY <1>1, <2>1, <2>3, MoveKeepsSharing DEF IInv
<1>2. ASSUME UNCHANGED vars, NEW s \in Seqs
      PROVE  ~Moved(s)
  BY <1>2 DEF vars, SwapsOut, SwapsIn, Becomes
<1>3. IInv /\ [Next]_vars =>
        [\A s, q \in Seqs :
            (\A r \in {s, q} : \/ Becomes(r, "RUNNING", "SWAPPED")
                               \/ Becomes(r, "SWAPPED", "RUNNING")) =>
            \A i \in DOMAIN blockTables[s] \cap DOMAIN blockTables[q] :
                (blockTables[s][i] = blockTables[q][i])
                    <=> (blockTables'[s][i] = blockTables'[q][i])]_vars
  BY <1>1, <1>2 DEF SwapsOut, SwapsIn
<1>4. QED
  BY <1>3, Invariant, PTL DEF Spec, SwapKeepsSharing

\* Admitting a waiting group leaves the watermark.
LEMMA AllocateLeavesRoom ==
    ASSUME IInv, IInv', NEW g \in Groups, Allocate(g)
    PROVE  /\ Cardinality(GpuFree') >= WatermarkBlocks
           /\ \A s \in Seqs : ~SwapsIn(s) /\ (Admitted(s) => GroupOf[s] = g)
<1> DEFINE W == SeqsWith(g, "WAITING")
<1>1. PICK s \in W : CanAllocate(g, s) = "OK" /\ AllocateTables(g, s)
  BY AllocateSucceeds
<1> DEFINE n == NumLogicalBlocks(s)
<1>2. n \in Nat
  BY <1>1, NumBlocksType DEF SeqsWith, NumLogicalBlocks, IInv, TypeOK, SequencesTypeOK
<1> HIDE DEF n
<1> DEFINE k == IF BlockSlidingWindow = 0 THEN n ELSE MinOf(n, BlockSlidingWindow)
<1>3. Cardinality(GpuFree) - k >= WatermarkBlocks
  BY <1>1 DEF CanAllocate, PromptBlocks, n
<1>4. PICK new \in Injection(1..k, GpuFree) :
        Update([b \in Range(new) |-> NumSeqs(g)], Never)
  BY <1>1 DEF AllocateTables, PromptBlocks, n
<1>k. k \in Nat
  BY <1>2, BlockManagerAssumption DEF MinOf
<1> HIDE DEF k
<1>5. freeBlocks' = freeBlocks \ Range(new)
  BY <1>4 DEF Update, Never
<1>6. GpuFree \ Range(new) \subseteq GpuFree' /\ freeBlocks' \subseteq Blocks
  BY <1>5 DEF GpuFree, IInv, TableInv, BlockTypeOK
<1>7. IsFiniteSet(1..k) /\ Cardinality(1..k) = k
  BY <1>k, FS_Interval
<1>8. Cardinality(GpuFree') >= WatermarkBlocks
  <2>1. /\ Cardinality(GpuFree') \in Nat /\ Cardinality(GpuFree) \in Nat
        /\ Cardinality(GpuFree') >= Cardinality(GpuFree) - k
    BY <1>4, <1>6, <1>7, TakeBlocks
  <2>2. QED
    BY <1>3, <1>k, <2>1, BlockManagerAssumption
<1>9. \A q \in Seqs : status'[q] = IF q \in W THEN "RUNNING" ELSE status[q]
  BY AllocateSucceeds DEF SetStatus
<1>10. QED
  BY <1>8, <1>9 DEF SwapsIn, Admitted, Becomes, SeqsWith

\* Swapping a group in leaves the watermark and a slot for each of its sequences.
LEMMA SwapInLeavesRoom ==
    ASSUME IInv, IInv', NEW g \in Groups, SwapIn(g),
           MoveTables(SeqsWith(g, "SWAPPED"), GpuFree),
           SetStatus(SeqsWith(g, "SWAPPED"), "RUNNING")
    PROVE  /\ Cardinality(GpuFree')
                >= WatermarkBlocks + Cardinality(SeqsWith(g, "SWAPPED"))
           /\ \A s \in Seqs : ~Admitted(s) /\ (SwapsIn(s) => s \in SeqsWith(g, "SWAPPED"))
<1> DEFINE S == SeqsWith(g, "SWAPPED")
<1>1. Cardinality(GpuFree') >= WatermarkBlocks + Cardinality(S)
  BY SwapInGrants DEF SwapIn
<1>2. \A q \in Seqs : status'[q] = IF q \in S THEN "RUNNING" ELSE status[q]
  BY DEF SetStatus
<1>3. QED
  BY <1>1, <1>2 DEF SwapsIn, Admitted, Becomes, SeqsWith

\* Whatever group a round admits, new or swapped, the watermark stays free, and a
\* swapped group can be given all its slots right away.
THEOREM AdmissionKeepsRoom ==
    ASSUME WindowsAreUnshared, OnlyBeamsBranch
    PROVE  Spec => AdmissionLeavesRoom
<1> DEFINE back(g) == {s \in Seqs : GroupOf[s] = g /\ Becomes(s, "SWAPPED", "RUNNING")}
           new(g) == {s \in Seqs : GroupOf[s] = g /\ Becomes(s, "WAITING", "RUNNING")}
<1>1. ASSUME IInv, IInv', Next, NEW g \in Groups, back(g) \cup new(g) # {}
      PROVE  Cardinality(GpuFree') >= WatermarkBlocks + Cardinality(back(g))
  <2>1. CASE back(g) # {}
    <3>1. PICK s \in Seqs : GroupOf[s] = g /\ SwapsIn(s)
      BY <2>1 DEF SwapsIn
    <3>2. PICK h \in Groups : /\ SwapIn(h) /\ MoveTables(SeqsWith(h, "SWAPPED"), GpuFree)
                              /\ SetStatus(SeqsWith(h, "SWAPPED"), "RUNNING")
      BY <1>1, <3>1, WhoMoves
    <3>3. /\ Cardinality(GpuFree') >= WatermarkBlocks + Cardinality(SeqsWith(h, "SWAPPED"))
          /\ back(g) \subseteq SeqsWith(h, "SWAPPED")
      BY <1>1, <3>2, SwapInLeavesRoom DEF SwapsIn
    <3>4. /\ Cardinality(back(g)) \in Nat /\ Cardinality(SeqsWith(h, "SWAPPED")) \in Nat
          /\ Cardinality(back(g)) <= Cardinality(SeqsWith(h, "SWAPPED"))
      BY <3>3, SeqSetsFinite, FS_Subset DEF SeqsWith
    <3>5. Cardinality(GpuFree') \in Nat
      <4>1. GpuFree' \in SUBSET GpuBlocks
        BY DEF GpuFree
      <4>2. QED
        BY <4>1, BlockManagerAssumption, FS_Subset, FS_CardinalityType
    <3>6. QED
      BY <3>3, <3>4, <3>5, BlockManagerAssumption
  <2>2. CASE back(g) = {}
    <3>1. PICK s \in Seqs : Admitted(s)
      BY <1>1, <2>2 DEF Admitted
    <3>2. PICK h \in Groups : Allocate(h)
      BY <1>1, <3>1, WhoMoves
    <3>3. Cardinality(GpuFree') >= WatermarkBlocks
      BY <1>1, <3>2, AllocateLeavesRoom
    <3>4. Cardinality(back(g)) = 0
      BY <2>2, FS_EmptySet
    <3>5. QED
      BY <3>3, <3>4, BlockManagerAssumption
  <2>3. QED
    BY <2>1, <2>2
<1>2. ASSUME UNCHANGED vars, NEW g \in Groups
      PROVE  back(g) \cup new(g) = {}
  BY <1>2 DEF vars, Becomes
<1>3. IInv /\ IInv' /\ [Next]_vars =>
        [\A g \in Groups : back(g) \cup new(g) # {} =>
            Cardinality(GpuFree') >= WatermarkBlocks + Cardinality(back(g))]_vars
  BY <1>1
<1>4. QED
  BY <1>3, Invariant, PTL DEF Spec, AdmissionLeavesRoom
=============================================================================
