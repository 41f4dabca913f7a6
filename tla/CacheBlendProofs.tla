-------------------------- MODULE CacheBlendProofs --------------------------
(***************************************************************************)
(* Proofs about CacheBlend, for any samples, number of layers, ratio and   *)
(* number of tokens, with one check layer as in the code: selective        *)
(* recomputation keeps every layer's cache in order, mixes in reused       *)
(* entries only where it means to, and samples from the row of the last    *)
(* token.                                                                  *)
(*                                                                         *)
(* The properties follow from an invariant that says, for every point of   *)
(* the forward pass and of the script, what the rows, the metadata, the    *)
(* entries collected so far and the cache hold.                            *)
(***************************************************************************)
EXTENDS CacheBlend, FiniteSetTheorems, SequenceTheorems, WellFoundedInduction, TLAPS

\* cache_fuse_metadata["check_layers"] is [1] and nothing changes it.
OneCheckLayer == Cardinality(CheckLayers) = 1
-----------------------------------------------------------------------------
(***************************************************************************)
(* The inductive invariant                                                 *)
(***************************************************************************)

\* The positions of the whole text.
Whole == [p \in DOMAIN Text |-> p]

\* What is kept of the first n chunks of sample s behind BOS, whatever the
\* tokenizer makes of their texts joined: the tokens, and the entries of each as it
\* was collected in the text of its own chunk.
Kept(s, n) == <<BOS>> \o JoinChunks(s, n)
ChunkOf(t) == IF t = BOS THEN 1 ELSE t[2]
Collected(s, n) ==
    [p \in DOMAIN Kept(s, n) |->
        [tok |-> Kept(s, n)[p], ctx |-> <<s, ChunkOf(Kept(s, n)[p])>>, rot |-> << >>]]

\* What is set, and how far a generation is, follows from the step.
ScriptInv ==
    /\ (check <=> step = "blend" /\ generated = 0)
    /\ (collect <=> step = "collect")
    /\ generated <= Tokens /\ (pass # "none" => generated < Tokens)
    /\ step # "collect" => suffixLen \in 1..(Len(Text) - 1)

\* The indices are those of a selection that has the suffix in it.
Suffix == (Len(Text) - suffixLen + 1)..Len(Text)
Selection == {S \in SUBSET (1..Len(Text)) : Suffix \subseteq S}
Selected == step = "blend" /\ (generated > 0 \/ (pass = "prefill" /\ layer > MinCheckLayer))
SelectionInv == Selected => \E S \in Selection : impIndices = Sorted(S)

\* The rows of a pass are all of the text's, the selected ones or the one of the
\* last token.
RowsInv ==
    /\ hidden = residual
    /\ pass = "prefill" =>
         /\ generated = 0
         /\ Selected => /\ hidden = Select(Text, impIndices) /\ positions = impIndices
                        /\ temp \in {1, 2}
         /\ ~Selected => hidden = Text /\ positions = Whole /\ temp = 0
         /\ check => /\ orgPos = Whole
                     /\ checkLayerIdx = IF layer > MinCheckLayer THEN 1 ELSE 0
    /\ pass = "decode" =>
         /\ generated > 0 /\ temp = 3
         /\ hidden = <<Sampled(generated)>> /\ positions = <<Len(Text) + generated>>

\* What is collected is what was computed for the chunk; what was collected
\* waits, not yet rotated, until its layer takes it.
CollectInv ==
    \A i \in Layers :
        /\ step = "collect" /\ Written(i) => hackKv[i] = [p \in DOMAIN Text |-> Entry(Text[p])]
        /\ step = "collect" /\ chunk > 1 => oldKvs[i] = Collected(sample, chunk - 1)
        /\ check /\ (pass # "none" => i >= layer) => oldKvs[i] = Collected(sample, NumChunks)

\* How many positions of layer i are filled, and with what.
Filled(i) == IF generated = 0 THEN IF i < layer THEN Len(Text) ELSE 0
             ELSE IF pass = "decode" /\ i < layer THEN Len(Text) + generated
             ELSE Len(Text) + generated - 1
TokenAt(p) == IF p <= Len(Text) THEN Text[p] ELSE Sampled(p - Len(Text))
Reused(e, i, p) ==
    /\ step = "blend" /\ i > MinCheckLayer
    /\ p \notin Range(impIndices) /\ p <= Len(Text) - suffixLen
    /\ p \in 1..Len(Kept(sample, NumChunks))
    /\ e.tok = Kept(sample, NumChunks)[p] /\ e.ctx = <<sample, ChunkOf(e.tok)>>
Holds(e, i, p) ==
    /\ e.rot = <<p>>
    /\ (e.tok = TokenAt(p) /\ e.ctx = Context) \/ Reused(e, i, p)
CacheInv ==
    pass = "prefill" \/ generated > 0 =>
        \A i \in Layers : /\ DOMAIN cache[i] = 1..Filled(i)
                          /\ \A p \in 1..Filled(i) : Holds(cache[i][p], i, p)

SampleInv ==
    generated > 0 =>
        lastRow = IF generated = 1 THEN Text[Len(Text)] ELSE Sampled(generated - 1)

BlendInv ==
    /\ BlendTypeOK /\ ScriptInv /\ SelectionInv /\ RowsInv /\ CollectInv /\ CacheInv
    /\ SampleInv /\ NoBlendError
-----------------------------------------------------------------------------
(***************************************************************************)
(* The text                                                                *)
(***************************************************************************)

\* A set of naturals has a least element, so that what fails for no least n
\* holds for every n.
LEMMA LeastOf ==
    ASSUME NEW T \in SUBSET Nat, T # {}
    PROVE  \E x \in T : \A y \in T : x <= y
<1> DEFINE R == {ss \in Nat \X Nat : ss[1] < ss[2]}
<1>1. IsWellFoundedOn(R, Nat)
  BY NatLessThanWellFounded DEF OpToRel
<1>2. PICK x \in T : \A y \in T : ~(<<y, x>> \in R)
  BY <1>1, WFMin
<1>3. ASSUME NEW y \in T
      PROVE  x <= y
  <2>1. <<y, x>> \in Nat \X Nat /\ ~(<<y, x>> \in R)
    BY <1>2
  <2>2. ~(y < x)
    BY <2>1
  <2>3. QED
    BY <2>2
<1>4. QED
  BY <1>3

\* The recursive function in JoinChunks exists: it is put together from the
\* functions that satisfy its equation up to some n.
LEMMA JoinUnfolds ==
    ASSUME NEW s
    PROVE  /\ JoinChunks(s, 0) = << >>
           /\ \A n \in Nat : JoinChunks(s, n + 1)
                              = JoinChunks(s, n) \o ChunkTokens(s, n + 1, NumKept(s, n + 1))
<1> DEFINE K(c) == ChunkTokens(s, c, NumKept(s, c))
           Upto(n, g) == g = [c \in 0..n |-> IF c = 0 THEN << >> ELSE g[c - 1] \o K(c)]
           All(f) == f = [c \in Nat |-> IF c = 0 THEN << >> ELSE f[c - 1] \o K(c)]
           Without == {n \in Nat : ~ \E g : Upto(n, g)}
<1> HIDE DEF K
<1>1. Without = {}
  <2>1. SUFFICES ASSUME Without # {} PROVE FALSE
    OBVIOUS
  <2>2. PICK n \in Without : \A m \in Without : n <= m
    BY <2>1, LeastOf
  <2>3. n \in Nat /\ ~ \E g : Upto(n, g)
    BY <2>2
  <2>4. CASE n = 0
    <3> DEFINE g == [c \in 0..0 |-> << >>]
    <3>1. g[0] = << >> /\ 0..0 = {0}
      OBVIOUS
    <3>2. Upto(0, g)
      BY <3>1
    <3>3. QED
      BY <2>3, <2>4, <3>2
  <2>5. CASE n # 0
    <3>1. n - 1 \in Nat /\ ~(n <= n - 1)
      BY <2>3, <2>5
    <3>2. PICK h : Upto(n - 1, h)
      <4>1. n - 1 \notin Without
        BY <2>2, <3>1
      <4> HIDE DEF Upto
      <4>2. QED
        BY <3>1, <4>1
    <3> DEFINE g == [c \in 0..n |-> IF c = n THEN h[n - 1] \o K(n) ELSE h[c]]
    <3>3. \A c \in 0..(n - 1) : g[c] = h[c]
      BY <2>3
    <3>4. \A c \in 0..n : g[c] = IF c = 0 THEN << >> ELSE g[c - 1] \o K(c)
      <4> TAKE c \in 0..n
      <4>1. CASE c = n
        <5>1. g[n] = h[n - 1] \o K(n)
          BY <2>3
        <5>2. n - 1 \in 0..(n - 1)
          BY <3>1
        <5>3. QED
          BY <4>1, <5>1, <5>2, <3>3, <2>5
      <4>2. CASE c # n
        <5>1. c \in 0..(n - 1) /\ (c # 0 => c - 1 \in 0..(n - 1))
          BY <4>2, <2>3
        <5>2. h[c] = IF c = 0 THEN << >> ELSE h[c - 1] \o K(c)
          BY <5>1, <3>2
        <5>3. QED
          BY <5>1, <5>2, <3>3
      <4>3. QED
        BY <4>1, <4>2
    <3>5. Upto(n, g)
      BY <3>4
    <3>6. QED
      BY <2>3, <3>5
  <2>6. QED
    BY <2>4, <2>5
<1>2. ASSUME NEW n \in Nat, NEW m \in Nat, n <= m, NEW g, Upto(n, g), NEW h, Upto(m, h)
      PROVE  \A c \in 0..n : g[c] = h[c]
  <2> DEFINE D == {c \in 0..n : g[c] # h[c]}
  <2>1. SUFFICES ASSUME D # {} PROVE FALSE
    OBVIOUS
  <2>2. PICK c \in D : \A d \in D : c <= d
    <3>1. D \in SUBSET Nat
      OBVIOUS
    <3>2. QED
      BY <2>1, <3>1, LeastOf
  <2>3. g[c] = (IF c = 0 THEN << >> ELSE g[c - 1] \o K(c))
    <3>1. c \in 0..n
      BY <2>2
    <3>2. QED
      BY <1>2, <3>1, Zenon
  <2>4. c \in 0..m
    BY <1>2, <2>2
  <2>5. h[c] = (IF c = 0 THEN << >> ELSE h[c - 1] \o K(c))
    BY <1>2, <2>4, Zenon
  <2>6. c # 0 /\ c - 1 \in 0..n
    BY <2>2, <2>3, <2>5
  <2>7. g[c - 1] = h[c - 1]
    BY <2>2, <2>6
  <2>8. QED
    BY <2>2, <2>3, <2>5, <2>6, <2>7
<1> DEFINE G(n) == CHOOSE g : Upto(n, g)
           f == [n \in Nat |-> G(n)[n]]
<1>3. \A n \in Nat : Upto(n, G(n))
  BY <1>1
<1> HIDE DEF Without, G
<1>4. \A c \in Nat : f[c] = IF c = 0 THEN << >> ELSE f[c - 1] \o K(c)
  <2> TAKE c \in Nat
  <2>1. f[c] = G(c)[c]
    OBVIOUS
  <2>2. G(c)[c] = (IF c = 0 THEN << >> ELSE G(c)[c - 1] \o K(c))
    <3>1. c \in 0..c
      OBVIOUS
    <3>2. Upto(c, G(c))
      BY <1>3
    <3>3. QED
      BY <3>1, <3>2, Zenon
  <2>3. ASSUME c # 0
        PROVE  G(c)[c - 1] = f[c - 1]
    <3>1. c - 1 \in Nat /\ c - 1 <= c /\ c - 1 \in 0..(c - 1)
      BY <2>3
    <3>2. Upto(c - 1, G(c - 1)) /\ Upto(c, G(c))
      BY <1>3, <3>1
    <3> HIDE DEF Upto
    <3>3. \A d \in 0..(c - 1) : G(c - 1)[d] = G(c)[d]
      BY <1>2, <3>1, <3>2
    <3>4. QED
      BY <3>1, <3>3
  <2>4. QED
    BY <2>1, <2>2, <2>3
<1>5. All(f)
  BY <1>4
<1> DEFINE join == CHOOSE g : All(g)
<1>6. All(join)
  BY <1>5
<1>7. \A n : JoinChunks(s, n) = join[n]
  BY DEF JoinChunks, K
<1> HIDE DEF f, join
<1>8. join[0] = << >> /\ \A n \in Nat : join[n + 1] = join[n] \o K(n + 1)
  <2>1. \A c \in Nat : join[c] = IF c = 0 THEN << >> ELSE join[c - 1] \o K(c)
    BY <1>6, Zenon
  <2>2. \A n \in Nat : n + 1 \in Nat /\ n + 1 # 0 /\ (n + 1) - 1 = n
    OBVIOUS
  <2> HIDE DEF All
  <2>3. QED
    BY <2>1, <2>2
<1>9. QED
  BY <1>7, <1>8 DEF K

\* The samples have chunks and the chunks have tokens.
LEMMA SampleIs ==
    ASSUME NEW s \in DOMAIN Samples
    PROVE  /\ s \in Nat \ {0} /\ Len(Samples[s]) \in Nat \ {0}
           /\ DOMAIN Samples[s] = 1..Len(Samples[s])
           /\ \A c \in 1..Len(Samples[s]) : Samples[s][c] \in Nat \ {0}
<1>1. Samples \in Seq(Seq(Nat \ {0}) \ {<< >>})
  BY CacheBlendAssumption
<1>2. s \in 1..Len(Samples) /\ Len(Samples) \in Nat
  BY <1>1
<1>3. Samples[s] \in Seq(Nat \ {0}) /\ Samples[s] # << >>
  BY <1>1, <1>2
<1> HIDE DEF TokenSet
<1>4. QED
  BY <1>2, <1>3, EmptySeq

LEMMA ChunkIs ==
    ASSUME NEW s \in Nat, NEW c \in Nat, NEW n \in Nat
    PROVE  /\ ChunkTokens(s, c, n) \in Seq(TokenSet)
           /\ Len(ChunkTokens(s, c, n)) = n
           /\ DOMAIN ChunkTokens(s, c, n) = 1..n
           /\ \A j \in 1..n : ChunkTokens(s, c, n)[j] = <<s, c, j>>
<1>1. \A j \in 1..n : <<s, c, j>> \in TokenSet
  BY DEF TokenSet
<1>2. QED
  BY <1>1 DEF ChunkTokens

\* What the tokenizer reads: of every chunk as many tokens as are kept at least,
\* and a prompt of different tokens that ends behind the query's.
LEMMA ReadsAre ==
    ASSUME NEW s \in DOMAIN Samples
    PROVE  /\ \A c \in 1..Len(Samples[s]) :
                /\ NumRead(s, c) \in Nat /\ NumKept(s, c) \in 0..NumRead(s, c)
                /\ MinOf(Samples[s][c] + 1, NumRead(s, c) + 1) = NumKept(s, c) + 1
           /\ Reads[s].prompt \in Seq(TokenSet)
           /\ \A p \in 1..Len(Reads[s].prompt) : Reads[s].prompt[p][1] # 0
           /\ \A p, q \in 1..Len(Reads[s].prompt) : Reads[s].prompt[p] = Reads[s].prompt[q] => p = q
           /\ Samples[s][Len(Samples[s])] \in 1..Len(Reads[s].prompt)
<1> DEFINE a == Reads[s].alone
           r == Reads[s].prompt
           m == Len(Samples[s])
<1>1. /\ m \in Nat \ {0} /\ \A c \in 1..m : Samples[s][c] \in Nat \ {0}
  BY SampleIs
<1>2. s \in DOMAIN Reads
  <2>1. /\ Samples \in Seq(Seq(Nat \ {0}) \ {<< >>}) /\ Len(Reads) = Len(Samples)
        /\ Reads \in Seq([alone : Seq(Nat), prompt : Seq(Nat \X Nat \X Nat)])
    BY CacheBlendAssumption
  <2>2. DOMAIN Samples = 1..Len(Samples) /\ DOMAIN Reads = 1..Len(Reads)
    BY <2>1
  <2>3. QED
    BY <2>1, <2>2
<1>3. Reads[s] \in [alone : Seq(Nat), prompt : Seq(Nat \X Nat \X Nat)]
  <2> DEFINE R == [alone : Seq(Nat), prompt : Seq(Nat \X Nat \X Nat)]
  <2>1. Reads \in Seq(R)
    BY CacheBlendAssumption
  <2> HIDE DEF R
  <2>2. DOMAIN Reads = 1..Len(Reads)
    BY <2>1
  <2>3. Reads[s] \in R
    BY <1>2, <2>1, <2>2, ElementOfSeq
  <2>4. QED
    BY <2>3 DEF R
<1>4. a \in Seq(Nat) /\ r \in Seq(TokenSet)
  BY <1>3 DEF TokenSet
<1>5. /\ Len(a) = m /\ IsInjective(r)
      /\ Range(r) \subseteq (Nat \ {0}) \X Nat \X (Nat \ {0})
      /\ Len(r) >= Samples[s][m]
  BY CacheBlendAssumption
<1> HIDE DEF a, r, m
<1>6. DOMAIN r = 1..Len(r) /\ Len(r) \in Nat
  BY <1>4
<1>7. \A p \in 1..Len(r) : r[p][1] # 0
  <2> TAKE p \in 1..Len(r)
  <2>1. r[p] \in (Nat \ {0}) \X Nat \X (Nat \ {0})
    BY <1>5, <1>6 DEF Range
  <2>2. QED
    BY <2>1
<1>8. \A p, q \in 1..Len(r) : r[p] = r[q] => p = q
  BY <1>5, <1>6 DEF IsInjective
<1>9. ASSUME NEW c \in 1..m
      PROVE  /\ NumRead(s, c) \in Nat /\ NumKept(s, c) \in 0..NumRead(s, c)
             /\ MinOf(Samples[s][c] + 1, NumRead(s, c) + 1) = NumKept(s, c) + 1
  <2>1. NumRead(s, c) \in Nat
    BY <1>4, <1>5 DEF NumRead, a
  <2> DEFINE k == NumRead(s, c)
             d == Samples[s][c]
  <2>2. k \in Nat /\ d \in Nat /\ NumKept(s, c) = MinOf(d, k)
    BY <1>1, <2>1 DEF NumKept
  <2> HIDE DEF k, d
  <2>3. MinOf(d, k) \in 0..k /\ MinOf(d + 1, k + 1) = MinOf(d, k) + 1
    BY <2>2 DEF MinOf
  <2>4. QED
    BY <2>2, <2>3 DEF k, d
<1>10. Samples[s][m] \in 1..Len(r)
  BY <1>1, <1>5, <1>6
<1>11. QED
  BY <1>4, <1>7, <1>8, <1>9, <1>10 DEF r, m

\* The joined tokens are those of chunks.
OfChunks(j, n) == j \in Seq(TokenSet) /\ \A p \in 1..Len(j) : j[p][2] \in 1..n

LEMMA JoinStep ==
    ASSUME NEW s \in DOMAIN Samples, NEW n \in Nat, n + 1 \in 1..Len(Samples[s]),
           OfChunks(JoinChunks(s, n), n)
    PROVE  OfChunks(JoinChunks(s, n + 1), n + 1)
<1> DEFINE j == JoinChunks(s, n)
           k == ChunkTokens(s, n + 1, NumKept(s, n + 1))
           m == JoinChunks(s, n + 1)
           d == NumKept(s, n + 1)
<1>1. m = j \o k
  BY JoinUnfolds
<1>2. d \in Nat /\ s \in Nat /\ n + 1 \in Nat
  BY ReadsAre, SampleIs
<1>3. /\ k \in Seq(TokenSet) /\ Len(k) = d
      /\ \A i \in 1..d : k[i] = <<s, n + 1, i>>
  BY <1>2, ChunkIs
<1>4. j \in Seq(TokenSet) /\ Len(j) \in Nat /\ \A p \in 1..Len(j) : j[p][2] \in 1..n
  BY DEF OfChunks
<1> HIDE DEF j, k, m, d
<1>5. /\ m \in Seq(TokenSet) /\ Len(m) = Len(j) + d
      /\ \A p \in 1..(Len(j) + d) : m[p] = IF p <= Len(j) THEN j[p] ELSE k[p - Len(j)]
  <2>1. j \in Seq(TokenSet) /\ k \in Seq(TokenSet)
    BY <1>3, <1>4
  <2>2. m \in Seq(TokenSet) /\ Len(m) = Len(j) + Len(k)
    BY <1>1, <2>1, ConcatProperties
  <2>3. \A p \in 1..(Len(j) + Len(k)) : m[p] = IF p <= Len(j) THEN j[p] ELSE k[p - Len(j)]
    BY <1>1, <2>1, ConcatProperties
  <2>4. QED
    BY <2>2, <2>3, <1>3
<1>6. ASSUME NEW p \in 1..Len(m)
      PROVE  m[p][2] \in 1..(n + 1)
  <2>1. CASE p <= Len(j)
    <3>1. p \in 1..Len(j) /\ m[p] = j[p]
      BY <2>1, <1>4, <1>5
    <3>2. QED
      BY <3>1, <1>4
  <2>2. CASE ~(p <= Len(j))
    <3>1. p - Len(j) \in 1..d /\ m[p] = k[p - Len(j)]
      BY <2>2, <1>2, <1>4, <1>5
    <3>2. m[p][2] = n + 1
      BY <3>1, <1>3
    <3>3. QED
      BY <3>2
  <2>3. QED
    BY <2>1, <2>2
<1>7. QED
  BY <1>5, <1>6 DEF OfChunks, m

LEMMA JoinIs ==
    ASSUME NEW s \in DOMAIN Samples
    PROVE  \A n \in 0..Len(Samples[s]) : OfChunks(JoinChunks(s, n), n)
<1> DEFINE F == {n \in 0..Len(Samples[s]) : ~OfChunks(JoinChunks(s, n), n)}
<1>1. SUFFICES ASSUME F # {} PROVE FALSE
  OBVIOUS
<1>2. Len(Samples[s]) \in Nat
  BY SampleIs
<1>3. PICK n \in F : \A m \in F : n <= m
  <2>1. F \in SUBSET Nat
    BY <1>2
  <2>2. QED
    BY <1>1, <2>1, LeastOf
<1>4. CASE n = 0
  <2>1. OfChunks(<< >>, 0)
    BY DEF OfChunks
  <2>2. QED
    BY <2>1, <1>3, <1>4, JoinUnfolds
<1>5. CASE n # 0
  <2>1. n - 1 \in Nat /\ n - 1 \in 0..Len(Samples[s]) /\ (n - 1) + 1 = n /\ ~(n <= n - 1)
    BY <1>2, <1>3, <1>5
  <2>2. n - 1 \notin F
    BY <2>1, <1>3
  <2>3. OfChunks(JoinChunks(s, n - 1), n - 1)
    BY <2>1, <2>2
  <2>4. n \in 1..Len(Samples[s])
    BY <1>2, <1>3, <1>5
  <2>5. OfChunks(JoinChunks(s, n), n)
    <3>1. \A k \in Nat : k + 1 \in 1..Len(Samples[s]) /\ OfChunks(JoinChunks(s, k), k)
            => OfChunks(JoinChunks(s, k + 1), k + 1)
      BY JoinStep
    <3> HIDE DEF F
    <3>2. OfChunks(JoinChunks(s, (n - 1) + 1), (n - 1) + 1)
      BY <3>1, <2>1, <2>3, <2>4
    <3>3. QED
      BY <3>2, <2>1
  <2>6. QED
    BY <2>5, <1>3
<1>6. QED
  BY <1>4, <1>5

\* Behind BOS different tokens of a sample make a text: none is BOS again, nor a
\* sampled one.
IsText(x) ==
    /\ x \in Seq(TokenSet) /\ Len(x) \in Nat /\ Len(x) >= 1 /\ DOMAIN x = 1..Len(x)
    /\ x[1] = BOS
    /\ \A p, q \in 1..Len(x) : x[p] = x[q] => p = q
    /\ \A p \in 1..Len(x) : \A n \in Nat \ {0} : x[p] # Sampled(n)

LEMMA BOSThen ==
    ASSUME NEW j \in Seq(TokenSet)
    PROVE  /\ <<BOS>> \o j \in Seq(TokenSet) /\ Len(<<BOS>> \o j) = Len(j) + 1
           /\ (<<BOS>> \o j)[1] = BOS
           /\ \A p \in 2..(Len(j) + 1) : p - 1 \in 1..Len(j) /\ (<<BOS>> \o j)[p] = j[p - 1]
           /\ \A p \in 1..Len(<<BOS>> \o j) : p = 1 \/ p \in 2..(Len(j) + 1)
<1> DEFINE x == <<BOS>> \o j
<1>1. <<BOS>> \in Seq(TokenSet) /\ Len(<<BOS>>) = 1 /\ <<BOS>>[1] = BOS /\ Len(j) \in Nat
  BY DEF BOS, TokenSet
<1>2. x \in Seq(TokenSet) /\ Len(x) = Len(j) + 1
  BY <1>1, ConcatProperties
<1>3. \A p \in 1..(1 + Len(j)) : x[p] = IF p <= 1 THEN <<BOS>>[p] ELSE j[p - 1]
  BY <1>1, ConcatProperties
<1> HIDE DEF x
<1>4. x[1] = BOS
  BY <1>1, <1>3
<1>5. \A p \in 2..(Len(j) + 1) : p \in 1..(1 + Len(j)) /\ ~(p <= 1) /\ p - 1 \in 1..Len(j)
  BY <1>1
<1>6. \A p \in 2..(Len(j) + 1) : p - 1 \in 1..Len(j) /\ x[p] = j[p - 1]
  BY <1>3, <1>5
<1>7. \A p \in 1..Len(x) : p = 1 \/ p \in 2..(Len(j) + 1)
  BY <1>1, <1>2
<1>8. QED
  BY <1>2, <1>4, <1>6, <1>7 DEF x

LEMMA BehindBOS ==
    ASSUME NEW j \in Seq(TokenSet), \A p \in 1..Len(j) : j[p][1] # 0,
           \A p, q \in 1..Len(j) : j[p] = j[q] => p = q
    PROVE  IsText(<<BOS>> \o j)
<1> DEFINE x == <<BOS>> \o j
<1>1. /\ x \in Seq(TokenSet) /\ Len(x) = Len(j) + 1 /\ x[1] = BOS
      /\ \A p \in 2..(Len(j) + 1) : p - 1 \in 1..Len(j) /\ x[p] = j[p - 1]
      /\ \A p \in 1..Len(x) : p = 1 \/ p \in 2..(Len(j) + 1)
  BY BOSThen
<1> HIDE DEF x
<1>2. \A p \in 2..(Len(j) + 1) : x[p][1] # 0
  BY <1>1
<1>3. BOS[1] = 0 /\ BOS[3] = 0 /\ \A k : Sampled(k)[1] = 0 /\ Sampled(k)[3] = k
  BY DEF BOS, Sampled
<1>4. \A p, q \in 1..Len(x) : x[p] = x[q] => p = q
  <2> TAKE p, q \in 1..Len(x)
  <2> HAVE x[p] = x[q]
  <2>1. CASE p = 1
    BY <2>1, <1>1, <1>2, <1>3
  <2>2. CASE q = 1
    BY <2>2, <1>1, <1>2, <1>3
  <2>3. CASE p # 1 /\ q # 1
    <3>1. p \in 2..(Len(j) + 1) /\ q \in 2..(Len(j) + 1)
      BY <2>3, <1>1
    <3>2. j[p - 1] = j[q - 1] /\ p - 1 \in 1..Len(j) /\ q - 1 \in 1..Len(j)
      BY <3>1, <1>1
    <3>3. p - 1 = q - 1
      BY <3>2
    <3>4. QED
      BY <3>1, <3>3
  <2>4. QED
    BY <2>1, <2>2, <2>3
<1>5. \A p \in 1..Len(x) : \A k \in Nat \ {0} : x[p] # Sampled(k)
  <2> TAKE p \in 1..Len(x)
  <2> TAKE k \in Nat \ {0}
  <2>1. CASE p = 1
    BY <2>1, <1>1, <1>3
  <2>2. CASE p # 1
    BY <2>2, <1>1, <1>2, <1>3
  <2>3. QED
    BY <2>1, <2>2
<1>6. DOMAIN x = 1..Len(x) /\ Len(x) \in Nat /\ Len(x) >= 1
  <2>1. Len(j) \in Nat
    OBVIOUS
  <2>2. QED
    BY <1>1, <2>1
<1>7. QED
  BY <1>1, <1>4, <1>5, <1>6 DEF IsText, x

\* The texts the script generates from.
LEMMA ChunkText ==
    ASSUME NEW s \in DOMAIN Samples, NEW c \in 1..Len(Samples[s])
    PROVE  LET x == <<BOS>> \o ChunkTokens(s, c, NumRead(s, c)) IN
           /\ IsText(x) /\ Len(x) = NumRead(s, c) + 1
           /\ \A p \in 2..Len(x) : x[p] = <<s, c, p - 1>>
<1> DEFINE r == NumRead(s, c)
           j == ChunkTokens(s, c, r)
           x == <<BOS>> \o j
<1>1. s \in Nat \ {0} /\ r \in Nat /\ c \in Nat
  BY SampleIs, ReadsAre
<1>2. j \in Seq(TokenSet) /\ Len(j) = r /\ \A i \in 1..r : j[i] = <<s, c, i>>
  <2> HIDE DEF r
  <2>1. QED
    BY <1>1, ChunkIs
<1> HIDE DEF j, r
<1>3. /\ \A p \in 1..Len(j) : j[p][1] # 0
      /\ \A p, q \in 1..Len(j) : j[p] = j[q] => p = q
  BY <1>1, <1>2
<1>4. IsText(x)
  BY <1>2, <1>3, BehindBOS
<1>5. /\ Len(x) = Len(j) + 1
      /\ \A p \in 2..(Len(j) + 1) : p - 1 \in 1..Len(j) /\ x[p] = j[p - 1]
  BY <1>2, BOSThen
<1> HIDE DEF x
<1>6. IsText(x) /\ Len(x) = r + 1 /\ \A p \in 2..Len(x) : x[p] = <<s, c, p - 1>>
  BY <1>2, <1>4, <1>5
<1>7. QED
  BY <1>6 DEF x, j, r

LEMMA PromptText ==
    ASSUME NEW s \in DOMAIN Samples
    PROVE  LET x == <<BOS>> \o Reads[s].prompt IN
           /\ IsText(x) /\ Len(x) = Len(Reads[s].prompt) + 1
           /\ Samples[s][Len(Samples[s])] \in 1..(Len(x) - 1)
<1> DEFINE j == Reads[s].prompt
           x == <<BOS>> \o j
           d == Samples[s][Len(Samples[s])]
<1>1. /\ j \in Seq(TokenSet) /\ \A p \in 1..Len(j) : j[p][1] # 0
      /\ \A p, q \in 1..Len(j) : j[p] = j[q] => p = q
      /\ d \in 1..Len(j)
  BY ReadsAre
<1> HIDE DEF j, d
<1>2. IsText(x) /\ Len(x) = Len(j) + 1
  BY <1>1, BehindBOS, BOSThen
<1> HIDE DEF x
<1>3. d \in 1..(Len(x) - 1)
  BY <1>1, <1>2
<1>4. QED
  BY <1>2, <1>3 DEF x, j, d

\* What is kept: the tokens of one chunk more are joined to it, and BOS is the
\* only token that is of no chunk.
LEMMA KeptIs ==
    ASSUME NEW s \in DOMAIN Samples, NEW n \in 1..Len(Samples[s])
    PROVE  /\ Kept(s, n) \in Seq(TokenSet) /\ Len(Kept(s, n)) = Len(JoinChunks(s, n)) + 1
           /\ Len(Kept(s, n)) \in Nat /\ Len(Kept(s, n)) >= 1
           /\ DOMAIN Kept(s, n) = 1..Len(Kept(s, n))
           /\ \A p \in 1..Len(Kept(s, n)) : ChunkOf(Kept(s, n)[p]) \in Nat \ {0}
           /\ Kept(s, n) = (IF n = 1 THEN <<BOS>> ELSE Kept(s, n - 1))
                              \o ChunkTokens(s, n, NumKept(s, n))
<1> DEFINE j == JoinChunks(s, n)
           i == JoinChunks(s, n - 1)
           d == NumKept(s, n)
           k == ChunkTokens(s, n, d)
           x == Kept(s, n)
<1>1. /\ s \in Nat \ {0} /\ n \in Nat \ {0} /\ n - 1 \in Nat /\ (n - 1) + 1 = n
      /\ d \in Nat /\ n \in 0..Len(Samples[s]) /\ n - 1 \in 0..Len(Samples[s])
  BY SampleIs, ReadsAre
<1>2. OfChunks(j, n) /\ OfChunks(i, n - 1)
  BY <1>1, JoinIs
<1>3. j = i \o k /\ JoinChunks(s, 0) = << >>
  <2>1. \A m \in Nat : JoinChunks(s, m + 1)
                          = JoinChunks(s, m) \o ChunkTokens(s, m + 1, NumKept(s, m + 1))
    BY JoinUnfolds
  <2>2. JoinChunks(s, (n - 1) + 1)
          = JoinChunks(s, n - 1) \o ChunkTokens(s, (n - 1) + 1, NumKept(s, (n - 1) + 1))
    BY <2>1, <1>1
  <2>3. QED
    BY <2>2, <1>1, JoinUnfolds
<1>4. k \in Seq(TokenSet)
  <2> HIDE DEF d
  <2>1. QED
    BY <1>1, ChunkIs
<1>5. j \in Seq(TokenSet) /\ i \in Seq(TokenSet) /\ \A p \in 1..Len(j) : j[p][2] \in 1..n
  BY <1>2 DEF OfChunks
<1>6. /\ x \in Seq(TokenSet) /\ Len(x) = Len(j) + 1 /\ x[1] = BOS
      /\ \A p \in 2..(Len(j) + 1) : p - 1 \in 1..Len(j) /\ x[p] = j[p - 1]
      /\ \A p \in 1..Len(x) : p = 1 \/ p \in 2..(Len(j) + 1)
  BY <1>5, BOSThen DEF Kept
<1>7. x = (IF n = 1 THEN <<BOS>> ELSE Kept(s, n - 1)) \o k
  <2>1. <<BOS>> \in Seq(TokenSet)
    BY DEF BOS, TokenSet
  <2>2. <<BOS>> \o (i \o k) = (<<BOS>> \o i) \o k
    <3>1. i \in Seq(TokenSet) /\ k \in Seq(TokenSet)
      BY <1>4, <1>5
    <3> HIDE DEF i, j, k
    <3> DEFINE b == <<BOS>>
    <3>2. b \in Seq(TokenSet)
      BY <2>1
    <3> HIDE DEF b
    <3>3. (b \o i) \o k = b \o (i \o k)
      BY <3>1, <3>2, ConcatAssociative, SMTT(30)
    <3>4. QED
      BY <3>3, Zenon DEF b
  <2>3. CASE n = 1
    <3>1. i = << >>
      BY <1>3, <2>3
    <3>2. << >> \o k = k
      <4> HIDE DEF k
      <4>1. QED
        BY <1>4, ConcatEmptySeq
    <3>3. QED
      BY <2>3, <3>1, <3>2, <1>3 DEF Kept
  <2>4. CASE n # 1
    BY <2>4, <2>2, <1>3 DEF Kept
  <2>5. QED
    BY <2>3, <2>4
<1> HIDE DEF j, i, k, x
<1>8. /\ Len(x) \in Nat /\ Len(x) >= 1 /\ DOMAIN x = 1..Len(x)
  <2>1. Len(j) \in Nat
    BY <1>5
  <2>2. QED
    BY <1>6, <2>1
<1>9. \A p \in 1..Len(x) : ChunkOf(x[p]) \in Nat \ {0}
  <2> TAKE p \in 1..Len(x)
  <2>1. CASE x[p] = BOS
    BY <2>1 DEF ChunkOf
  <2>2. CASE x[p] # BOS
    <3>1. p - 1 \in 1..Len(j) /\ x[p] = j[p - 1]
      BY <2>2, <1>6
    <3>2. x[p][2] \in 1..n
      BY <3>1, <1>5
    <3>3. QED
      BY <2>2, <3>2, <1>1 DEF ChunkOf
  <2>3. QED
    BY <2>1, <2>2
<1>10. QED
  BY <1>6, <1>7, <1>8, <1>9 DEF x, j, k

\* The entries collected up to chunk n: those of the chunk are joined to those of
\* the chunks before it.
LEMMA CollectedIs ==
    ASSUME NEW s \in DOMAIN Samples, NEW n \in 1..Len(Samples[s])
    PROVE  /\ Collected(s, n) \in Seq(Entries)
           /\ DOMAIN Collected(s, n) = 1..Len(Kept(s, n))
           /\ Len(Collected(s, n)) = Len(Kept(s, n))
<1> DEFINE x == Kept(s, n)
<1>1. s \in Nat
  BY SampleIs
<1>2. /\ x \in Seq(TokenSet) /\ Len(x) \in Nat /\ DOMAIN x = 1..Len(x)
      /\ \A p \in 1..Len(x) : ChunkOf(x[p]) \in Nat
  BY KeptIs
<1> HIDE DEF x
<1>3. \A p \in 1..Len(x) : [tok |-> x[p], ctx |-> <<s, ChunkOf(x[p])>>, rot |-> << >>] \in Entries
  <2> TAKE p \in 1..Len(x)
  <2>1. x[p] \in TokenSet
    BY <1>2
  <2>2. <<s, ChunkOf(x[p])>> \in Nat \X Nat /\ << >> \in Seq(Nat)
    BY <1>1, <1>2
  <2>3. QED
    BY <2>1, <2>2 DEF Entries
<1> DEFINE e == [p \in DOMAIN x |-> [tok |-> x[p], ctx |-> <<s, ChunkOf(x[p])>>, rot |-> << >>]]
<1>4. e \in [1..Len(x) -> Entries]
  BY <1>2, <1>3
<1>5. e \in Seq(Entries) /\ DOMAIN e = 1..Len(x)
  BY <1>2, <1>4
<1>6. Len(e) = Len(x)
  <2> HIDE DEF e
  <2>1. QED
    BY <1>2, <1>5, LenProperties
<1>7. Collected(s, n) = e
  BY DEF Collected, x
<1>8. QED
  BY <1>5, <1>6, <1>7 DEF x

\* What a run of the chunk alone computes.
ChunkEntries(s, n) ==
    [p \in 1..(NumRead(s, n) + 1) |->
        [tok |-> (<<BOS>> \o ChunkTokens(s, n, NumRead(s, n)))[p], ctx |-> <<s, n>>,
         rot |-> << >>]]

LEMMA CollectedStep ==
    ASSUME NEW s \in DOMAIN Samples, NEW n \in 1..Len(Samples[s])
    PROVE  /\ Len(ChunkEntries(s, n)) = NumRead(s, n) + 1
           /\ Collected(s, n) =
                (IF n = 1 THEN << >> ELSE Collected(s, n - 1))
                  \o SubSeq(ChunkEntries(s, n), IF n = 1 THEN 1 ELSE 2, NumKept(s, n) + 1)
<1> DEFINE h == ChunkEntries(s, n)
           d == NumKept(s, n)
           r == NumRead(s, n)
           x == <<BOS>> \o ChunkTokens(s, n, r)
           y == Kept(s, n)
           z == Kept(s, n - 1)
           k == ChunkTokens(s, n, d)
           e == Collected(s, n)
           f == Collected(s, n - 1)
           G(t) == [tok |-> t, ctx |-> <<s, ChunkOf(t)>>, rot |-> << >>]
<1>1. /\ s \in Nat \ {0} /\ n \in Nat \ {0} /\ r \in Nat /\ d \in Nat /\ d <= r
      /\ (n # 1 => n - 1 \in 1..Len(Samples[s]))
  BY SampleIs, ReadsAre
<1>2. /\ IsText(x) /\ Len(x) = r + 1
      /\ \A p \in 2..Len(x) : x[p] = <<s, n, p - 1>>
  BY ChunkText
<1>3. y = (IF n = 1 THEN <<BOS>> ELSE z) \o k /\ Len(y) \in Nat /\ DOMAIN y = 1..Len(y)
  BY KeptIs
<1>4. e \in Seq(Entries) /\ DOMAIN e = 1..Len(y) /\ Len(e) = Len(y)
  BY CollectedIs
<1>5. \A p \in 1..Len(y) : e[p] = G(y[p])
  BY <1>3 DEF Collected
<1>6. n # 1 => /\ f \in Seq(Entries) /\ DOMAIN f = 1..Len(z) /\ Len(f) = Len(z)
               /\ Len(z) \in Nat /\ Len(z) >= 1 /\ z \in Seq(TokenSet)
               /\ \A p \in 1..Len(z) : f[p] = G(z[p])
  <2> HAVE n # 1
  <2>1. n - 1 \in 1..Len(Samples[s])
    BY <1>1
  <2>2. f \in Seq(Entries) /\ DOMAIN f = 1..Len(z) /\ Len(f) = Len(z)
    BY <2>1, CollectedIs
  <2>3. Len(z) \in Nat /\ Len(z) >= 1 /\ z \in Seq(TokenSet) /\ DOMAIN z = 1..Len(z)
    BY <2>1, KeptIs
  <2>4. \A p \in 1..Len(z) : f[p] = G(z[p])
    BY <2>3 DEF Collected
  <2>5. QED
    BY <2>2, <2>3, <2>4
<1>7. k \in Seq(TokenSet) /\ Len(k) = d /\ \A p \in 1..d : k[p] = <<s, n, p>>
  <2> HIDE DEF d
  <2>1. QED
    BY <1>1, ChunkIs
<1>8. x[1] = BOS
  BY <1>2 DEF IsText
<1>9. ChunkOf(BOS) = 1 /\ \A p \in 1..r : ChunkOf(<<s, n, p>>) = n
  BY <1>1 DEF ChunkOf, BOS
<1>10. /\ h \in Seq(Entries) /\ Len(h) = r + 1
       /\ \A p \in 1..(r + 1) : h[p] = [tok |-> x[p], ctx |-> <<s, n>>, rot |-> << >>]
  <2>1. \A p \in 1..(r + 1) : [tok |-> x[p], ctx |-> <<s, n>>, rot |-> << >>] \in Entries
    <3> TAKE p \in 1..(r + 1)
    <3>1. x[p] \in TokenSet
      BY <1>2 DEF IsText
    <3>2. <<s, n>> \in Nat \X Nat /\ << >> \in Seq(Nat)
      BY <1>1
    <3>3. QED
      BY <3>1, <3>2 DEF Entries
  <2> DEFINE g == [p \in 1..(r + 1) |-> [tok |-> x[p], ctx |-> <<s, n>>, rot |-> << >>]]
  <2>2. g \in [1..(r + 1) -> Entries] /\ h = g
    BY <2>1 DEF ChunkEntries
  <2>3. r + 1 \in Nat
    BY <1>1
  <2>4. \A p \in 1..(r + 1) : g[p] = [tok |-> x[p], ctx |-> <<s, n>>, rot |-> << >>]
    OBVIOUS
  <2>5. DOMAIN g = 1..(r + 1)
    OBVIOUS
  <2> HIDE DEF g, x, r
  <2>6. g \in Seq(Entries) /\ Len(g) = r + 1
    BY <2>2, <2>3, <2>5, LenProperties
  <2>7. QED
    BY <2>2, <2>4, <2>6
<1> HIDE DEF h, d, r, x, y, z, k, e, f
\* What is kept of the chunk: d entries behind the one of BOS.
<1>11. \A p \in 1..d : p + 1 \in 1..(r + 1) /\ p + 1 \in 2..Len(x) /\ (p + 1) - 1 = p
                        /\ h[p + 1] = G(k[p])
  <2> TAKE p \in 1..d
  <2>1. p + 1 \in 1..(r + 1) /\ p + 1 \in 2..Len(x) /\ (p + 1) - 1 = p /\ p \in 1..r
    BY <1>1, <1>2
  <2>2. h[p + 1] = [tok |-> x[p + 1], ctx |-> <<s, n>>, rot |-> << >>] /\ x[p + 1] = <<s, n, p>>
    BY <2>1, <1>2, <1>10
  <2>3. k[p] = <<s, n, p>> /\ ChunkOf(<<s, n, p>>) = n
    BY <2>1, <1>7, <1>9
  <2>4. QED
    BY <2>1, <2>2, <2>3
<1>12. CASE n = 1
  <2> DEFINE g == SubSeq(h, 1, d + 1)
  <2>1. /\ g \in Seq(Entries) /\ Len(g) = d + 1
        /\ \A p \in 1..(d + 1) : g[p] = h[p]
    <3> DEFINE u == 1
               v == d + 1
    <3>1. u \in Int /\ v \in Int /\ u <= v /\ v - u + 1 = d + 1
      BY <1>1
    <3>2. \A i \in u..v : h[i] \in Entries
      <4> TAKE i \in u..v
      <4>1. i \in 1..Len(h)
        BY <1>1, <1>10
      <4>2. QED
        BY <4>1, <1>10, ElementOfSeq
    <3>3. \A p \in 1..(d + 1) : u + p - 1 = p
      BY <1>1
    <3> HIDE DEF u, v
    <3>4. /\ SubSeq(h, u, v) \in Seq(Entries)
          /\ Len(SubSeq(h, u, v)) = IF u <= v THEN v - u + 1 ELSE 0
          /\ \A i \in 1..(v - u + 1) : SubSeq(h, u, v)[i] = h[u + i - 1]
      BY <3>1, <3>2, SubSeqProperties
    <3>5. QED
      BY <3>1, <3>3, <3>4 DEF u, v
  <2>2. /\ Len(y) = d + 1 /\ y[1] = BOS
        /\ \A p \in 2..(d + 1) : p - 1 \in 1..d /\ y[p] = k[p - 1]
    <3>1. y = <<BOS>> \o k
      BY <1>3, <1>12
    <3>2. QED
      BY <3>1, <1>7, BOSThen
  <2> HIDE DEF g
  <2>3. \A p \in 1..(d + 1) : e[p] = g[p]
    <3> TAKE p \in 1..(d + 1)
    <3>1. e[p] = G(y[p]) /\ g[p] = h[p]
      BY <1>5, <2>1, <2>2
    <3>2. CASE p = 1
      <4>1. h[1] = [tok |-> BOS, ctx |-> <<s, 1>>, rot |-> << >>]
        <5>1. 1 \in 1..(r + 1)
          BY <1>1
        <5>2. h[1] = [tok |-> x[1], ctx |-> <<s, n>>, rot |-> << >>]
          BY <5>1, <1>10
        <5>3. QED
          BY <5>2, <1>8, <1>12
      <4>2. e[p] = G(BOS) /\ g[p] = h[1]
        BY <3>1, <3>2, <2>2
      <4>3. QED
        BY <4>1, <4>2, <1>9
    <3>3. CASE p # 1
      <4>1. p \in 2..(d + 1)
        BY <3>3, <1>1
      <4> DEFINE i == p - 1
      <4>2. i \in 1..d /\ y[p] = k[i] /\ i + 1 = p
        BY <4>1, <2>2
      <4> HIDE DEF i
      <4>3. h[i + 1] = G(k[i])
        BY <4>2, <1>11
      <4>4. QED
        BY <3>1, <4>2, <4>3
    <3>4. QED
      BY <3>2, <3>3
  <2>4. e = g
    BY <2>1, <2>2, <2>3, <1>4, SeqEqual
  <2>5. << >> \o g = g
    BY <2>1, ConcatEmptySeq
  <2>6. QED
    BY <2>4, <2>5, <1>10, <1>12 DEF g, d, r, e, h
<1>13. CASE n # 1
  <2> DEFINE g == SubSeq(h, 2, d + 1)
             w == f \o g
  <2>1. /\ g \in Seq(Entries) /\ Len(g) = d
        /\ \A p \in 1..d : g[p] = h[p + 1]
    <3>1. d \in Nat /\ 2 \in Int /\ d + 1 \in Int /\ (2 <= d + 1 \/ d = 0)
          /\ (d + 1) - 2 + 1 = d
      BY <1>1
    <3>2. \A i \in 2..(d + 1) : h[i] \in Entries
      <4> TAKE i \in 2..(d + 1)
      <4>1. i \in 1..Len(h)
        BY <1>1, <1>10, <3>1
      <4>2. QED
        BY <4>1, <1>10, ElementOfSeq
    <3>3. /\ g \in Seq(Entries) /\ Len(g) = (IF 2 <= d + 1 THEN (d + 1) - 2 + 1 ELSE 0)
          /\ \A i \in 1..((d + 1) - 2 + 1) : g[i] = h[2 + i - 1]
      <4> HIDE DEF g
      <4>1. g = SubSeq(h, 2, d + 1)
        BY DEF g
      <4> DEFINE u == 2
                 v == d + 1
      <4>2. u \in Int /\ v \in Int /\ \A i \in u..v : h[i] \in Entries
        BY <3>1, <3>2
      <4> HIDE DEF u, v
      <4>3. /\ SubSeq(h, u, v) \in Seq(Entries)
            /\ Len(SubSeq(h, u, v)) = IF u <= v THEN v - u + 1 ELSE 0
            /\ \A i \in 1..(v - u + 1) : SubSeq(h, u, v)[i] = h[u + i - 1]
        BY <4>2, SubSeqProperties
      <4>4. QED
        BY <4>1, <4>3 DEF u, v
    <3> HIDE DEF g
    <3>4. g \in Seq(Entries) /\ Len(g) = d /\ \A i \in 1..d : g[i] = h[2 + i - 1]
      BY <3>1, <3>3
    <3>5. \A p \in 1..d : 2 + p - 1 = p + 1
      BY <3>1
    <3>6. QED
      BY <3>4, <3>5
  <2>2. f \in Seq(Entries) /\ Len(f) = Len(z) /\ Len(z) \in Nat
    BY <1>6, <1>13
  <2> HIDE DEF g
  <2>3. /\ w \in Seq(Entries) /\ Len(w) = Len(z) + d
        /\ \A p \in 1..(Len(z) + d) : w[p] = IF p <= Len(z) THEN f[p] ELSE g[p - Len(z)]
    <3>1. /\ w \in Seq(Entries) /\ Len(w) = Len(f) + Len(g)
          /\ \A p \in 1..(Len(f) + Len(g)) : w[p] = IF p <= Len(f) THEN f[p] ELSE g[p - Len(f)]
      <4>1. f \in Seq(Entries) /\ g \in Seq(Entries)
        BY <2>1, <2>2
      <4>2. QED
        BY <4>1, ConcatProperties
    <3>2. QED
      BY <3>1, <2>1, <2>2
  <2>4. /\ Len(y) = Len(z) + d
        /\ \A p \in 1..(Len(z) + d) : y[p] = IF p <= Len(z) THEN z[p] ELSE k[p - Len(z)]
    <3>1. y = z \o k /\ z \in Seq(TokenSet)
      BY <1>3, <1>6, <1>13
    <3>2. /\ Len(y) = Len(z) + Len(k)
          /\ \A p \in 1..(Len(z) + Len(k)) : y[p] = IF p <= Len(z) THEN z[p] ELSE k[p - Len(z)]
      BY <3>1, <1>7, ConcatProperties
    <3>3. QED
      BY <3>2, <1>7
  <2> HIDE DEF w
  <2>5. \A p \in 1..(Len(z) + d) : e[p] = w[p]
    <3> TAKE p \in 1..(Len(z) + d)
    <3>1. e[p] = G(y[p])
      BY <1>5, <2>4
    <3>2. CASE p <= Len(z)
      <4>1. p \in 1..Len(z)
        BY <2>2, <3>2
      <4>2. f[p] = G(z[p])
        BY <4>1, <1>6, <1>13
      <4>3. y[p] = z[p] /\ w[p] = f[p]
        BY <2>3, <2>4, <3>2
      <4>4. QED
        BY <3>1, <4>2, <4>3
    <3>3. CASE ~(p <= Len(z))
      <4> DEFINE i == p - Len(z)
      <4>1. i \in 1..d
        BY <1>1, <2>2, <3>3
      <4>2. y[p] = k[i] /\ w[p] = g[i]
        BY <2>3, <2>4, <3>3
      <4> HIDE DEF i
      <4>3. g[i] = h[i + 1] /\ h[i + 1] = G(k[i])
        BY <4>1, <2>1, <1>11
      <4>4. QED
        BY <3>1, <4>2, <4>3
    <3>4. QED
      BY <3>2, <3>3
  <2>6. Len(e) = Len(w) /\ Len(e) = Len(z) + d
    BY <1>4, <2>3, <2>4
  <2>7. e = w
    BY <2>3, <2>5, <2>6, <1>4, SeqEqual
  <2>8. QED
    BY <2>7, <1>10, <1>13 DEF w, g, f, e, d, r, h
<1>14. QED
  BY <1>12, <1>13
-----------------------------------------------------------------------------
(***************************************************************************)
(* The selected rows                                                       *)
(***************************************************************************)

\* Sorting lists the elements of a set of positions, the i-th having i elements
\* up to itself.
LEMMA SortedIs ==
    ASSUME NEW m \in Nat, NEW S \in SUBSET (1..m)
    PROVE  /\ IsFiniteSet(S) /\ Cardinality(S) \in 0..m
           /\ DOMAIN Sorted(S) = 1..Cardinality(S)
           /\ \A i \in 1..Cardinality(S) : /\ Sorted(S)[i] \in S
                                           /\ Cardinality({q \in S : q <= Sorted(S)[i]}) = i
           /\ \A p \in S : \E i \in 1..Cardinality(S) : Sorted(S)[i] = p
<1> DEFINE n == Cardinality(S)
           Below(p) == {q \in S : q <= p}
           rank == [p \in S |-> Cardinality(Below(p))]
<1>1. IsFiniteSet(S) /\ n \in 0..m
  <2>1. IsFiniteSet(1..m) /\ Cardinality(1..m) = IF 1 > m THEN 0 ELSE m - 1 + 1
    <3>1. 1 \in Int /\ m \in Int
      OBVIOUS
    <3>2. QED
      BY <3>1, FS_Interval
  <2>2. Cardinality(1..m) = m
    BY <2>1
  <2>3. IsFiniteSet(S) /\ n <= m
    BY <2>1, <2>2, FS_Subset
  <2>4. n \in Nat
    BY <2>3, FS_CardinalityType
  <2>5. QED
    BY <2>3, <2>4
<1>2. \A p \in S : IsFiniteSet(Below(p)) /\ Cardinality(Below(p)) \in 1..n
  <2> TAKE p \in S
  <2>1. Below(p) \in SUBSET S /\ p \in Below(p)
    OBVIOUS
  <2>2. IsFiniteSet(Below(p)) /\ Cardinality(Below(p)) <= n
    BY <1>1, <2>1, FS_Subset
  <2>3. Cardinality(Below(p)) \in Nat /\ Cardinality(Below(p)) # 0
    <3> HIDE DEF Below
    <3>1. QED
      BY <2>1, <2>2, FS_CardinalityType, FS_EmptySet
  <2>4. QED
    BY <1>1, <2>2, <2>3
<1>3. \A p, q \in S : rank[p] = rank[q] => p = q
  <2>1. \A p, q \in S : p < q => Cardinality(Below(p)) < Cardinality(Below(q))
    <3> TAKE p, q \in S
    <3> HAVE p < q
    <3>1. Below(p) \in SUBSET Below(q) /\ q \in Below(q) /\ q \notin Below(p)
      <4>1. \A x \in S : x \in Int
        OBVIOUS
      <4>2. \A x \in S : x <= p => x <= q
        BY <4>1
      <4>3. q <= q /\ ~(q <= p)
        BY <4>1
      <4>4. QED
        BY <4>2, <4>3
    <3> HIDE DEF Below
    <3>2. IsFiniteSet(Below(q)) /\ Cardinality(Below(q)) \in 1..n /\ Cardinality(Below(p)) \in 1..n
      BY <1>2
    <3>3. /\ Cardinality(Below(p)) <= Cardinality(Below(q))
          /\ Cardinality(Below(q)) = Cardinality(Below(p)) => Below(q) = Below(p)
      BY <3>1, <3>2, FS_Subset
    <3>4. Below(q) # Below(p)
      BY <3>1
    <3>5. QED
      BY <1>1, <3>2, <3>3, <3>4
  <2> TAKE p, q \in S
  <2> HAVE rank[p] = rank[q]
  <2>2. Cardinality(Below(p)) = Cardinality(Below(q)) /\ Cardinality(Below(p)) \in 1..n
    BY <1>2
  <2>3. ~(Cardinality(Below(p)) < Cardinality(Below(q)))
        /\ ~(Cardinality(Below(q)) < Cardinality(Below(p)))
    BY <2>2, <1>1
  <2>4. ~(p < q) /\ ~(q < p)
    BY <2>1, <2>3
  <2>5. QED
    BY <2>4
<1>4. rank \in Injection(S, 1..n)
  BY <1>2, <1>3 DEF Injection, IsInjective
<1>5. \A i \in 1..n : \E p \in S : rank[p] = i
  <2> HIDE DEF rank
  <2>1. IsFiniteSet(1..n) /\ Cardinality(1..n) = n
    <3>1. 1 \in Int /\ n \in Int
      BY <1>1
    <3> HIDE DEF n
    <3>2. IsFiniteSet(1..n) /\ Cardinality(1..n) = IF 1 > n THEN 0 ELSE n - 1 + 1
      BY <3>1, FS_Interval
    <3>3. QED
      BY <3>2, <1>1
  <2>2. rank \in Surjection(S, 1..n)
    BY <1>4, <2>1, FS_Injection
  <2>3. QED
    BY <2>2 DEF Surjection
<1>6. \A i \in 1..n : Sorted(S)[i] \in S /\ Cardinality(Below(Sorted(S)[i])) = i
  <2> TAKE i \in 1..n
  <2>1. Sorted(S)[i] = CHOOSE p \in S : Cardinality(Below(p)) = i
    BY DEF Sorted
  <2>2. \E p \in S : Cardinality(Below(p)) = i
    BY <1>5
  <2> HIDE DEF Below
  <2>3. QED
    BY <2>1, <2>2
<1>7. \A p \in S : \E i \in 1..n : Sorted(S)[i] = p
  <2> TAKE p \in S
  <2> DEFINE i == Cardinality(Below(p))
  <2>1. i \in 1..n
    BY <1>2
  <2>2. Sorted(S)[i] \in S /\ Cardinality(Below(Sorted(S)[i])) = i
    BY <1>6, <2>1
  <2>3. rank[Sorted(S)[i]] = rank[p]
    BY <2>2
  <2>4. Sorted(S)[i] = p
    BY <1>3, <2>2, <2>3
  <2>5. QED
    BY <2>1, <2>4
<1>8. DOMAIN Sorted(S) = 1..n
  BY DEF Sorted
<1>9. QED
  BY <1>1, <1>6, <1>7, <1>8

\* Behind row i of n selected rows there are at most as many as positions behind
\* the one selected, and exactly as many in a suffix that is selected.
Aligned(S, m, k) ==
    LET n == Cardinality(S) IN
    /\ n \in 1..m /\ Sorted(S)[n] = m
    /\ \A r \in 1..n : /\ Sorted(S)[r] \in 1..m
                       /\ m - n + r >= Sorted(S)[r]
                       /\ Sorted(S)[r] > m - k => m - n + r = Sorted(S)[r]

LEMMA SelectedRows ==
    ASSUME NEW m \in Nat, NEW k \in 1..m, NEW S \in SUBSET (1..m), (m - k + 1)..m \subseteq S
    PROVE  Aligned(S, m, k)
<1> DEFINE n == Cardinality(S)
           o == Sorted(S)
<1>1. /\ IsFiniteSet(S) /\ n \in 0..m
      /\ \A i \in 1..n : o[i] \in S /\ Cardinality({q \in S : q <= o[i]}) = i
      /\ \A p \in S : \E i \in 1..n : o[i] = p
  BY SortedIs
<1>2. m \in S /\ \A q \in S : q \in 1..m /\ q \in Int /\ q <= m
  OBVIOUS
<1> HIDE DEF n, o
<1>3. PICK i \in 1..n : o[i] = m
  BY <1>1, <1>2
<1>4. n \in 1..m /\ o[n] = m
  <2>1. {q \in S : q <= m} = S
    BY <1>2
  <2>2. i = n
    BY <1>1, <1>3, <2>1 DEF n
  <2>3. QED
    BY <1>1, <1>3, <2>2
<1>5. ASSUME NEW r \in 1..n
      PROVE  /\ o[r] \in 1..m
             /\ m - n + r >= o[r]
             /\ o[r] > m - k => m - n + r = o[r]
  <2> DEFINE p == o[r]
             A == {q \in S : q <= p}
             B == {q \in S : q > p}
  <2>1. p \in S /\ Cardinality(A) = r /\ p \in 1..m /\ p \in Int
    BY <1>1, <1>2
  <2> HIDE DEF p
  <2>2. IsFiniteSet(A) /\ IsFiniteSet(B)
    <3>1. A \in SUBSET S /\ B \in SUBSET S
      OBVIOUS
    <3> HIDE DEF A, B
    <3>2. QED
      BY <3>1, <1>1, FS_Subset
  <2>3. A \cup B = S /\ A \cap B = {}
    <3>1. \A q \in S : (q <= p \/ q > p) /\ ~(q <= p /\ q > p)
      BY <1>2, <2>1
    <3>2. QED
      BY <3>1
  <2>4. B \in SUBSET ((p + 1)..m)
    <3>1. \A q \in S : q > p => q \in (p + 1)..m
      BY <1>2, <2>1
    <3>2. QED
      BY <3>1
  <2>5. p > m - k => B = (p + 1)..m
    <3> HAVE p > m - k
    <3>1. \A q \in (p + 1)..m : q \in (m - k + 1)..m /\ q > p
      BY <2>1
    <3>2. \A q \in (p + 1)..m : q \in B
      BY <3>1
    <3>3. QED
      BY <3>2, <2>4
  <2> HIDE DEF A, B
  <2>6. Cardinality(B) \in Nat
    BY <2>2, FS_CardinalityType
  <2>7. n = r + Cardinality(B)
    <3>1. Cardinality(S) = Cardinality(A) + Cardinality(B) - Cardinality({})
      BY <2>2, <2>3, FS_Union
    <3>2. Cardinality({}) = 0
      BY FS_EmptySet
    <3>3. QED
      BY <3>1, <3>2, <2>1, <2>6 DEF n
  <2>8. IsFiniteSet((p + 1)..m) /\ Cardinality((p + 1)..m) = m - p
    <3>1. p + 1 \in Int /\ m \in Int
      BY <2>1
    <3>2. /\ IsFiniteSet((p + 1)..m)
          /\ Cardinality((p + 1)..m) = IF p + 1 > m THEN 0 ELSE m - (p + 1) + 1
      BY <3>1, FS_Interval
    <3>3. QED
      BY <3>2, <2>1
  <2>9. Cardinality(B) <= m - p /\ (p > m - k => Cardinality(B) = m - p)
    <3>1. Cardinality(B) <= Cardinality((p + 1)..m)
      BY <2>4, <2>8, FS_Subset
    <3>2. QED
      BY <3>1, <2>5, <2>8
  <2>10. m - n + r >= p /\ (p > m - k => m - n + r = p)
    BY <2>1, <2>6, <2>7, <2>9, <1>4
  <2>11. QED
    BY <2>1, <2>10 DEF p
<1>6. QED
  BY <1>4, <1>5 DEF Aligned, n, o
-----------------------------------------------------------------------------
(***************************************************************************)
(* The text and the layers of a state                                      *)
(***************************************************************************)

\* The one check layer is the least, and not the first layer of all.
LEMMA LayersAre ==
    ASSUME OneCheckLayer
    PROVE  /\ NumLayers \in Nat \ {0} /\ MinCheckLayer \in 1..(NumLayers - 1)
           /\ CheckLayers = {MinCheckLayer}
<1>1. /\ NumLayers \in Nat \ {0} /\ CheckLayers \in SUBSET (1..(NumLayers - 1))
      /\ CheckLayers # {}
  BY CacheBlendAssumption
<1>2. IsFiniteSet(1..(NumLayers - 1))
  <2>1. 1 \in Int /\ NumLayers - 1 \in Int
    BY <1>1
  <2>2. QED
    BY <2>1, FS_Interval
<1>3. PICK i : CheckLayers = {i}
  <2>1. IsFiniteSet(CheckLayers)
    BY <1>1, <1>2, FS_Subset
  <2>2. QED
    BY <2>1, FS_Singleton DEF OneCheckLayer
<1>4. i \in 1..(NumLayers - 1) /\ i \in Nat
  BY <1>1, <1>3
<1>5. MinCheckLayer = i
  BY <1>3, <1>4 DEF MinCheckLayer
<1>6. QED
  BY <1>1, <1>3, <1>4, <1>5

\* The types the texts depend on.
ScriptTypes ==
    /\ sample \in DOMAIN Samples /\ step \in {"collect", "blend", "normal"}
    /\ chunk \in 1..NumChunks

LEMMA TextIs ==
    ASSUME ScriptTypes
    PROVE  /\ IsText(Text) /\ NumChunks \in 1..NumChunks /\ NumChunks \in Nat
           /\ step = "collect" => /\ Len(Text) = NumRead(sample, chunk) + 1
                                  /\ Text = <<BOS>> \o ChunkTokens(sample, chunk, NumRead(sample, chunk))
           /\ step # "collect" => /\ Len(Text) = Len(Reads[sample].prompt) + 1
                                  /\ Text = <<BOS>> \o Reads[sample].prompt
                                  /\ Samples[sample][NumChunks] \in 1..(Len(Text) - 1)
<1>1. sample \in DOMAIN Samples /\ chunk \in 1..Len(Samples[sample])
  BY DEF ScriptTypes, NumChunks
<1>2. Len(Samples[sample]) \in 1..Len(Samples[sample]) /\ Len(Samples[sample]) \in Nat
  BY <1>1, SampleIs
<1>3. LET x == <<BOS>> \o ChunkTokens(sample, chunk, NumRead(sample, chunk)) IN
      IsText(x) /\ Len(x) = NumRead(sample, chunk) + 1
  BY <1>1, ChunkText
<1>4. LET x == <<BOS>> \o Reads[sample].prompt IN
      /\ IsText(x) /\ Len(x) = Len(Reads[sample].prompt) + 1
      /\ Samples[sample][NumChunks] \in 1..(Len(x) - 1)
  BY <1>1, PromptText DEF NumChunks
<1>5. Text = IF step = "collect"
             THEN <<BOS>> \o ChunkTokens(sample, chunk, NumRead(sample, chunk))
             ELSE <<BOS>> \o Reads[sample].prompt
  BY DEF Text
<1>6. QED
  BY <1>2, <1>3, <1>4, <1>5 DEF NumChunks

\* What is kept of the chunks of this sample.
LEMMA SampleKept ==
    ASSUME ScriptTypes
    PROVE  LET x == Kept(sample, NumChunks) IN
           /\ sample \in Nat /\ x \in Seq(TokenSet)
           /\ Len(x) = Len(JoinChunks(sample, NumChunks)) + 1
           /\ Len(x) \in Nat /\ Len(x) >= 1 /\ DOMAIN x = 1..Len(x)
           /\ \A p \in 1..Len(x) : ChunkOf(x[p]) \in Nat \ {0}
           /\ Collected(sample, NumChunks) \in Seq(Entries)
           /\ Len(Collected(sample, NumChunks)) = Len(x)
<1>1. /\ sample \in DOMAIN Samples /\ NumChunks \in 1..NumChunks
      /\ NumChunks = Len(Samples[sample])
  BY TextIs DEF ScriptTypes, NumChunks
<1>2. sample \in Nat
  BY <1>1, SampleIs
<1> DEFINE n == NumChunks
<1>3. n \in 1..Len(Samples[sample])
  BY <1>1
<1> HIDE DEF n
<1>4. LET x == Kept(sample, n) IN
      /\ x \in Seq(TokenSet)
      /\ Len(x) = Len(JoinChunks(sample, n)) + 1
      /\ Len(x) \in Nat /\ Len(x) >= 1 /\ DOMAIN x = 1..Len(x)
      /\ \A p \in 1..Len(x) : ChunkOf(x[p]) \in Nat \ {0}
  BY <1>1, <1>3, KeptIs
<1>5. Collected(sample, n) \in Seq(Entries) /\ Len(Collected(sample, n)) = Len(Kept(sample, n))
  BY <1>1, <1>3, CollectedIs
<1>6. QED
  BY <1>2, <1>4, <1>5 DEF n

LEMMA StateText ==
    ASSUME BlendTypeOK
    PROVE  /\ IsText(Text) /\ Len(Text) \in Nat /\ Len(Text) >= 1 /\ DOMAIN Text = 1..Len(Text)
           /\ \A p \in 1..Len(Text) : Text[p] \in TokenSet
           /\ Text[1] = BOS /\ BOS \in TokenSet
           /\ Whole = [p \in 1..Len(Text) |-> p]
           /\ Context \in Nat \X Nat
<1>1. ScriptTypes
  BY DEF BlendTypeOK, ScriptTypes
<1>2. IsText(Text) /\ NumChunks \in Nat
  BY <1>1, TextIs
<1>3. sample \in Nat
  BY <1>1, SampleIs DEF ScriptTypes
<1>4. chunk \in Nat
  BY <1>1, <1>2 DEF ScriptTypes
<1>5. Context \in Nat \X Nat
  BY <1>3, <1>4 DEF Context
<1>6. BOS \in TokenSet
  BY DEF BOS, TokenSet
<1>7. QED
  BY <1>2, <1>5, <1>6 DEF IsText, Whole

\* Rotating a key once leaves it rotated by one position.
LEMMA RotateOnce ==
    ASSUME NEW a, NEW b, NEW p \in Nat
    PROVE  [[tok |-> a, ctx |-> b, rot |-> << >>] EXCEPT !.rot = Append(@, p)]
             = [tok |-> a, ctx |-> b, rot |-> <<p>>]
<1>1. Append(<< >>, p) = <<p>>
  OBVIOUS
<1>2. QED
  BY <1>1

\* The rows a pass computes: fresh, rotated by their positions.
LEMMA FreshRows ==
    ASSUME NEW r \in DOMAIN hidden, positions[r] \in Nat
    PROVE  /\ r \in DOMAIN Rotate(Fresh, positions)
           /\ Rotate(Fresh, positions)[r]
                = [tok |-> hidden[r], ctx |-> Context, rot |-> <<positions[r]>>]
<1>1. DOMAIN Fresh = DOMAIN hidden
      /\ Fresh[r] = [tok |-> hidden[r], ctx |-> Context, rot |-> << >>]
  BY DEF Fresh, Entry
<1>2. Rotate(Fresh, positions)[r] = [Fresh[r] EXCEPT !.rot = Append(@, positions[r])]
      /\ DOMAIN Rotate(Fresh, positions) = DOMAIN hidden
  BY <1>1 DEF Rotate
<1>3. QED
  BY <1>1, <1>2, RotateOnce

\* The old keys of a layer that was not reached, if they are as many as the tokens
\* of the prompt.
LEMMA OldRows ==
    ASSUME NEW i, BlendTypeOK, orgPos = Whole,
           oldKvs[i] = Collected(sample, NumChunks),
           Len(Kept(sample, NumChunks)) = Len(Text),
           NEW p \in 1..Len(Text)
    PROVE  LET t == Kept(sample, NumChunks)[p] IN
           /\ DOMAIN OldKeys(i) = 1..Len(Text)
           /\ OldKeys(i)[p] = [tok |-> t, ctx |-> <<sample, ChunkOf(t)>>, rot |-> <<p>>]
<1> DEFINE x == Kept(sample, NumChunks)
<1>1. ScriptTypes
  BY DEF BlendTypeOK, ScriptTypes
<1>2. DOMAIN x = 1..Len(Text)
  BY <1>1, SampleKept
<1>3. Whole[p] = p /\ p \in Nat
  BY StateText
<1>4. /\ DOMAIN oldKvs[i] = 1..Len(Text)
      /\ oldKvs[i][p] = [tok |-> x[p], ctx |-> <<sample, ChunkOf(x[p])>>, rot |-> << >>]
  BY <1>2 DEF Collected
<1>5. /\ DOMAIN OldKeys(i) = 1..Len(Text)
      /\ OldKeys(i)[p] = [oldKvs[i][p] EXCEPT !.rot = Append(@, p)]
  BY <1>3, <1>4 DEF OldKeys, Rotate
<1>6. QED
  BY <1>3, <1>4, <1>5, RotateOnce

\* Nothing a text, a position or an entry is judged by changes within a pass.
LEMMA SameText ==
    ASSUME UNCHANGED scriptVars
    PROVE  /\ sample' = sample /\ step' = step /\ chunk' = chunk
           /\ Text' = Text /\ Whole' = Whole /\ Context' = Context /\ NumChunks' = NumChunks
           /\ Tokens' = Tokens /\ \A t : Entry(t)' = Entry(t)
<1>1. sample' = sample /\ step' = step /\ chunk' = chunk
  BY DEF scriptVars
<1>2. NumChunks' = NumChunks /\ Tokens' = Tokens /\ Context' = Context
  BY <1>1 DEF NumChunks, Tokens, Context
<1>3. Text' = Text
  BY <1>1, <1>2 DEF Text
<1>4. Whole' = Whole
  BY <1>3 DEF Whole
<1>5. \A t : Entry(t)' = Entry(t)
  BY <1>2 DEF Entry
<1>6. QED
  BY <1>1, <1>2, <1>3, <1>4, <1>5

\* What a layer's cache holds it still holds when a later layer has run.
LEMMA StillHolds ==
    ASSUME UNCHANGED scriptVars, suffixLen' = suffixLen,
           NEW e, NEW i \in Nat, NEW p, MinCheckLayer \in Nat,
           impIndices' = impIndices \/ i <= MinCheckLayer,
           Holds(e, i, p)
    PROVE  Holds(e, i, p)'
<1>1. /\ sample' = sample /\ step' = step /\ Text' = Text /\ Context' = Context
      /\ NumChunks' = NumChunks
  BY SameText
<1>2. TokenAt(p)' = TokenAt(p)
  BY <1>1 DEF TokenAt
<1>3. e.rot = <<p>> /\ ((e.tok = TokenAt(p) /\ e.ctx = Context) \/ Reused(e, i, p))
  BY DEF Holds
<1>4. Reused(e, i, p) => Reused(e, i, p)'
  <2>1. Reused(e, i, p) => i > MinCheckLayer
    BY DEF Reused
  <2>2. Reused(e, i, p) => impIndices' = impIndices
    BY <2>1
  <2>3. QED
    BY <2>2, <1>1 DEF Reused
<1>5. QED
  BY <1>1, <1>2, <1>3, <1>4 DEF Holds

\* A layer of a prefill writes every position of the text.
LEMMA PrefillCache ==
    ASSUME BlendTypeOK, CacheInv, MinCheckLayer \in Nat, NumLayers \in Nat,
           pass = "prefill", generated = 0, layer < NumLayers,
           NEW rows, WriteCache(layer, rows),
           UNCHANGED <<scriptVars, pass, generated, suffixLen>>, layer' = layer + 1,
           impIndices' = impIndices \/ layer <= MinCheckLayer,
           \A p \in 1..Len(Text) : rows[p] \in Entries /\ Holds(rows[p], layer, p)
    PROVE  cache' \in [Layers -> Seq(Entries)] /\ CacheInv'
<1> DEFINE L == Len(Text)
<1>1. L \in Nat /\ DOMAIN Text = 1..L
  BY StateText
<1>2. layer \in Layers /\ layer \in Nat /\ Layers \subseteq Nat
      /\ cache \in [Layers -> Seq(Entries)]
  BY DEF BlendTypeOK, Layers
<1>3. \A i \in Layers : /\ DOMAIN cache[i] = 1..Filled(i)
                        /\ \A p \in 1..Filled(i) : Holds(cache[i][p], i, p)
  BY DEF CacheInv
<1>4. \A i \in Layers : Filled(i) = IF i < layer THEN L ELSE 0
  BY DEF Filled
<1>5. DOMAIN cache[layer] = {}
  BY <1>2, <1>3, <1>4
<1> DEFINE new == [p \in 1..L |-> rows[p]]
<1>6. cache' = [cache EXCEPT ![layer] = new]
  <2>1. Slots = [p \in 1..L |-> p]
    BY <1>1 DEF Slots
  <2>2. Range(Slots) = 1..L /\ DOMAIN Slots = 1..L /\ \A p \in 1..L : Slots[p] = p
    BY <2>1 DEF Range
  <2>3. \A p \in 1..L : (CHOOSE r \in DOMAIN Slots : Slots[r] = p) = p
    <3> HIDE DEF L
    <3>1. QED
      BY <2>2
  <2> DEFINE old == cache[layer]
             put == [p \in DOMAIN old \cup Range(Slots) |->
                       IF p \in Range(Slots) THEN rows[CHOOSE r \in DOMAIN Slots : Slots[r] = p]
                       ELSE old[p]]
  <2>4. cache' = [cache EXCEPT ![layer] = put]
    BY DEF WriteCache
  <2>5. put = new
    BY <2>2, <2>3, <1>5
  <2>6. QED
    BY <2>4, <2>5
<1>7. /\ Text' = Text /\ sample' = sample /\ step' = step
  BY SameText
<1>8. pass' = "prefill" /\ generated' = 0 /\ layer' = layer + 1
  OBVIOUS
<1>9. \A i \in Layers : Filled(i)' = IF i < layer + 1 THEN L ELSE 0
  BY <1>7, <1>8 DEF Filled
<1>10. new \in Seq(Entries) /\ DOMAIN new = 1..L
  BY <1>1
<1>11. cache' \in [Layers -> Seq(Entries)]
  <2> HIDE DEF new
  <2>1. QED
    BY <1>2, <1>6, <1>10
<1>12. ASSUME NEW i \in Layers
       PROVE  /\ DOMAIN cache'[i] = 1..Filled(i)'
              /\ \A p \in 1..Filled(i)' : Holds(cache[i][p], i, p)'
  <2>1. CASE i = layer
    <3>1. Filled(i)' = L
      BY <2>1, <1>2, <1>9
    <3>2. cache'[i] = new
      BY <2>1, <1>2, <1>6
    <3>3. \A p \in 1..L : Holds(rows[p], i, p)'
      <4> TAKE p \in 1..L
      <4>1. Holds(rows[p], i, p)
        BY <2>1
      <4>2. i \in Nat /\ (impIndices' = impIndices \/ i <= MinCheckLayer)
        BY <2>1, <1>2
      <4>3. UNCHANGED scriptVars /\ suffixLen' = suffixLen
        OBVIOUS
      <4>4. QED
        BY <4>1, <4>2, <4>3, StillHolds
    <3>4. \A p \in 1..L : cache'[i][p] = rows[p]
      BY <3>2
    <3>5. \A p \in 1..L : Holds(cache[i][p], i, p)'
      BY <3>3, <3>4 DEF Holds
    <3>6. DOMAIN cache'[i] = 1..L
      BY <3>2
    <3>7. QED
      BY <3>1, <3>5, <3>6
  <2>2. CASE i # layer
    <3>1. cache'[i] = cache[i]
      BY <2>2, <1>2, <1>6
    <3>2. i \in Nat /\ Filled(i)' = Filled(i)
      BY <2>2, <1>2, <1>4, <1>9
    <3>3. \A p \in 1..Filled(i) : Holds(cache[i][p], i, p)'
      <4> TAKE p \in 1..Filled(i)
      <4>1. Holds(cache[i][p], i, p)
        BY <1>3
      <4>2. i < layer
        BY <1>2, <1>4, <3>2
      <4>3. impIndices' = impIndices \/ i <= MinCheckLayer
        BY <4>2, <3>2, <1>2
      <4>4. UNCHANGED scriptVars /\ suffixLen' = suffixLen
        OBVIOUS
      <4> DEFINE e == cache[i][p]
      <4> HIDE DEF e
      <4>5. \A x : Holds(x, i, p) => Holds(x, i, p)'
        BY <4>3, <4>4, <3>2, StillHolds
      <4>6. Holds(cache[i][p], i, p)'
        BY <4>1, <4>5, <3>1 DEF Holds
      <4>7. QED
        BY <4>6
    <3>4. QED
      BY <3>1, <3>2, <3>3, <1>3
  <2>3. QED
    BY <2>1, <2>2
<1>13. CacheInv'
  BY <1>12 DEF CacheInv, Layers
<1>14. QED
  BY <1>11, <1>13

\* A layer of a decode appends the entry of the last token.
LEMMA DecodeCache ==
    ASSUME BlendTypeOK, CacheInv, MinCheckLayer \in Nat, NumLayers \in Nat,
           pass = "decode", generated \in Nat \ {0}, layer < NumLayers,
           positions = <<Len(Text) + generated>>,
           NEW rows, WriteCache(layer, rows),
           UNCHANGED <<scriptVars, pass, generated, suffixLen, impIndices>>, layer' = layer + 1,
           rows[1] \in Entries, rows[1].tok = Sampled(generated), rows[1].ctx = Context,
           rows[1].rot = <<Len(Text) + generated>>
    PROVE  cache' \in [Layers -> Seq(Entries)] /\ CacheInv'
<1> DEFINE L == Len(Text)
           n == L + generated
<1>1. L \in Nat /\ n \in Nat \ {0} /\ n - L = generated /\ ~(n <= L)
  BY StateText
<1>2. layer \in Layers /\ layer \in Nat /\ Layers \subseteq Nat
      /\ cache \in [Layers -> Seq(Entries)]
  BY DEF BlendTypeOK, Layers
<1>3. \A i \in Layers : /\ DOMAIN cache[i] = 1..Filled(i)
                        /\ \A p \in 1..Filled(i) : Holds(cache[i][p], i, p)
  BY DEF CacheInv
<1>4. \A i \in Layers : Filled(i) = IF i < layer THEN n ELSE n - 1
  BY DEF Filled
<1>5. DOMAIN cache[layer] = 1..(n - 1)
  BY <1>2, <1>3, <1>4
<1> DEFINE new == [p \in 1..n |-> IF p = n THEN rows[1] ELSE cache[layer][p]]
<1>6. cache' = [cache EXCEPT ![layer] = new]
  <2>1. Slots = <<n>>
    BY DEF Slots
  <2>2. Range(Slots) = {n} /\ DOMAIN Slots = {1} /\ Slots[1] = n
    BY <2>1 DEF Range
  <2>3. (CHOOSE r \in DOMAIN Slots : Slots[r] = n) = 1
    <3> HIDE DEF n
    <3>1. QED
      BY <2>2
  <2> DEFINE old == cache[layer]
             put == [p \in DOMAIN old \cup Range(Slots) |->
                       IF p \in Range(Slots) THEN rows[CHOOSE r \in DOMAIN Slots : Slots[r] = p]
                       ELSE old[p]]
  <2>4. cache' = [cache EXCEPT ![layer] = put]
    BY DEF WriteCache
  <2>5. DOMAIN old \cup Range(Slots) = 1..n
    BY <2>2, <1>1, <1>5
  <2> DEFINE k == n
  <2> HIDE DEF k
  <2>6. put = new
    BY <2>2, <2>3, <2>5
  <2>7. QED
    BY <2>4, <2>6
<1>7. /\ Text' = Text /\ sample' = sample /\ step' = step /\ Context' = Context
  BY SameText
<1>8. pass' = "decode" /\ generated' = generated /\ layer' = layer + 1 /\ generated # 0
  OBVIOUS
<1>9. \A i \in Layers : Filled(i)' = IF i < layer + 1 THEN n ELSE n - 1
  BY <1>7, <1>8 DEF Filled
<1>10. cache[layer] \in Seq(Entries) /\ \A p \in 1..(n - 1) : cache[layer][p] \in Entries
  BY <1>2, <1>5
<1>11. new \in Seq(Entries) /\ DOMAIN new = 1..n
  <2>1. \A p \in 1..n : p = n \/ p \in 1..(n - 1)
    BY <1>1
  <2> HIDE DEF n
  <2>2. \A p \in 1..n : new[p] \in Entries
    BY <2>1, <1>10
  <2>3. n \in Nat
    BY <1>1
  <2>4. QED
    BY <2>2, <2>3
<1>12. cache' \in [Layers -> Seq(Entries)]
  <2> HIDE DEF new
  <2>1. QED
    BY <1>2, <1>6, <1>11
<1>13. \A x, i, p : i \in Nat /\ Holds(x, i, p) => Holds(x, i, p)'
  <2>1. UNCHANGED scriptVars /\ suffixLen' = suffixLen /\ impIndices' = impIndices
    OBVIOUS
  <2>2. QED
    BY <2>1, StillHolds
<1>14. \A i : Holds(rows[1], i, n)'
  <2>1. TokenAt(n)' = Sampled(generated)
    BY <1>1, <1>7 DEF TokenAt
  <2>2. QED
    BY <2>1, <1>7 DEF Holds
<1>15. ASSUME NEW i \in Layers
       PROVE  /\ DOMAIN cache'[i] = 1..Filled(i)'
              /\ \A p \in 1..Filled(i)' : Holds(cache[i][p], i, p)'
  <2>1. CASE i = layer
    <3>1. Filled(i)' = n
      BY <2>1, <1>2, <1>9
    <3>2. cache'[i] = new
      BY <2>1, <1>2, <1>6
    <3>3. \A p \in 1..n : Holds(cache[i][p], i, p)'
      <4> TAKE p \in 1..n
      <4>1. CASE p = n
        <5>1. cache'[i][p] = rows[1]
          BY <3>2, <4>1
        <5>2. Holds(rows[1], i, p)'
          BY <1>14, <4>1 DEF Holds, TokenAt, Reused
        <5>3. QED
          BY <5>1, <5>2 DEF Holds
      <4>2. CASE p # n
        <5>1. p \in 1..(n - 1)
          BY <4>2, <1>1
        <5>2. cache'[i][p] = cache[i][p]
          BY <3>2, <4>2, <2>1
        <5>3. Holds(cache[i][p], i, p)
          BY <5>1, <1>2, <1>3, <1>4, <2>1
        <5> DEFINE e == cache[i][p]
        <5>4. Holds(e, i, p) /\ i \in Nat
          BY <5>3, <1>2
        <5> HIDE DEF e
        <5>5. \A x : Holds(x, i, p) => Holds(x, i, p)'
          BY <5>4, <1>13
        <5>6. QED
          BY <5>2, <5>3, <5>5 DEF Holds
      <4>3. QED
        BY <4>1, <4>2
    <3>4. DOMAIN cache'[i] = 1..n
      BY <3>2
    <3>5. QED
      BY <3>1, <3>3, <3>4
  <2>2. CASE i # layer
    <3>1. cache'[i] = cache[i]
      BY <2>2, <1>2, <1>6
    <3>2. i \in Nat /\ Filled(i)' = Filled(i)
      BY <2>2, <1>2, <1>4, <1>9
    <3>3. \A p \in 1..Filled(i) : Holds(cache[i][p], i, p)'
      <4> TAKE p \in 1..Filled(i)
      <4>1. Holds(cache[i][p], i, p)
        BY <1>3
      <4>2. \A x : Holds(x, i, p) => Holds(x, i, p)'
        BY <3>2, <1>13
      <4>3. QED
        BY <4>1, <4>2, <3>1 DEF Holds
    <3>4. QED
      BY <3>1, <3>2, <3>3, <1>3
  <2>3. QED
    BY <2>1, <2>2
<1>16. CacheInv'
  BY <1>15 DEF CacheInv, Layers
<1>17. QED
  BY <1>12, <1>16
-----------------------------------------------------------------------------
(***************************************************************************)
(* The steps of a pass                                                     *)
(***************************************************************************)

LEMMA TypesAre ==
    ASSUME BlendTypeOK
    PROVE  /\ hackKv \in [Layers -> Seq(Entries)] /\ oldKvs \in [Layers -> Seq(Entries)]
           /\ cache \in [Layers -> Seq(Entries)]
           /\ hidden \in Seq(TokenSet) /\ residual \in Seq(TokenSet)
           /\ positions \in Seq(Nat) /\ impIndices \in Seq(Nat) /\ orgPos \in Seq(Nat)
           /\ check \in BOOLEAN /\ collect \in BOOLEAN
           /\ generated \in Nat /\ layer \in Nat /\ layer \in 0..NumLayers /\ suffixLen \in Nat
           /\ checkLayerIdx \in Nat /\ MaxTokens \in Nat \ {0}
<1>1. MaxTokens \in Nat \ {0} /\ NumLayers \in Nat
  BY CacheBlendAssumption
<1>2. QED
  BY <1>1 DEF BlendTypeOK

\* Where a pass is, by the status of its next layer.
LEMMA StatusAt ==
    ASSUME BlendInv, OneCheckLayer, NEW s, Passing, Status(layer) = s
    PROVE  /\ layer \in Layers /\ layer \in Nat /\ layer + 1 \in 0..NumLayers
           /\ s \in {0, 3} => \/ /\ pass = "prefill" /\ s = 0 /\ ~Selected
                                 /\ step = "blend" => layer < MinCheckLayer
                              \/ pass = "decode" /\ s = 3 /\ generated > 0
           /\ s = 1 => pass = "prefill" /\ check /\ layer = MinCheckLayer /\ ~Selected
           /\ s = 2 => pass = "prefill" /\ check /\ layer > MinCheckLayer /\ Selected
           /\ check => pass = "prefill" /\ step = "blend" /\ generated = 0
           /\ pass = "prefill" => generated = 0 /\ (check <=> step = "blend")
           /\ step = "collect" => pass = "prefill"
           /\ pass \in {"prefill", "decode"}
<1>1. /\ pass \in {"prefill", "decode"} /\ layer < NumLayers /\ Status(layer) = s
  BY DEF Passing
<1>2. /\ MinCheckLayer \in Nat /\ NumLayers \in Nat /\ CheckLayers = {MinCheckLayer}
  BY LayersAre
<1>3. layer \in Nat /\ generated \in Nat /\ layer \in 0..NumLayers /\ check \in BOOLEAN
  BY TypesAre DEF BlendInv
<1>4. /\ (check <=> step = "blend" /\ generated = 0)
      /\ generated < Tokens
  BY <1>1 DEF BlendInv, ScriptInv
<1>5. /\ pass = "prefill" => generated = 0 /\ (Selected => temp \in {1, 2}) /\ (~Selected => temp = 0)
      /\ pass = "decode" => generated > 0 /\ temp = 3
  BY DEF BlendInv, RowsInv
<1>6. step = "collect" => generated = 0
  <2>1. step = "collect" => Tokens = 1
    BY DEF Tokens
  <2>2. QED
    BY <2>1, <1>3, <1>4
<1>7. step = "collect" => pass = "prefill"
  BY <1>1, <1>3, <1>5, <1>6
<1>8. pass = "prefill" => (check <=> step = "blend") /\ generated = 0
  BY <1>4, <1>5
<1>9. pass = "prefill" => (Selected <=> check /\ layer > MinCheckLayer)
  <2> HAVE pass = "prefill"
  <2>1. generated = 0 /\ ~(generated > 0) /\ (check <=> step = "blend")
    BY <1>3, <1>8
  <2>2. Selected <=> step = "blend" /\ layer > MinCheckLayer
    BY <2>1 DEF Selected
  <2>3. QED
    BY <2>1, <2>2
<1>10. check => pass = "prefill"
  BY <1>1, <1>3, <1>4, <1>5
<1>11. s = IF ~check THEN temp
           ELSE IF layer = MinCheckLayer THEN 1 ELSE IF layer > MinCheckLayer THEN 2 ELSE temp
  BY <1>1, <1>2 DEF Status
<1>12. ~check => s \in {0, 3} /\ (pass = "prefill" => s = 0) /\ (pass = "decode" => s = 3)
  BY <1>1, <1>5, <1>9, <1>11
<1>13. check => s = IF layer = MinCheckLayer THEN 1 ELSE IF layer > MinCheckLayer THEN 2 ELSE 0
  BY <1>2, <1>3, <1>5, <1>9, <1>10, <1>11
<1>14. layer \in Layers /\ layer + 1 \in 0..NumLayers
  BY <1>1, <1>2, <1>3 DEF Layers
<1>15. s \in {0, 3} => \/ /\ pass = "prefill" /\ s = 0 /\ ~Selected
                          /\ step = "blend" => layer < MinCheckLayer
                       \/ pass = "decode" /\ s = 3 /\ generated > 0
  <2> HAVE s \in {0, 3}
  <2>1. CASE pass = "prefill" /\ ~check
    <3>1. step # "blend" /\ s = 0 /\ ~Selected
      BY <2>1, <1>3, <1>8, <1>9, <1>12
    <3>2. QED
      BY <2>1, <3>1
  <2>2. CASE check
    <3>1. layer < MinCheckLayer /\ s = 0
      BY <2>2, <1>2, <1>3, <1>13
    <3>2. ~Selected
      BY <3>1, <2>2, <1>2, <1>3, <1>9, <1>10
    <3>3. QED
      BY <3>1, <3>2, <2>2, <1>10
  <2>3. CASE pass = "decode" /\ ~check
    BY <2>3, <1>5, <1>12
  <2>4. QED
    BY <2>1, <2>2, <2>3, <1>1
<1>16. s = 1 => pass = "prefill" /\ check /\ layer = MinCheckLayer /\ ~Selected
  BY <1>2, <1>3, <1>9, <1>10, <1>12, <1>13
<1>17. s = 2 => pass = "prefill" /\ check /\ layer > MinCheckLayer /\ Selected
  BY <1>2, <1>3, <1>9, <1>10, <1>12, <1>13
<1>18. QED
  BY <1>1, <1>3, <1>4, <1>7, <1>8, <1>10, <1>14, <1>15, <1>16, <1>17

LEMMA StatusIs ==
    ASSUME BlendInv, OneCheckLayer, NEW s, InLayer(s)
    PROVE  /\ layer \in Layers /\ layer \in Nat /\ layer + 1 \in 0..NumLayers
           /\ s \in {0, 3} => \/ /\ pass = "prefill" /\ s = 0 /\ ~Selected
                                 /\ step = "blend" => layer < MinCheckLayer
                              \/ pass = "decode" /\ s = 3 /\ generated > 0
           /\ s = 1 => pass = "prefill" /\ check /\ layer = MinCheckLayer /\ ~Selected
           /\ s = 2 => pass = "prefill" /\ check /\ layer > MinCheckLayer /\ Selected
           /\ check => pass = "prefill" /\ step = "blend" /\ generated = 0
           /\ pass = "prefill" => generated = 0 /\ (check <=> step = "blend")
           /\ step = "collect" => pass = "prefill"
           /\ pass \in {"prefill", "decode"}
           /\ layer < NumLayers
<1>1. Passing /\ Status(layer) = s /\ layer < NumLayers
  BY DEF InLayer, Passing
<1>2. QED
  BY <1>1, StatusAt

\* The rows of a pass over the whole text, or over its last token.
LEMMA WholeRows ==
    ASSUME BlendInv, pass = "prefill", ~Selected
    PROVE  /\ hidden = Text /\ residual = Text /\ positions = Whole /\ temp = 0
           /\ Fresh = [p \in DOMAIN Text |-> Entry(Text[p])]
           /\ \A p \in 1..Len(Text) :
                /\ Rotate(Fresh, positions)[p] = [tok |-> Text[p], ctx |-> Context, rot |-> <<p>>]
                /\ Rotate(Fresh, positions)[p] \in Entries
                /\ \A i : Holds(Rotate(Fresh, positions)[p], i, p)
<1>1. hidden = Text /\ residual = Text /\ positions = Whole /\ temp = 0
  BY DEF BlendInv, RowsInv
<1>2. Fresh = [p \in DOMAIN Text |-> Entry(Text[p])]
  BY <1>1 DEF Fresh
<1>3. /\ DOMAIN Text = 1..Len(Text) /\ Len(Text) \in Nat
      /\ \A p \in 1..Len(Text) : Text[p] \in TokenSet
      /\ Whole = [p \in 1..Len(Text) |-> p] /\ Context \in Nat \X Nat
  BY StateText DEF BlendInv
<1>4. ASSUME NEW p \in 1..Len(Text)
      PROVE  /\ Rotate(Fresh, positions)[p] = [tok |-> Text[p], ctx |-> Context, rot |-> <<p>>]
             /\ Rotate(Fresh, positions)[p] \in Entries
             /\ \A i : Holds(Rotate(Fresh, positions)[p], i, p)
  <2>1. p \in DOMAIN hidden /\ positions[p] = p /\ positions[p] \in Nat /\ hidden[p] = Text[p]
    BY <1>1, <1>3
  <2>2. Rotate(Fresh, positions)[p] = [tok |-> Text[p], ctx |-> Context, rot |-> <<p>>]
    BY <2>1, FreshRows
  <2>3. Text[p] \in TokenSet /\ Context \in Nat \X Nat /\ <<p>> \in Seq(Nat)
    BY <1>3
  <2>4. [tok |-> Text[p], ctx |-> Context, rot |-> <<p>>] \in Entries
    BY <2>3 DEF Entries
  <2>5. TokenAt(p) = Text[p]
    BY <1>3 DEF TokenAt
  <2>6. \A i : Holds([tok |-> Text[p], ctx |-> Context, rot |-> <<p>>], i, p)
    BY <2>5 DEF Holds
  <2>7. QED
    BY <2>2, <2>4, <2>6
<1>5. QED
  BY <1>1, <1>2, <1>4

LEMMA LastRow ==
    ASSUME BlendInv, pass = "decode"
    PROVE  LET e == [tok |-> Sampled(generated), ctx |-> Context,
                     rot |-> <<Len(Text) + generated>>] IN
           /\ hidden = <<Sampled(generated)>> /\ positions = <<Len(Text) + generated>> /\ temp = 3
           /\ generated \in Nat \ {0} /\ Sampled(generated) \in TokenSet
           /\ Rotate(Fresh, positions)[1] = e /\ e \in Entries
<1>1. /\ hidden = <<Sampled(generated)>> /\ positions = <<Len(Text) + generated>> /\ temp = 3
      /\ generated > 0
  BY DEF BlendInv, RowsInv
<1>2. Len(Text) \in Nat /\ Context \in Nat \X Nat /\ generated \in Nat
  BY StateText, TypesAre DEF BlendInv
<1>3. generated \in Nat \ {0} /\ Sampled(generated) \in TokenSet
  BY <1>1, <1>2 DEF Sampled, TokenSet
<1>4. 1 \in DOMAIN hidden /\ hidden[1] = Sampled(generated)
      /\ positions[1] = Len(Text) + generated /\ positions[1] \in Nat
  BY <1>1, <1>2
<1>5. Rotate(Fresh, positions)[1]
        = [tok |-> Sampled(generated), ctx |-> Context, rot |-> <<Len(Text) + generated>>]
  BY <1>4, FreshRows
<1>6. <<Len(Text) + generated>> \in Seq(Nat)
  BY <1>2
<1>7. [tok |-> Sampled(generated), ctx |-> Context, rot |-> <<Len(Text) + generated>>] \in Entries
  BY <1>2, <1>3, <1>6 DEF Entries
<1>8. QED
  BY <1>1, <1>3, <1>5, <1>7

\* The script does not move during a pass, nor does what was sampled before.
LEMMA PassKeeps ==
    ASSUME BlendInv,
           UNCHANGED <<scriptVars, check, collect, suffixLen, pass, generated, lastRow>>
    PROVE  ScriptInv' /\ SampleInv' /\ NoBlendError'
<1>1. /\ Text' = Text /\ Tokens' = Tokens /\ step' = step /\ sample' = sample
      /\ NumChunks' = NumChunks
  BY SameText
<1>2. ScriptInv /\ SampleInv /\ NoBlendError
  BY DEF BlendInv
<1>3. ScriptInv'
  BY <1>1, <1>2 DEF ScriptInv
<1>4. SampleInv'
  BY <1>1, <1>2 DEF SampleInv
<1>5. NoBlendError'
  BY <1>1, <1>2 DEF NoBlendError
<1>6. QED
  BY <1>3, <1>4, <1>5

\* A layer hands over what it computed, while chunks are collected, and takes
\* what was collected for it.
LEMMA CollectStep ==
    ASSUME BlendInv, OneCheckLayer, NEW s, InLayer(s), Collect(layer),
           UNCHANGED <<scriptVars, check, collect, pass, generated>>, layer' = layer + 1,
           \A i \in Layers : i # layer => oldKvs'[i] = oldKvs[i],
           step = "blend" \/ oldKvs' = oldKvs
    PROVE  CollectInv' /\ hackKv' \in [Layers -> Seq(Entries)]
<1>1. /\ sample' = sample /\ step' = step /\ chunk' = chunk /\ Text' = Text
      /\ NumChunks' = NumChunks /\ \A t : Entry(t)' = Entry(t)
  BY SameText
<1>2. /\ layer \in Layers /\ layer \in Nat /\ Layers \subseteq Nat
      /\ check => pass = "prefill" /\ step = "blend"
      /\ step = "collect" => pass = "prefill" /\ generated = 0
      /\ pass = "prefill" => generated = 0
      /\ step = "collect" => ~Selected
  BY StatusIs DEF Layers, Selected
<1>3. CollectInv /\ hackKv \in [Layers -> Seq(Entries)] /\ hidden \in Seq(TokenSet)
      /\ (collect <=> step = "collect") /\ Context \in Nat \X Nat
  BY TypesAre, StateText DEF BlendInv, ScriptInv
<1>4. Fresh \in Seq(Entries)
  <2>1. \A t \in TokenSet : Entry(t) \in Entries
    <3> TAKE t \in TokenSet
    <3>1. << >> \in Seq(Nat)
      OBVIOUS
    <3>2. QED
      BY <3>1, <1>3 DEF Entry, Entries
  <2>2. Len(hidden) \in Nat /\ DOMAIN hidden = 1..Len(hidden)
        /\ \A r \in 1..Len(hidden) : hidden[r] \in TokenSet
    BY <1>3
  <2>3. Fresh \in [1..Len(hidden) -> Entries]
    BY <2>1, <2>2 DEF Fresh
  <2>4. QED
    BY <2>2, <2>3
<1>5. hackKv' \in [Layers -> Seq(Entries)]
  BY <1>2, <1>3, <1>4 DEF Collect
<1>6. ASSUME NEW i \in Layers
      PROVE  /\ (step = "collect" /\ Written(i) => hackKv[i] = [p \in DOMAIN Text |-> Entry(Text[p])])'
             /\ (step = "collect" /\ chunk > 1 => oldKvs[i] = Collected(sample, chunk - 1))'
             /\ (check /\ (pass # "none" => i >= layer)
                   => oldKvs[i] = Collected(sample, NumChunks))'
  <2>1. ASSUME step' = "collect", Written(i)'
        PROVE  hackKv'[i] = [p \in DOMAIN Text |-> Entry(Text[p])]
    <3>1. step = "collect" /\ pass = "prefill" /\ generated = 0 /\ ~Selected
      BY <2>1, <1>1, <1>2
    <3>2. Fresh = [p \in DOMAIN Text |-> Entry(Text[p])]
      BY <3>1, WholeRows
    <3>3. hackKv' = [hackKv EXCEPT ![layer] = Fresh]
      BY <3>1, <1>3 DEF Collect
    <3>4. i < layer + 1
      BY <2>1, <3>1 DEF Written
    <3>5. CASE i = layer
      BY <3>2, <3>3, <3>5, <1>2, <1>3
    <3>6. CASE i # layer
      <4>1. i < layer /\ hackKv'[i] = hackKv[i]
        BY <3>3, <3>4, <3>6, <1>2, <1>3
      <4>2. Written(i)
        BY <4>1, <3>1 DEF Written
      <4>3. QED
        BY <4>1, <4>2, <3>1, <1>3 DEF CollectInv
    <3>7. QED
      BY <3>5, <3>6
  <2>2. ASSUME step' = "collect", chunk' > 1
        PROVE  oldKvs'[i] = Collected(sample, chunk - 1)
    BY <2>2, <1>1, <1>3 DEF CollectInv
  <2>3. ASSUME check', pass' # "none" => i >= layer'
        PROVE  oldKvs'[i] = Collected(sample, NumChunks)
    <3>1. check /\ pass = "prefill"
      BY <2>3, <1>2
    <3>2. i >= layer + 1
      BY <2>3, <3>1
    <3>3. i >= layer /\ i # layer
      BY <3>2, <1>2
    <3>4. oldKvs[i] = Collected(sample, NumChunks)
      BY <3>1, <3>3, <1>3 DEF CollectInv
    <3>5. QED
      BY <3>3, <3>4
  <2>4. ([p \in DOMAIN Text |-> Entry(Text[p])])' = [p \in DOMAIN Text |-> Entry(Text[p])]
    BY <1>1 DEF Entry
  <2>5. QED
    BY <2>1, <2>2, <2>3, <2>4, <1>1
<1>7. CollectInv'
  BY <1>6 DEF CollectInv, Layers
<1>8. QED
  BY <1>5, <1>7

LEMMA PlainLayerStep ==
    ASSUME BlendInv, OneCheckLayer, PlainLayer
    PROVE  BlendInv'
<1>1. PICK s \in {0, 3} : InLayer(s) /\ temp' = s
  BY DEF PlainLayer
<1>2. /\ Collect(layer) /\ WriteCache(layer, Rotate(Fresh, positions)) /\ layer' = layer + 1
      /\ UNCHANGED <<scriptVars, check, collect, suffixLen, impIndices, orgPos, oldKvs, pass,
                     checkLayerIdx, positions, hidden, residual, lastRow, generated>>
  BY DEF PlainLayer, metaVars
<1>3. /\ layer \in Layers /\ layer \in Nat /\ layer + 1 \in 0..NumLayers
      /\ \/ /\ pass = "prefill" /\ s = 0 /\ ~Selected /\ generated = 0
            /\ step = "blend" => layer < MinCheckLayer
         \/ pass = "decode" /\ s = 3 /\ generated > 0
      /\ check => pass = "prefill" /\ step = "blend"
      /\ layer < NumLayers
  BY <1>1, StatusIs
<1>4. MinCheckLayer \in Nat /\ NumLayers \in Nat
  BY LayersAre
<1>5. /\ sample' = sample /\ step' = step /\ chunk' = chunk /\ Text' = Text /\ Whole' = Whole
      /\ NumChunks' = NumChunks
  BY <1>2, SameText
<1>6. ScriptInv' /\ SampleInv' /\ NoBlendError'
  BY <1>2, PassKeeps
<1>7. CollectInv' /\ hackKv' \in [Layers -> Seq(Entries)]
  <2>1. oldKvs' = oldKvs /\ \A i \in Layers : i # layer => oldKvs'[i] = oldKvs[i]
    BY <1>2
  <2>2. QED
    BY <2>1, <1>1, <1>2, CollectStep
<1>8. BlendTypeOK /\ CacheInv /\ SelectionInv /\ RowsInv
  BY DEF BlendInv
<1>9. cache' \in [Layers -> Seq(Entries)] /\ CacheInv'
  <2>1. CASE pass = "prefill"
    <3>1. \A p \in 1..Len(Text) : /\ Rotate(Fresh, positions)[p] \in Entries
                                  /\ Holds(Rotate(Fresh, positions)[p], layer, p)
      BY <2>1, <1>3, WholeRows
    <3> DEFINE rows == Rotate(Fresh, positions)
    <3> HIDE DEF rows
    <3>2. generated = 0
      BY <2>1, <1>3
    <3>3. WriteCache(layer, rows)
          /\ \A p \in 1..Len(Text) : rows[p] \in Entries /\ Holds(rows[p], layer, p)
      BY <3>1, <1>2 DEF rows
    <3>4. QED
      BY <3>2, <3>3, <2>1, <1>2, <1>3, <1>4, <1>8, PrefillCache
  <2>2. CASE pass = "decode"
    <3> DEFINE rows == Rotate(Fresh, positions)
    <3>1. /\ positions = <<Len(Text) + generated>> /\ generated \in Nat \ {0}
          /\ rows[1] \in Entries /\ rows[1].tok = Sampled(generated) /\ rows[1].ctx = Context
          /\ rows[1].rot = <<Len(Text) + generated>>
      BY <2>2, LastRow
    <3> HIDE DEF rows
    <3>2. WriteCache(layer, rows)
      BY <1>2 DEF rows
    <3>3. QED
      BY <3>1, <3>2, <2>2, <1>2, <1>3, <1>4, <1>8, DecodeCache
  <2>3. QED
    BY <2>1, <2>2, <1>3
<1>10. Selected' <=> Selected
  <2>1. CASE pass = "prefill"
    BY <2>1, <1>2, <1>3, <1>4, <1>5 DEF Selected
  <2>2. CASE pass = "decode"
    BY <2>2, <1>2, <1>3, <1>5 DEF Selected
  <2>3. QED
    BY <2>1, <2>2, <1>3
<1>11. SelectionInv'
  BY <1>2, <1>5, <1>8, <1>10 DEF SelectionInv, Selection, Suffix
<1>12. RowsInv'
  <2>1. hidden' = residual'
    BY <1>2, <1>8 DEF RowsInv
  <2>2. CASE pass = "prefill"
    <3>1. ~Selected' /\ generated' = 0 /\ hidden' = Text /\ positions' = Whole /\ temp' = 0
      BY <2>2, <1>1, <1>2, <1>3, <1>10, WholeRows
    <3>2. ASSUME check'
          PROVE  orgPos' = Whole /\ checkLayerIdx' = IF layer' > MinCheckLayer THEN 1 ELSE 0
      <4>1. check /\ layer < MinCheckLayer
        BY <2>2, <3>2, <1>2, <1>3
      <4>2. orgPos = Whole /\ checkLayerIdx = 0
        BY <4>1, <2>2, <1>3, <1>4, <1>8 DEF RowsInv
      <4>3. QED
        BY <4>1, <4>2, <1>2, <1>3, <1>4
    <3>3. QED
      BY <2>1, <2>2, <3>1, <3>2, <1>2, <1>5 DEF RowsInv
  <2>3. CASE pass = "decode"
    <3>1. generated > 0 /\ hidden = <<Sampled(generated)>> /\ positions = <<Len(Text) + generated>>
      BY <2>3, <1>8 DEF RowsInv
    <3>2. temp' = 3 /\ pass' = "decode"
      BY <2>3, <1>1, <1>2, <1>3
    <3>3. QED
      BY <2>1, <3>1, <3>2, <1>2, <1>5 DEF RowsInv, Sampled
  <2>4. QED
    BY <2>2, <2>3, <1>3
<1>13. BlendTypeOK'
  BY <1>1, <1>2, <1>3, <1>5, <1>7, <1>8, <1>9 DEF BlendTypeOK, Layers
<1>14. QED
  BY <1>6, <1>7, <1>9, <1>11, <1>12, <1>13 DEF BlendInv

\* A prefill has a slot for every token.
LEMMA PrefillSlots ==
    ASSUME BlendTypeOK, pass = "prefill"
    PROVE  Len(Slots) = Len(Text)
<1> DEFINE n == Len(Text)
<1>1. Slots = [p \in 1..n |-> p] /\ n \in Nat
  BY StateText DEF Slots
<1> HIDE DEF n
<1>2. Len(Slots) = n
  BY <1>1
<1>3. QED
  BY <1>2 DEF n

\* A layer that uses what was kept, and does not raise, was kept as many entries as
\* the prompt has tokens.
LEMMA KeptFit ==
    ASSUME BlendInv, OneCheckLayer, NEW s \in {1, 2}, InLayer(s)
    PROVE  /\ Len(Kept(sample, NumChunks)) = Len(Text) /\ orgPos = Whole
           /\ oldKvs[layer] = Collected(sample, NumChunks)
<1>1. BlendTypeOK /\ RowsInv /\ CollectInv
  BY DEF BlendInv
<1>2. /\ pass = "prefill" /\ check /\ layer \in Layers /\ layer \in Nat
      /\ s = 1 => ~Selected
  BY StatusIs
<1>3. Status(layer) = s /\ ~Raises
  BY DEF InLayer
<1>4. oldKvs[layer] = Collected(sample, NumChunks) /\ orgPos = Whole
  <2>1. layer >= layer
    BY <1>2
  <2>2. QED
    BY <2>1, <1>1, <1>2 DEF CollectInv, RowsInv
<1>5. Len(oldKvs[layer]) = Len(Text)
  <2>1. CASE s = 1
    <3>1. Len(oldKvs[layer]) = Len(hidden)
      BY <2>1, <1>3 DEF Raises
    <3>2. QED
      BY <3>1, <2>1, <1>2, WholeRows
  <2>2. CASE s = 2
    <3>1. Len(oldKvs[layer]) = Len(Slots)
      BY <2>2, <1>3 DEF Raises
    <3>2. QED
      BY <3>1, <1>1, <1>2, PrefillSlots
  <2>3. QED
    BY <2>1, <2>2
<1>6. Len(Collected(sample, NumChunks)) = Len(Kept(sample, NumChunks))
  <2>1. ScriptTypes
    BY <1>1 DEF BlendTypeOK, ScriptTypes
  <2>2. QED
    BY <2>1, SampleKept
<1>7. QED
  BY <1>4, <1>5, <1>6

\* The old keys that it takes are entries of the tokens kept.
LEMMA OldKeysAre ==
    ASSUME BlendInv, OneCheckLayer, NEW s \in {1, 2}, InLayer(s)
    PROVE  /\ OldKeys(layer) \in Seq(Entries) /\ DOMAIN OldKeys(layer) = 1..Len(Text)
           /\ \A p \in 1..Len(Text) :
                LET t == Kept(sample, NumChunks)[p] IN
                /\ OldKeys(layer)[p] = [tok |-> t, ctx |-> <<sample, ChunkOf(t)>>, rot |-> <<p>>]
                /\ OldKeys(layer)[p] \in Entries
<1> DEFINE x == Kept(sample, NumChunks)
<1>1. BlendTypeOK
  BY DEF BlendInv
<1>2. Len(x) = Len(Text) /\ orgPos = Whole /\ oldKvs[layer] = Collected(sample, NumChunks)
  BY KeptFit
<1>3. \A p \in 1..Len(Text) :
        /\ DOMAIN OldKeys(layer) = 1..Len(Text)
        /\ OldKeys(layer)[p] = [tok |-> x[p], ctx |-> <<sample, ChunkOf(x[p])>>, rot |-> <<p>>]
  BY <1>1, <1>2, OldRows
<1>4. /\ Len(Text) \in Nat /\ Len(Text) >= 1
  BY <1>1, StateText
<1>5. /\ sample \in Nat /\ x \in Seq(TokenSet)
      /\ \A p \in 1..Len(Text) : ChunkOf(x[p]) \in Nat
  <2>1. ScriptTypes
    BY <1>1 DEF BlendTypeOK, ScriptTypes
  <2>2. QED
    BY <2>1, <1>2, SampleKept
<1>6. ASSUME NEW p \in 1..Len(Text)
      PROVE  OldKeys(layer)[p] \in Entries
  <2> DEFINE a == x[p]
             b == <<sample, ChunkOf(x[p])>>
             c == <<p>>
  <2>1. a \in TokenSet /\ b \in Nat \X Nat /\ c \in Seq(Nat)
    <3>1. x[p] \in TokenSet
      <4> HIDE DEF x
      <4>1. QED
        BY <1>2, <1>5
    <3>2. QED
      BY <3>1, <1>5
  <2>2. OldKeys(layer)[p] = [tok |-> a, ctx |-> b, rot |-> c]
    BY <1>3
  <2> HIDE DEF a, b, c
  <2>3. [tok |-> a, ctx |-> b, rot |-> c] \in Entries
    BY <2>1 DEF Entries
  <2>4. QED
    BY <2>2, <2>3
<1>7. DOMAIN OldKeys(layer) = 1..Len(Text)
  <2>1. 1 \in 1..Len(Text)
    BY <1>4
  <2>2. QED
    BY <2>1, <1>3
<1>8. OldKeys(layer) \in Seq(Entries)
  <2>1. OldKeys(layer) = [p \in DOMAIN OldKeys(layer) |-> OldKeys(layer)[p]]
    <3>1. OldKeys(layer) = [p \in DOMAIN oldKvs[layer] |->
                              [oldKvs[layer][p] EXCEPT !.rot = Append(@, orgPos[p])]]
      BY DEF OldKeys, Rotate
    <3>2. QED
      BY <3>1
  <2> DEFINE k == OldKeys(layer)
             n == Len(Text)
  <2> HIDE DEF k, n
  <2>2. k = [p \in 1..n |-> k[p]] /\ n \in Nat /\ \A p \in 1..n : k[p] \in Entries
    BY <2>1, <1>4, <1>6, <1>7 DEF k, n
  <2>3. k \in [1..n -> Entries]
    BY <2>2
  <2>4. k \in Seq(Entries)
    BY <2>2, <2>3
  <2>5. QED
    BY <2>4 DEF k
<1>9. QED
  BY <1>3, <1>6, <1>7, <1>8

\* The tokens selected are the suffix and others before it.
LEMMA ImportantIs ==
    ASSUME BlendTypeOK, suffixLen \in 1..(Len(Text) - 1), NEW S \in Important(Len(Text))
    PROVE  /\ S \in Selection /\ S \in SUBSET (1..Len(Text))
           /\ Sorted(S) \in Seq(Nat) /\ Len(Sorted(S)) = Cardinality(S)
           /\ DOMAIN Sorted(S) = 1..Cardinality(S) /\ Cardinality(S) \in Nat
           /\ \A i \in 1..Cardinality(S) : Sorted(S)[i] \in 1..Len(Text)
<1>1. Len(Text) \in Nat
  BY StateText
<1> DEFINE m == Len(Text)
           n == suffixLen
<1>2. m \in Nat /\ n \in 1..(m - 1)
  BY <1>1
<1>3. PICK T \in SUBSET (1..(m - n)) : S = T \cup ((m - n + 1)..m)
  BY DEF Important
<1> HIDE DEF m, n
<1>4. S \in SUBSET (1..m) /\ (m - n + 1)..m \subseteq S
  <2>1. \A p \in 1..(m - n) : p \in 1..m
    BY <1>2
  <2>2. \A p \in (m - n + 1)..m : p \in 1..m
    BY <1>2
  <2>3. QED
    BY <2>1, <2>2, <1>3
<1>5. S \in Selection
  BY <1>4 DEF Selection, Suffix, m, n
<1>6. /\ Cardinality(S) \in 0..m /\ DOMAIN Sorted(S) = 1..Cardinality(S)
      /\ \A i \in 1..Cardinality(S) : Sorted(S)[i] \in S
  BY <1>2, <1>4, SortedIs
<1>7. \A i \in 1..Cardinality(S) : Sorted(S)[i] \in 1..m
  BY <1>4, <1>6
<1> DEFINE k == Cardinality(S)
           o == Sorted(S)
<1>8. o = [i \in 1..k |-> o[i]]
  <2> DEFINE E(i) == CHOOSE p \in S : Cardinality({q \in S : q <= p}) = i
  <2>1. o = [i \in 1..k |-> E(i)]
    BY Zenon DEF Sorted
  <2> HIDE DEF E, o, k
  <2>2. QED
    BY <2>1
<1> HIDE DEF k, o
<1>9. k \in Nat /\ \A i \in 1..k : o[i] \in Nat
  BY <1>2, <1>6, <1>7 DEF k, o
<1>10. o \in [1..k -> Nat]
  BY <1>8, <1>9
<1>11. o \in Seq(Nat) /\ DOMAIN o = 1..k
  BY <1>9, <1>10
<1>12. Len(o) = k
  BY <1>9, <1>11
<1>13. QED
  BY <1>4, <1>5, <1>6, <1>7, <1>9, <1>11, <1>12 DEF k, o, m

\* Rows selected by indices in range are rows.
LEMMA SelectIs ==
    ASSUME NEW T, NEW rows \in Seq(T), NEW idx \in Seq(Nat),
           \A i \in 1..Len(idx) : idx[i] \in 1..Len(rows)
    PROVE  /\ Select(rows, idx) \in Seq(T) /\ Len(Select(rows, idx)) = Len(idx)
           /\ DOMAIN Select(rows, idx) = 1..Len(idx)
           /\ \A i \in 1..Len(idx) : Select(rows, idx)[i] = rows[idx[i]]
<1>1. Len(idx) \in Nat /\ DOMAIN idx = 1..Len(idx)
  OBVIOUS
<1>2. \A i \in 1..Len(idx) : rows[idx[i]] \in T
  BY ElementOfSeq
<1>3. Select(rows, idx) = [i \in 1..Len(idx) |-> rows[idx[i]]]
  BY <1>1 DEF Select
<1> DEFINE n == Len(idx)
           f == Select(rows, idx)
<1>4. f \in [1..n -> T] /\ \A i \in 1..n : f[i] = rows[idx[i]]
  BY <1>2, <1>3
<1>5. n \in Nat
  BY <1>1
<1> HIDE DEF n, f
<1>6. f \in Seq(T) /\ DOMAIN f = 1..n
  BY <1>4, <1>5
<1>7. Len(f) = n
  BY <1>5, <1>6
<1>8. QED
  BY <1>4, <1>6, <1>7 DEF n, f

LEMMA CheckLayerStep ==
    ASSUME BlendInv, OneCheckLayer, CheckLayer
    PROVE  BlendInv'
<1> DEFINE s == 1
<1>1. /\ InLayer(s) /\ temp' = 1 /\ Collect(layer) /\ checkLayerIdx' = checkLayerIdx + 1
      /\ WriteCache(layer, Rotate(Fresh, positions)) /\ layer' = layer + 1
      /\ oldKvs' = [oldKvs EXCEPT ![layer] = OldKeys(layer)]
      /\ UNCHANGED <<scriptVars, check, collect, suffixLen, orgPos, pass, lastRow, generated>>
  BY DEF CheckLayer
<1>2. PICK S \in Important(Len(hidden)) :
        /\ impIndices' = Sorted(S) /\ hidden' = Select(hidden, Sorted(S))
        /\ residual' = Select(residual, Sorted(S)) /\ positions' = Select(positions, Sorted(S))
  BY DEF CheckLayer
<1> HIDE DEF s
<1>3. /\ pass = "prefill" /\ check /\ step = "blend" /\ generated = 0 /\ ~Selected
      /\ layer = MinCheckLayer /\ layer \in Layers /\ layer \in Nat /\ layer + 1 \in 0..NumLayers
      /\ layer < NumLayers
  BY <1>1, StatusIs DEF s
<1>4. MinCheckLayer \in Nat /\ NumLayers \in Nat
  BY LayersAre
<1>5. /\ sample' = sample /\ step' = step /\ chunk' = chunk /\ Text' = Text /\ Whole' = Whole
      /\ NumChunks' = NumChunks
  BY <1>1, SameText
<1>6. ScriptInv' /\ SampleInv' /\ NoBlendError'
  BY <1>1, PassKeeps
<1>7. BlendTypeOK /\ CacheInv /\ RowsInv /\ ScriptInv
  BY DEF BlendInv
<1>8. oldKvs \in [Layers -> Seq(Entries)] /\ checkLayerIdx \in Nat
  BY <1>7, TypesAre
<1>9. CollectInv' /\ hackKv' \in [Layers -> Seq(Entries)]
  <2>1. \A i \in Layers : i # layer => oldKvs'[i] = oldKvs[i]
    BY <1>1, <1>8
  <2>2. QED
    BY <2>1, <1>1, <1>3, CollectStep
<1>10. oldKvs' \in [Layers -> Seq(Entries)]
  <2>1. OldKeys(layer) \in Seq(Entries)
    BY <1>1, OldKeysAre DEF s
  <2>2. QED
    BY <2>1, <1>1, <1>3, <1>8
<1>11. /\ hidden = Text /\ residual = Text /\ positions = Whole
       /\ \A p \in 1..Len(Text) : /\ Rotate(Fresh, positions)[p] \in Entries
                                  /\ Holds(Rotate(Fresh, positions)[p], layer, p)
  BY <1>3, WholeRows DEF BlendInv
<1>12. cache' \in [Layers -> Seq(Entries)] /\ CacheInv'
  <2> DEFINE rows == Rotate(Fresh, positions)
  <2> HIDE DEF rows
  <2>1. WriteCache(layer, rows)
        /\ \A p \in 1..Len(Text) : rows[p] \in Entries /\ Holds(rows[p], layer, p)
    BY <1>1, <1>11 DEF rows
  <2>2. layer <= MinCheckLayer
    BY <1>3
  <2>3. QED
    BY <2>1, <2>2, <1>1, <1>3, <1>4, <1>7, PrefillCache
<1>13. /\ S \in Selection /\ Sorted(S) \in Seq(Nat) /\ Len(Sorted(S)) \in Nat
       /\ DOMAIN Sorted(S) = 1..Len(Sorted(S))
       /\ \A i \in 1..Len(Sorted(S)) : Sorted(S)[i] \in 1..Len(Text)
  <2>1. suffixLen \in 1..(Len(Text) - 1)
    BY <1>3, <1>7 DEF ScriptInv
  <2>2. S \in Important(Len(Text))
    BY <1>2, <1>11
  <2>3. QED
    BY <2>1, <2>2, <1>7, ImportantIs
<1>14. /\ hidden' = Select(Text, impIndices') /\ residual' = hidden' /\ hidden' \in Seq(TokenSet)
       /\ positions' = impIndices' /\ impIndices' \in Seq(Nat)
  <2> DEFINE idx == Sorted(S)
  <2>1. Text \in Seq(TokenSet)
    BY <1>7, StateText DEF IsText
  <2>2. \A i \in 1..Len(idx) : Whole[idx[i]] = idx[i]
    BY <1>7, <1>13, StateText
  <2>3. idx \in Seq(Nat) /\ \A i \in 1..Len(idx) : idx[i] \in 1..Len(Text)
    BY <1>13
  <2>4. impIndices' = idx /\ hidden' = Select(Text, idx) /\ residual' = Select(Text, idx)
        /\ positions' = Select(Whole, idx)
    BY <1>2, <1>11
  <2> HIDE DEF idx
  <2>5. Select(Text, idx) \in Seq(TokenSet)
    BY <2>1, <2>3, SelectIs
  <2>6. Select(Whole, idx) = idx
    <3>1. DOMAIN idx = 1..Len(idx) /\ idx = [i \in 1..Len(idx) |-> idx[i]]
      BY <2>3
    <3>2. Select(Whole, idx) = [i \in 1..Len(idx) |-> Whole[idx[i]]]
      BY <3>1 DEF Select
    <3>3. QED
      BY <3>1, <3>2, <2>2
  <2>7. QED
    BY <2>3, <2>4, <2>5, <2>6
<1>15. SelectionInv'
  <2>1. S \in Selection'
    BY <1>1, <1>5, <1>13 DEF Selection, Suffix
  <2>2. QED
    BY <2>1, <1>2 DEF SelectionInv, Sorted
<1>16. RowsInv'
  <2>1. Selected'
    BY <1>1, <1>3, <1>4, <1>5 DEF Selected
  <2>2. orgPos' = Whole' /\ checkLayerIdx' = 1 /\ layer' > MinCheckLayer
    BY <1>1, <1>3, <1>4, <1>5, <1>7 DEF RowsInv
  <2>3. hidden' = Select(Text', impIndices') /\ residual' = hidden' /\ positions' = impIndices'
    BY <1>5, <1>14
  <2>4. pass' = "prefill" /\ generated' = 0 /\ temp' \in {1, 2}
    BY <1>1, <1>3
  <2>5. QED
    BY <2>1, <2>2, <2>3, <2>4 DEF RowsInv, Select
<1>17. BlendTypeOK'
  BY <1>1, <1>3, <1>5, <1>7, <1>8, <1>9, <1>10, <1>12, <1>14 DEF BlendTypeOK, Layers
<1>18. QED
  BY <1>6, <1>9, <1>12, <1>15, <1>16, <1>17 DEF BlendInv

\* The rows of a layer after the check layer: those of the selected tokens.
LEMMA SelectedAre ==
    ASSUME BlendInv, step = "blend", Selected
    PROVE  /\ impIndices \in Seq(Nat) /\ Len(impIndices) \in 1..Len(Text)
           /\ DOMAIN impIndices = 1..Len(impIndices)
           /\ impIndices[Len(impIndices)] = Len(Text)
           /\ \A p \in Suffix : p \in Range(impIndices)
           /\ \A r \in 1..Len(impIndices) :
                LET sees == Len(Text) - Len(impIndices) + r IN
                /\ impIndices[r] \in 1..Len(Text)
                /\ sees >= impIndices[r]
                /\ impIndices[r] > Len(Text) - suffixLen => sees = impIndices[r]
<1>1. BlendTypeOK /\ ScriptInv /\ SelectionInv
  BY DEF BlendInv
<1>2. Len(Text) \in Nat /\ suffixLen \in 1..(Len(Text) - 1)
  BY <1>1, StateText DEF ScriptInv
<1>3. PICK S \in Selection : impIndices = Sorted(S)
  BY <1>1 DEF SelectionInv
<1> DEFINE m == Len(Text)
           k == suffixLen
           n == Cardinality(S)
           o == Sorted(S)
<1>4. m \in Nat /\ k \in 1..m /\ S \in SUBSET (1..m) /\ (m - k + 1)..m \subseteq S
  BY <1>2, <1>3 DEF Selection, Suffix
<1> HIDE DEF m, k, n, o
<1>5. /\ n \in 1..m /\ o[n] = m
      /\ \A r \in 1..n : /\ o[r] \in 1..m /\ m - n + r >= o[r]
                         /\ o[r] > m - k => m - n + r = o[r]
  <2>1. Aligned(S, m, k)
    BY <1>4, SelectedRows
  <2>2. QED
    BY <2>1 DEF Aligned, n, o
<1>6. DOMAIN o = 1..n /\ \A p \in S : \E i \in 1..n : o[i] = p
  BY <1>4, SortedIs DEF n, o
<1>7. impIndices \in Seq(Nat) /\ impIndices = o
  BY <1>1, <1>3, TypesAre DEF o
<1>8. Len(impIndices) = n
  BY <1>4, <1>5, <1>6, <1>7
<1>9. \A p \in Suffix : p \in Range(impIndices)
  BY <1>4, <1>6, <1>7 DEF Suffix, Range, m, k
<1>10. QED
  BY <1>5, <1>6, <1>7, <1>8, <1>9 DEF m, k

LEMMA ReuseLayerStep ==
    ASSUME BlendInv, OneCheckLayer, ReuseLayer
    PROVE  BlendInv'
<1> DEFINE s == 2
           new == Rotate(Fresh, positions)
           keys == Store(OldKeys(layer), impIndices, new)
           L == Len(Text)
<1>1. /\ InLayer(s) /\ temp' = 2 /\ Collect(layer)
      /\ WriteCache(layer, keys) /\ layer' = layer + 1
      /\ oldKvs' = [oldKvs EXCEPT ![layer] = keys]
      /\ UNCHANGED <<scriptVars, check, collect, suffixLen, impIndices, orgPos, pass,
                     checkLayerIdx, positions, hidden, residual, lastRow, generated>>
  BY DEF ReuseLayer, metaVars
<1> HIDE DEF s, keys
<1>2. /\ pass = "prefill" /\ check /\ step = "blend" /\ generated = 0 /\ Selected
      /\ layer > MinCheckLayer /\ layer \in Layers /\ layer \in Nat /\ layer + 1 \in 0..NumLayers
      /\ layer < NumLayers
  BY <1>1, StatusIs DEF s
<1>3. MinCheckLayer \in Nat /\ NumLayers \in Nat
  BY LayersAre
<1>4. /\ sample' = sample /\ step' = step /\ chunk' = chunk /\ Text' = Text /\ Whole' = Whole
      /\ NumChunks' = NumChunks
  BY <1>1, SameText
<1>5. ScriptInv' /\ SampleInv' /\ NoBlendError'
  BY <1>1, PassKeeps
<1>6. BlendTypeOK /\ CacheInv /\ RowsInv /\ SelectionInv
  BY DEF BlendInv
<1>7. oldKvs \in [Layers -> Seq(Entries)] /\ L \in Nat /\ Context \in Nat \X Nat
      /\ DOMAIN Text = 1..L /\ \A p \in 1..L : Text[p] \in TokenSet
      /\ suffixLen \in Nat
  BY <1>6, TypesAre, StateText
<1>8. CollectInv' /\ hackKv' \in [Layers -> Seq(Entries)]
  <2>1. \A i \in Layers : i # layer => oldKvs'[i] = oldKvs[i]
    BY <1>1, <1>7
  <2>2. QED
    BY <2>1, <1>1, <1>2, CollectStep
<1>9. /\ hidden = Select(Text, impIndices) /\ positions = impIndices
  BY <1>2, <1>6 DEF RowsInv
<1>10. /\ DOMAIN impIndices = 1..Len(impIndices)
       /\ \A r \in 1..Len(impIndices) : impIndices[r] \in 1..L
       /\ \A p \in Suffix : p \in Range(impIndices)
  BY <1>2, SelectedAre
<1>11. /\ DOMAIN OldKeys(layer) = 1..L /\ Len(Kept(sample, NumChunks)) = L
       /\ \A p \in 1..L :
            LET t == Kept(sample, NumChunks)[p] IN
            /\ OldKeys(layer)[p] \in Entries
            /\ OldKeys(layer)[p] = [tok |-> t, ctx |-> <<sample, ChunkOf(t)>>, rot |-> <<p>>]
  BY <1>1, KeptFit, OldKeysAre DEF s
<1> DEFINE row(p) == CHOOSE r \in DOMAIN impIndices : impIndices[r] = p
<1>12. keys = [p \in 1..L |-> IF p \in Range(impIndices) THEN new[row(p)] ELSE OldKeys(layer)[p]]
  BY <1>11 DEF Store, keys
<1> HIDE DEF new
<1>13. ASSUME NEW p \in 1..L
       PROVE  keys[p] \in Entries /\ Holds(keys[p], layer, p)
  <2>1. TokenAt(p) = Text[p]
    BY <1>7 DEF TokenAt
  <2>2. CASE p \in Range(impIndices)
    <3> DEFINE r == row(p)
    <3>1. r \in 1..Len(impIndices) /\ impIndices[r] = p
      BY <2>2, <1>10 DEF Range
    <3> HIDE DEF row, r
    <3>2. r \in DOMAIN hidden /\ hidden[r] = Text[p] /\ positions[r] = p /\ positions[r] \in Nat
      BY <3>1, <1>9, <1>10 DEF Select
    <3>3. new[r] = [tok |-> hidden[r], ctx |-> Context, rot |-> <<positions[r]>>]
      BY <3>2, FreshRows DEF new
    <3>4. new[r] = [tok |-> Text[p], ctx |-> Context, rot |-> <<p>>]
      BY <3>2, <3>3
    <3>5. keys[p] = new[r]
      BY <2>2, <1>12 DEF r
    <3>6. Text[p] \in TokenSet /\ <<p>> \in Seq(Nat)
      BY <1>7
    <3>7. [tok |-> Text[p], ctx |-> Context, rot |-> <<p>>] \in Entries
      BY <3>6, <1>7 DEF Entries
    <3>8. Holds([tok |-> Text[p], ctx |-> Context, rot |-> <<p>>], layer, p)
      BY <2>1 DEF Holds
    <3>9. QED
      BY <3>4, <3>5, <3>7, <3>8
  <2>3. CASE p \notin Range(impIndices)
    <3>1. keys[p] = OldKeys(layer)[p]
      BY <2>3, <1>12
    <3>2. p <= L - suffixLen
      <4>1. p \notin Suffix
        BY <2>3, <1>10
      <4>2. QED
        BY <4>1, <1>7 DEF Suffix
    <3> DEFINE t == Kept(sample, NumChunks)[p]
               e == [tok |-> t, ctx |-> <<sample, ChunkOf(t)>>, rot |-> <<p>>]
    <3>3. Reused(e, layer, p)
      BY <2>3, <3>2, <1>2, <1>11 DEF Reused
    <3>4. Holds(e, layer, p)
      BY <3>3 DEF Holds
    <3>5. keys[p] = e
      BY <3>1, <1>11
    <3> HIDE DEF e
    <3>6. OldKeys(layer)[p] \in Entries
      BY <1>11
    <3>7. QED
      BY <3>1, <3>4, <3>5, <3>6
  <2>4. QED
    BY <2>2, <2>3
<1>14. cache' \in [Layers -> Seq(Entries)] /\ CacheInv'
  BY <1>1, <1>2, <1>3, <1>6, <1>13, PrefillCache
<1>15. oldKvs' \in [Layers -> Seq(Entries)]
  <2>1. DOMAIN keys = 1..L /\ keys = [p \in 1..L |-> keys[p]]
    BY <1>12
  <2>2. keys \in [1..L -> Entries]
    BY <2>1, <1>13
  <2>3. keys \in Seq(Entries)
    BY <2>2, <1>7
  <2>4. QED
    BY <2>3, <1>1, <1>2, <1>7
<1>16. Selected'
  BY <1>1, <1>2, <1>3, <1>4 DEF Selected
<1>17. SelectionInv'
  BY <1>1, <1>2, <1>4, <1>6 DEF SelectionInv, Selection, Suffix
<1>18. RowsInv'
  <2>1. hidden' = residual' /\ orgPos' = Whole' /\ checkLayerIdx' = 1 /\ layer' > MinCheckLayer
    BY <1>1, <1>2, <1>3, <1>4, <1>6 DEF RowsInv
  <2>2. hidden' = Select(Text', impIndices') /\ positions' = impIndices'
    BY <1>1, <1>4, <1>9
  <2>3. pass' = "prefill" /\ generated' = 0 /\ temp' \in {1, 2}
    BY <1>1, <1>2
  <2>4. QED
    BY <1>16, <2>1, <2>2, <2>3 DEF RowsInv, Select
<1>19. BlendTypeOK'
  BY <1>1, <1>2, <1>4, <1>6, <1>7, <1>8, <1>14, <1>15 DEF BlendTypeOK, Layers
<1>20. QED
  BY <1>5, <1>8, <1>14, <1>17, <1>18, <1>19 DEF BlendInv

\* What a layer raises for: as many entries were kept as tokens are not in the
\* prompt.  Everything else fits.
LEMMA RaisingIs ==
    ASSUME BlendInv, OneCheckLayer, Passing, Raises
    PROVE  /\ step = "blend" /\ generated = 0 /\ pass = "prefill"
           /\ Len(Reads[sample].prompt) # Len(JoinChunks(sample, NumChunks))
<1>1. BlendTypeOK /\ RowsInv /\ CollectInv
  BY DEF BlendInv
<1>2. /\ Len(Text) \in Nat /\ Text \in Seq(TokenSet)
  BY <1>1, StateText DEF IsText
<1>3. pass \in {"prefill", "decode"}
  BY DEF Passing
<1>4. Status(layer) \in {0, 1, 2, 3}
  <2>1. temp \in {0, 1, 2, 3}
    BY <1>1 DEF BlendTypeOK
  <2>2. QED
    BY <2>1 DEF Status
<1>5. ScriptTypes
  BY <1>1 DEF BlendTypeOK, ScriptTypes
<1>6. /\ Len(Collected(sample, NumChunks)) = Len(JoinChunks(sample, NumChunks)) + 1
      /\ step = "blend" => Len(Text) = Len(Reads[sample].prompt) + 1
  BY <1>5, SampleKept, TextIs
<1>7. ASSUME check, pass = "prefill", layer \in Layers, layer \in Nat, step = "blend",
             Len(oldKvs[layer]) # Len(Text)
      PROVE  Len(Reads[sample].prompt) # Len(JoinChunks(sample, NumChunks))
  <2>1. layer >= layer
    BY <1>7
  <2>2. oldKvs[layer] = Collected(sample, NumChunks)
    BY <2>1, <1>1, <1>7 DEF CollectInv
  <2>3. QED
    BY <2>2, <1>6, <1>7
<1>8. CASE Status(layer) = 1
  <2>1. /\ layer \in Layers /\ layer \in Nat /\ pass = "prefill" /\ check /\ step = "blend"
        /\ generated = 0 /\ layer = MinCheckLayer /\ ~Selected
    BY <1>8, StatusAt
  <2>2. hidden = Text
    BY <2>1, WholeRows
  <2>3. checkLayerIdx = 0
    <3>1. ~(layer > MinCheckLayer)
      BY <2>1
    <3>2. QED
      BY <3>1, <2>1, <1>1 DEF RowsInv
  <2>4. Len(oldKvs[layer]) # Len(Text)
    BY <2>2, <2>3, <1>8 DEF Raises, NoIndex
  <2>5. QED
    BY <2>1, <2>4, <1>7
<1>9. CASE Status(layer) = 2
  <2>1. /\ layer \in Layers /\ layer \in Nat /\ pass = "prefill" /\ check /\ step = "blend"
        /\ generated = 0 /\ Selected
    BY <1>9, StatusAt
  <2>2. hidden = Select(Text, impIndices)
    BY <2>1, <1>1 DEF RowsInv
  <2>3. /\ impIndices \in Seq(Nat)
        /\ \A r \in 1..Len(impIndices) : impIndices[r] \in 1..Len(Text)
    BY <2>1, SelectedAre
  <2>4. Len(hidden) = Len(impIndices)
    BY <2>2, <2>3, <1>2, SelectIs
  <2>5. Len(oldKvs[layer]) # Len(Slots)
    BY <2>4, <1>9 DEF Raises
  <2>6. Len(Slots) = Len(Text)
    BY <2>1, <1>1, PrefillSlots
  <2>7. QED
    BY <2>1, <2>5, <2>6, <1>7
<1>10. CASE Status(layer) \in {0, 3}
  <2>1. Len(hidden) # Len(Slots)
    BY <1>10 DEF Raises
  <2>2. \/ pass = "prefill" /\ ~Selected
        \/ pass = "decode"
    BY <1>10, StatusAt
  <2>3. CASE pass = "prefill" /\ ~Selected
    <3>1. hidden = Text
      BY <2>3, WholeRows
    <3>2. Len(Slots) = Len(Text)
      BY <2>3, <1>1, PrefillSlots
    <3>3. QED
      BY <3>1, <3>2, <2>1
  <2>4. CASE pass = "decode"
    <3>1. hidden = <<Sampled(generated)>> /\ positions = <<Len(Text) + generated>>
      BY <2>4, LastRow
    <3>2. Slots = positions
      BY <2>4 DEF Slots
    <3>3. Len(hidden) = 1 /\ Len(Slots) = 1
      BY <3>1, <3>2
    <3>4. QED
      BY <3>3, <2>1
  <2>5. QED
    BY <2>2, <2>3, <2>4
<1>11. QED
  BY <1>4, <1>8, <1>9, <1>10

LEMMA LayerRaisesStep ==
    ASSUME BlendInv, OneCheckLayer, LayerRaises
    PROVE  BlendInv'
<1>1. /\ Passing /\ Raises /\ pass' = "raised"
      /\ UNCHANGED <<scriptVars, check, collect, suffixLen, impIndices, orgPos, hackKv, oldKvs,
                     cache, layer, checkLayerIdx, temp, positions, hidden, residual, lastRow,
                     generated>>
  BY DEF LayerRaises, metaVars
<1>2. /\ step = "blend" /\ generated = 0 /\ pass = "prefill"
      /\ Len(Reads[sample].prompt) # Len(JoinChunks(sample, NumChunks))
  BY <1>1, RaisingIs
<1>3. /\ sample' = sample /\ step' = step /\ chunk' = chunk /\ Text' = Text
      /\ NumChunks' = NumChunks /\ Tokens' = Tokens
  BY <1>1, SameText
<1>4. BlendTypeOK /\ ScriptInv /\ RowsInv /\ CollectInv
  BY DEF BlendInv
<1>5. ScriptInv'
  BY <1>1, <1>2, <1>3, <1>4 DEF ScriptInv
<1>6. ~Selected' /\ ~(pass' = "prefill" \/ generated' > 0) /\ pass' # "decode"
      /\ pass' # "prefill"
  BY <1>1, <1>2 DEF Selected
<1>7. SelectionInv' /\ CacheInv' /\ SampleInv'
  BY <1>6 DEF SelectionInv, CacheInv, SampleInv
<1>8. RowsInv'
  BY <1>1, <1>4, <1>6 DEF RowsInv
<1>9. NoBlendError'
  BY <1>1, <1>2, <1>3 DEF NoBlendError
<1>10. CollectInv'
  BY <1>1, <1>2, <1>3, <1>4 DEF CollectInv, Layers
<1>11. BlendTypeOK'
  BY <1>1, <1>3, <1>4 DEF BlendTypeOK, Layers
<1>12. QED
  BY <1>5, <1>7, <1>8, <1>9, <1>10, <1>11 DEF BlendInv

LEMMA SampleStep ==
    ASSUME BlendInv, OneCheckLayer, Sample
    PROVE  BlendInv'
<1>1. /\ pass \in {"prefill", "decode"} /\ layer = NumLayers
      /\ lastRow' = IF check THEN hidden[Len(hidden)] ELSE hidden[Len(Slots)]
      /\ check' = FALSE /\ generated' = generated + 1 /\ pass' = "none"
      /\ UNCHANGED <<scriptVars, collect, suffixLen, impIndices, orgPos, hackKv, oldKvs, cache,
                     layer, checkLayerIdx, temp, positions, hidden, residual>>
  BY DEF Sample
<1>2. /\ MinCheckLayer \in Nat /\ NumLayers \in Nat /\ MinCheckLayer < NumLayers
  BY LayersAre
<1>3. /\ sample' = sample /\ step' = step /\ chunk' = chunk /\ Text' = Text /\ Context' = Context
      /\ NumChunks' = NumChunks /\ Tokens' = Tokens /\ \A t : Entry(t)' = Entry(t)
  BY <1>1, SameText
<1>4. BlendTypeOK /\ ScriptInv /\ SelectionInv /\ RowsInv /\ CollectInv /\ CacheInv
  BY DEF BlendInv
<1>5. /\ generated \in Nat /\ check \in BOOLEAN /\ Len(Text) \in Nat /\ Len(Text) >= 1
      /\ DOMAIN Text = 1..Len(Text) /\ \A p \in 1..Len(Text) : Text[p] \in TokenSet
      /\ Whole = [p \in 1..Len(Text) |-> p]
  BY <1>4, TypesAre, StateText
<1>6. /\ generated < Tokens /\ (check <=> step = "blend" /\ generated = 0)
      /\ pass = "prefill" => generated = 0
      /\ pass = "decode" => generated > 0
  BY <1>1, <1>4 DEF ScriptInv, RowsInv
<1>7. /\ Tokens \in Nat /\ MaxTokens \in Nat /\ Tokens <= MaxTokens
      /\ step = "collect" => Tokens = 1
  <2>1. MaxTokens \in Nat \ {0}
    BY CacheBlendAssumption
  <2>2. QED
    BY <2>1 DEF Tokens
<1>8. step = "collect" => pass = "prefill"
  BY <1>1, <1>5, <1>6, <1>7
<1>9. lastRow' = (IF generated' = 1 THEN Text[Len(Text)] ELSE Sampled(generated' - 1))
      /\ lastRow' \in TokenSet
  <2>1. CASE check
    <3>1. pass = "prefill" /\ generated = 0 /\ step = "blend" /\ Selected
      BY <2>1, <1>1, <1>2, <1>5, <1>6 DEF Selected
    <3>2. hidden = Select(Text, impIndices)
      BY <3>1, <1>4 DEF RowsInv
    <3>3. /\ impIndices \in Seq(Nat) /\ Len(impIndices) \in 1..Len(Text)
          /\ impIndices[Len(impIndices)] = Len(Text)
          /\ \A r \in 1..Len(impIndices) : impIndices[r] \in 1..Len(Text)
      BY <3>1, SelectedAre
    <3>4. Text \in Seq(TokenSet)
      BY <1>4, StateText DEF IsText
    <3>5. Len(hidden) = Len(impIndices) /\ hidden[Len(impIndices)] = Text[Len(Text)]
      BY <3>2, <3>3, <3>4, SelectIs
    <3>6. lastRow' = Text[Len(Text)] /\ generated' = 1
      BY <2>1, <3>1, <3>5, <1>1
    <3>7. QED
      BY <3>6, <1>5
  <2>2. CASE ~check /\ pass = "prefill"
    <3>1. ~Selected /\ generated = 0
      BY <2>2, <1>5, <1>6 DEF Selected
    <3>2. hidden = Text
      BY <2>2, <3>1, <1>4 DEF RowsInv
    <3>3. Slots = [p \in 1..Len(Text) |-> p]
      BY <2>2, <1>5 DEF Slots
    <3>4. Len(Slots) = Len(Text)
      <4> DEFINE n == Len(Text)
      <4>1. Slots = [p \in 1..n |-> p] /\ n \in Nat
        BY <3>3, <1>5
      <4> HIDE DEF n
      <4>2. Len(Slots) = n
        BY <4>1
      <4>3. QED
        BY <4>2 DEF n
    <3>5. lastRow' = Text[Len(Text)] /\ generated' = 1
      BY <2>2, <3>1, <3>2, <3>4, <1>1
    <3>6. QED
      BY <3>5, <1>5
  <2>3. CASE ~check /\ pass = "decode"
    <3>1. /\ hidden = <<Sampled(generated)>> /\ positions = <<Len(Text) + generated>>
          /\ generated \in Nat \ {0} /\ Sampled(generated) \in TokenSet
      BY <2>3, LastRow
    <3>2. Slots = positions /\ Len(Slots) = 1
      BY <2>3, <3>1 DEF Slots
    <3>3. lastRow' = Sampled(generated)
      BY <2>3, <3>1, <3>2, <1>1
    <3>4. generated' # 1 /\ generated' - 1 = generated
      BY <3>1, <1>1
    <3>5. QED
      BY <3>1, <3>3, <3>4
  <2>4. QED
    BY <2>1, <2>2, <2>3, <1>1
<1>10. SampleInv' /\ NoBlendError'
  BY <1>1, <1>3, <1>9 DEF SampleInv, Sampled, NoBlendError
<1>11. ScriptInv'
  <2>1. generated' <= Tokens /\ generated' # 0
    BY <1>1, <1>5, <1>6, <1>7
  <2>2. QED
    BY <2>1, <1>1, <1>3, <1>4 DEF ScriptInv
<1>12. SelectionInv'
  <2>1. ASSUME Selected'
        PROVE  Selected
    <3>1. step = "blend"
      BY <2>1, <1>3 DEF Selected
    <3>2. CASE pass = "prefill"
      BY <3>1, <3>2, <1>1, <1>2 DEF Selected
    <3>3. CASE pass = "decode"
      BY <3>1, <3>3, <1>6 DEF Selected
    <3>4. QED
      BY <3>2, <3>3, <1>1
  <2>2. QED
    BY <2>1, <1>1, <1>3, <1>4 DEF SelectionInv, Selection, Suffix
<1>13. RowsInv'
  BY <1>1, <1>4 DEF RowsInv
<1>14. CollectInv'
  <2>1. ASSUME NEW i \in Layers, step = "collect"
        PROVE  /\ hackKv[i] = [p \in DOMAIN Text |-> Entry(Text[p])]
               /\ chunk > 1 => oldKvs[i] = Collected(sample, chunk - 1)
    <3>1. Written(i)
      BY <2>1, <1>1, <1>2, <1>8 DEF Written, Layers
    <3>2. QED
      BY <2>1, <3>1, <1>4 DEF CollectInv
  <2>2. ([p \in DOMAIN Text |-> Entry(Text[p])])' = [p \in DOMAIN Text |-> Entry(Text[p])]
    BY <1>3 DEF Entry
  <2>3. QED
    BY <2>1, <2>2, <1>1, <1>3 DEF CollectInv, Layers
<1>15. CacheInv'
  <2>1. pass = "prefill" \/ generated > 0
    BY <1>1, <1>6
  <2>2. ASSUME NEW i \in Layers
        PROVE  Filled(i)' = Filled(i)
    <3>1. i < layer /\ generated' # 0
      BY <1>1, <1>2, <1>5 DEF Layers
    <3>2. Filled(i)' = Len(Text) + generated
      BY <3>1, <1>1, <1>3, <1>5 DEF Filled
    <3>3. Filled(i) = Len(Text) + generated
      BY <3>1, <1>1, <1>5, <1>6 DEF Filled
    <3>4. QED
      BY <3>2, <3>3
  <2>3. \A i, p : Holds(cache[i][p], i, p) => Holds(cache[i][p], i, p)'
    BY <1>1, <1>3 DEF Holds, TokenAt, Reused, Sampled
  <2>4. \A i \in Layers : /\ DOMAIN cache[i] = 1..Filled(i)
                          /\ \A p \in 1..Filled(i) : Holds(cache[i][p], i, p)
    BY <2>1, <1>4 DEF CacheInv
  <2>5. \A i \in Layers : /\ DOMAIN cache'[i] = 1..Filled(i)'
                          /\ \A p \in 1..Filled(i)' : Holds(cache[i][p], i, p)'
    BY <2>2, <2>3, <2>4, <1>1
  <2>6. QED
    BY <2>5 DEF CacheInv, Layers
<1>16. BlendTypeOK'
  <2>1. generated' \in 0..MaxTokens
    BY <1>1, <1>5, <1>6, <1>7
  <2>2. QED
    BY <2>1, <1>1, <1>3, <1>4, <1>9 DEF BlendTypeOK, Layers
<1>17. QED
  BY <1>10, <1>11, <1>12, <1>13, <1>14, <1>15, <1>16 DEF BlendInv
-----------------------------------------------------------------------------
(***************************************************************************)
(* The steps of the script                                                 *)
(***************************************************************************)

LEMMA GenerateStep ==
    ASSUME BlendInv, OneCheckLayer, Generate
    PROVE  BlendInv'
<1>1. /\ pass = "none" /\ generated < Tokens
      /\ cache' = IF generated = 0 THEN [i \in Layers |-> << >>] ELSE cache
      /\ UNCHANGED <<scriptVars, hackKv, oldKvs, lastRow, generated>>
  BY DEF Generate, Idle
<1>2. /\ generated = 0 => StartPass("prefill", Text, Whole)
      /\ generated # 0 => StartPass("decode", <<Sampled(generated)>>, <<Len(Text) + generated>>)
  BY DEF Generate, Whole
<1>3. /\ MinCheckLayer \in Nat /\ NumLayers \in Nat
  BY LayersAre
<1>4. /\ sample' = sample /\ step' = step /\ chunk' = chunk /\ Text' = Text /\ Context' = Context
      /\ NumChunks' = NumChunks /\ Tokens' = Tokens /\ Whole' = Whole
      /\ \A t : Entry(t)' = Entry(t)
  BY <1>1, SameText
<1>5. BlendTypeOK /\ ScriptInv /\ SelectionInv /\ RowsInv /\ CollectInv /\ CacheInv /\ SampleInv
  BY DEF BlendInv
<1>6. /\ generated \in Nat /\ check \in BOOLEAN /\ Len(Text) \in Nat
      /\ cache \in [Layers -> Seq(Entries)] /\ impIndices \in Seq(Nat) /\ orgPos \in Seq(Nat)
      /\ Whole = [p \in 1..Len(Text) |-> p] /\ DOMAIN Text = 1..Len(Text) /\ Text \in Seq(TokenSet)
  BY <1>5, TypesAre, StateText DEF IsText
<1>7. (check <=> step = "blend" /\ generated = 0)
  BY <1>5 DEF ScriptInv
<1>8. /\ UNCHANGED <<check, collect, suffixLen>> /\ layer' = 0
      /\ pass' = (IF generated = 0 THEN "prefill" ELSE "decode")
      /\ temp' = (IF generated = 0 THEN 0 ELSE 3)
      /\ residual' = hidden'
      /\ generated = 0 => hidden' = Text /\ positions' = Whole
      /\ generated # 0 => /\ hidden' = <<Sampled(generated)>>
                          /\ positions' = <<Len(Text) + generated>>
                          /\ UNCHANGED <<impIndices, orgPos>>
      /\ check => checkLayerIdx' = 0 /\ impIndices' = << >> /\ orgPos' = Whole
      /\ ~check => checkLayerIdx' = NoIndex /\ UNCHANGED <<impIndices, orgPos>>
  <2>1. CASE generated = 0
    BY <2>1, <1>2, <1>6, <1>7 DEF StartPass
  <2>2. CASE generated # 0
    BY <2>2, <1>2, <1>6, <1>7 DEF StartPass
  <2>3. QED
    BY <2>1, <2>2
<1>9. ScriptInv' /\ SampleInv' /\ NoBlendError'
  <2>1. ScriptInv'
    BY <1>1, <1>4, <1>5, <1>8 DEF ScriptInv
  <2>2. SampleInv'
    BY <1>1, <1>4, <1>5 DEF SampleInv, Sampled
  <2>3. NoBlendError'
    BY <1>8 DEF NoBlendError
  <2>4. QED
    BY <2>1, <2>2, <2>3
<1>10. Selected' => generated # 0 /\ Selected
  BY <1>1, <1>3, <1>4, <1>6, <1>8 DEF Selected
<1>11. SelectionInv'
  BY <1>1, <1>4, <1>5, <1>8, <1>10 DEF SelectionInv, Selection, Suffix
<1>12. RowsInv'
  <2>1. CASE generated = 0
    <3>1. ~Selected' /\ pass' = "prefill" /\ generated' = 0 /\ layer' = 0 /\ temp' = 0
      BY <2>1, <1>1, <1>8, <1>10
    <3>2. hidden' = Text' /\ residual' = hidden' /\ positions' = Whole'
      BY <2>1, <1>4, <1>8
    <3>3. check' => orgPos' = Whole' /\ checkLayerIdx' = IF layer' > MinCheckLayer THEN 1 ELSE 0
      BY <3>1, <1>3, <1>4, <1>8
    <3>4. QED
      BY <3>1, <3>2, <3>3 DEF RowsInv
  <2>2. CASE generated # 0
    <3>1. pass' = "decode" /\ generated' > 0 /\ temp' = 3
      BY <2>2, <1>1, <1>6, <1>8
    <3>2. hidden' = <<Sampled(generated')>> /\ residual' = hidden'
          /\ positions' = <<Len(Text') + generated'>>
      BY <2>2, <1>1, <1>4, <1>8
    <3>3. QED
      BY <3>1, <3>2 DEF RowsInv, Sampled
  <2>3. QED
    BY <2>1, <2>2
<1>13. CollectInv'
  <2>1. ASSUME NEW i \in Layers, step = "collect"
        PROVE  ~Written(i)'
    <3>1. Tokens = 1
      BY <2>1 DEF Tokens
    <3>2. generated = 0 /\ layer' = 0
      BY <3>1, <1>1, <1>6, <1>8
    <3>3. QED
      BY <3>2, <1>1 DEF Written, Layers
  <2>2. \A i \in Layers : step = "collect" /\ chunk > 1 => oldKvs[i] = Collected(sample, chunk - 1)
    BY <1>5 DEF CollectInv
  <2>3. \A i \in Layers : check => oldKvs[i] = Collected(sample, NumChunks)
    BY <1>1, <1>5 DEF CollectInv
  <2>4. QED
    BY <2>1, <2>2, <2>3, <1>1, <1>4, <1>8 DEF CollectInv, Layers
<1>14. CacheInv' /\ cache' \in [Layers -> Seq(Entries)]
  <2>1. CASE generated = 0
    <3>1. \A i \in Layers : Filled(i)' = 0
      BY <2>1, <1>1, <1>8 DEF Filled, Layers
    <3>2. \A i \in Layers : cache'[i] = << >>
      BY <2>1, <1>1
    <3>3. DOMAIN << >> = 1..0 /\ 1..0 = {}
      OBVIOUS
    <3>4. \A i \in Layers : /\ DOMAIN cache'[i] = 1..Filled(i)'
                            /\ \A p \in 1..Filled(i)' : Holds(cache[i][p], i, p)'
      BY <3>1, <3>2, <3>3
    <3>5. CacheInv'
      BY <3>4 DEF CacheInv, Layers
    <3>6. << >> \in Seq(Entries)
      OBVIOUS
    <3>7. QED
      BY <2>1, <3>5, <3>6, <1>1
  <2>2. CASE generated # 0
    <3>1. generated > 0 /\ generated' = generated /\ layer' = 0 /\ pass' = "decode"
      BY <2>2, <1>1, <1>6, <1>8
    <3>2. \A i \in Layers : Filled(i)' = Filled(i)
      BY <3>1, <1>1, <1>4 DEF Filled, Layers
    <3>3. \A i, p : Holds(cache[i][p], i, p) => Holds(cache[i][p], i, p)'
      BY <2>2, <1>1, <1>4, <1>8 DEF Holds, TokenAt, Reused, Sampled
    <3>4. \A i \in Layers : /\ DOMAIN cache[i] = 1..Filled(i)
                            /\ \A p \in 1..Filled(i) : Holds(cache[i][p], i, p)
      BY <3>1, <1>5 DEF CacheInv
    <3>5. \A i \in Layers : /\ DOMAIN cache'[i] = 1..Filled(i)'
                            /\ \A p \in 1..Filled(i)' : Holds(cache[i][p], i, p)'
      BY <2>2, <3>2, <3>3, <3>4, <1>1
    <3>6. CacheInv'
      BY <3>5 DEF CacheInv, Layers
    <3>7. QED
      BY <2>2, <3>6, <1>1, <1>6
  <2>3. QED
    BY <2>1, <2>2
<1>15. BlendTypeOK'
  <2>1. hidden' \in Seq(TokenSet) /\ positions' \in Seq(Nat)
    <3>1. CASE generated = 0
      <4>1. Whole \in Seq(Nat)
        <5> DEFINE n == Len(Text)
        <5>1. Whole = [p \in 1..n |-> p] /\ n \in Nat
          BY <1>6
        <5> HIDE DEF n
        <5>2. QED
          BY <5>1
      <4>2. QED
        BY <3>1, <4>1, <1>6, <1>8
    <3>2. CASE generated # 0
      <4>1. Sampled(generated) \in TokenSet /\ Len(Text) + generated \in Nat
        BY <1>6 DEF Sampled, TokenSet
      <4> DEFINE t == Sampled(generated)
                 n == Len(Text) + generated
      <4> HIDE DEF t, n
      <4>2. <<t>> \in Seq(TokenSet) /\ <<n>> \in Seq(Nat)
        BY <4>1 DEF t, n
      <4>3. hidden' = <<t>> /\ positions' = <<n>>
        BY <3>2, <1>8 DEF t, n
      <4>4. QED
        BY <4>2, <4>3
    <3>3. QED
      BY <3>1, <3>2
  <2>2. impIndices' \in Seq(Nat) /\ orgPos' \in Seq(Nat) /\ checkLayerIdx' \in Nat
    <3>1. Whole \in Seq(Nat)
      <4> DEFINE n == Len(Text)
      <4>1. Whole = [p \in 1..n |-> p] /\ n \in Nat
        BY <1>6
      <4> HIDE DEF n
      <4>2. QED
        BY <4>1
    <3>2. << >> \in Seq(Nat) /\ NoIndex \in Nat /\ 0 \in Nat
      BY DEF NoIndex
    <3>3. CASE check
      BY <3>1, <3>2, <3>3, <1>8
    <3>4. CASE ~check
      BY <3>2, <3>4, <1>6, <1>8
    <3>5. QED
      BY <3>3, <3>4
  <2>3. pass' \in {"none", "prefill", "decode", "raised"} /\ layer' \in 0..NumLayers /\ temp' \in 0..3
    BY <1>3, <1>8
  <2>4. QED
    BY <2>1, <2>2, <2>3, <1>1, <1>4, <1>5, <1>8, <1>14 DEF BlendTypeOK, Layers
<1>16. QED
  BY <1>9, <1>11, <1>12, <1>13, <1>14, <1>15 DEF BlendInv

LEMMA CollectChunkStep ==
    ASSUME BlendInv, CollectChunk
    PROVE  BlendInv'
<1>1. /\ pass = "none" /\ step = "collect" /\ generated = 1 /\ generated' = 0
      /\ oldKvs' = [i \in Layers |-> (IF chunk = 1 THEN << >> ELSE oldKvs[i]) \o KeptEntries(i)]
      /\ UNCHANGED <<sample, impIndices, orgPos, hackKv, cache, pass, layer, checkLayerIdx, temp,
                     positions, hidden, residual, lastRow>>
  BY DEF CollectChunk, Idle, passVars
<1>2. /\ chunk < NumChunks => chunk' = chunk + 1 /\ UNCHANGED <<step, check, collect, suffixLen>>
      /\ ~(chunk < NumChunks) => /\ step' = "blend" /\ check' = TRUE /\ collect' = FALSE
                                 /\ suffixLen' \in {1, Samples[sample][NumChunks]}
                                 /\ UNCHANGED chunk
  BY DEF CollectChunk
<1>3. BlendTypeOK /\ ScriptInv /\ RowsInv /\ CollectInv
  BY DEF BlendInv
<1>4. /\ sample \in DOMAIN Samples /\ chunk \in 1..Len(Samples[sample])
      /\ NumChunks = Len(Samples[sample]) /\ ScriptTypes
  BY <1>3 DEF BlendTypeOK, NumChunks, ScriptTypes
<1>5. /\ Samples[sample][chunk] \in Nat \ {0} /\ NumChunks \in Nat \ {0} /\ chunk \in Nat \ {0}
  BY <1>4, SampleIs
<1>6. /\ Text = <<BOS>> \o ChunkTokens(sample, chunk, NumRead(sample, chunk))
      /\ DOMAIN Text = 1..(NumRead(sample, chunk) + 1)
  BY <1>1, <1>3, <1>4, TextIs, StateText
<1>7. \A i \in Layers : oldKvs'[i] = Collected(sample, chunk)
  <2> TAKE i \in Layers
  <2>1. Written(i)
    BY <1>1 DEF Written
  <2>2. hackKv[i] = [p \in DOMAIN Text |-> Entry(Text[p])]
    BY <2>1, <1>1, <1>3 DEF CollectInv
  <2>3. hackKv[i] = ChunkEntries(sample, chunk)
    BY <2>2, <1>1, <1>6 DEF ChunkEntries, Entry, Context
  <2>4. MinOf(Samples[sample][chunk] + 1, Len(hackKv[i])) = NumKept(sample, chunk) + 1
    <3>1. Len(hackKv[i]) = NumRead(sample, chunk) + 1
      BY <2>3, <1>4, CollectedStep
    <3>2. QED
      BY <3>1, <1>4, ReadsAre
  <2>5. chunk # 1 => oldKvs[i] = Collected(sample, chunk - 1)
    <3>1. chunk # 1 => chunk > 1
      BY <1>5
    <3>2. QED
      BY <3>1, <1>1, <1>3 DEF CollectInv
  <2>6. KeptEntries(i) = SubSeq(ChunkEntries(sample, chunk), IF chunk = 1 THEN 1 ELSE 2,
                                NumKept(sample, chunk) + 1)
    BY <2>3, <2>4 DEF KeptEntries
  <2>7. oldKvs'[i] = (IF chunk = 1 THEN << >> ELSE oldKvs[i]) \o KeptEntries(i)
    BY <1>1
  <2>8. Collected(sample, chunk) =
          (IF chunk = 1 THEN << >> ELSE Collected(sample, chunk - 1))
            \o SubSeq(ChunkEntries(sample, chunk), IF chunk = 1 THEN 1 ELSE 2,
                      NumKept(sample, chunk) + 1)
    BY <1>4, CollectedStep
  <2>9. QED
    BY <2>5, <2>6, <2>7, <2>8
<1>8. oldKvs' \in [Layers -> Seq(Entries)]
  <2>1. Collected(sample, chunk) \in Seq(Entries)
    BY <1>4, CollectedIs
  <2>2. DOMAIN oldKvs' = Layers /\ oldKvs' = [i \in Layers |-> oldKvs'[i]]
    BY <1>1
  <2>3. QED
    BY <2>1, <2>2, <1>7
<1>9. NumChunks' = NumChunks
  BY <1>1 DEF NumChunks
<1>10. ~Selected' /\ ~(pass' = "prefill" \/ generated' > 0)
       /\ pass' # "decode" /\ \A i : ~Written(i)'
  BY <1>1 DEF Selected, Written
<1>11. SelectionInv' /\ CacheInv' /\ SampleInv' /\ NoBlendError'
  BY <1>1, <1>10 DEF SelectionInv, CacheInv, SampleInv, NoBlendError
<1>12. RowsInv'
  BY <1>1, <1>3, <1>10 DEF RowsInv
<1>13. Tokens' \in Nat \ {0} /\ MaxTokens \in Nat
  <2>1. MaxTokens \in Nat \ {0}
    BY CacheBlendAssumption
  <2>2. QED
    BY <2>1 DEF Tokens
<1>14. CASE chunk < NumChunks
  <2>1. /\ chunk' = chunk + 1 /\ step' = "collect"
        /\ UNCHANGED <<check, collect, suffixLen>>
    BY <1>1, <1>2, <1>14
  <2>2. ScriptInv'
    BY <2>1, <1>1, <1>3, <1>13 DEF ScriptInv
  <2>3. CollectInv'
    <3>1. ~check' /\ chunk' - 1 = chunk
      BY <2>1, <1>1, <1>3, <1>5 DEF ScriptInv
    <3>2. QED
      BY <3>1, <2>1, <1>1, <1>7, <1>10 DEF CollectInv, Layers
  <2>4. chunk' \in 1..NumChunks
    BY <2>1, <1>5, <1>14
  <2>5. BlendTypeOK'
    <3>1. ({check, collect} \subseteq BOOLEAN)'
      BY <2>1, <1>3 DEF BlendTypeOK
    <3>2. generated' \in 0..MaxTokens
      BY <1>1, <1>13
    <3>3. QED
      BY <3>1, <3>2, <2>1, <2>4, <1>1, <1>3, <1>8, <1>9 DEF BlendTypeOK, Layers
  <2>6. QED
    BY <2>2, <2>3, <2>5, <1>11, <1>12 DEF BlendInv
<1>15. CASE ~(chunk < NumChunks)
  <2>1. /\ step' = "blend" /\ check' = TRUE /\ collect' = FALSE /\ chunk' = chunk
        /\ suffixLen' \in {1, Samples[sample][NumChunks]} /\ chunk = NumChunks
    BY <1>2, <1>4, <1>5, <1>15
  <2> DEFINE x == <<BOS>> \o Reads[sample].prompt
  <2>2. Text' = x
    BY <2>1, <1>1 DEF Text
  <2>3. Samples[sample][NumChunks] \in 1..(Len(x) - 1) /\ IsText(x)
    BY <1>4, PromptText
  <2> HIDE DEF x
  <2>4. suffixLen' \in 1..(Len(Text') - 1) /\ suffixLen' \in Nat
    <3> DEFINE n == Len(x)
               d == Samples[sample][NumChunks]
    <3>1. n \in Nat /\ d \in 1..(n - 1)
      BY <2>3 DEF IsText
    <3> HIDE DEF n, d
    <3>2. suffixLen' \in {1, d} /\ Len(Text') = n
      BY <2>1, <2>2 DEF n, d
    <3>3. QED
      BY <3>1, <3>2
  <2>5. ScriptInv'
    BY <2>1, <2>4, <1>1, <1>13 DEF ScriptInv
  <2>6. CollectInv'
    BY <2>1, <1>1, <1>7, <1>9 DEF CollectInv, Layers
  <2>7. BlendTypeOK'
    <3>1. ({check, collect} \subseteq BOOLEAN)'
      BY <2>1
    <3>2. generated' \in 0..MaxTokens
      BY <1>1, <1>13
    <3>3. QED
      BY <3>1, <3>2, <2>1, <2>4, <1>1, <1>3, <1>8, <1>9 DEF BlendTypeOK, Layers
  <2>8. QED
    BY <2>5, <2>6, <2>7, <1>11, <1>12 DEF BlendInv
<1>16. QED
  BY <1>14, <1>15

LEMMA GenerateAgainStep ==
    ASSUME BlendInv, GenerateAgain
    PROVE  BlendInv'
<1>1. /\ pass = "none" /\ step = "blend" /\ generated' = 0 /\ step' = "normal"
      /\ check' = FALSE /\ collect' = FALSE
      /\ UNCHANGED <<sample, chunk, suffixLen, impIndices, orgPos, hackKv, oldKvs, cache, pass,
                     layer, checkLayerIdx, temp, positions, hidden, residual, lastRow>>
  BY DEF GenerateAgain, Idle, passVars
<1>2. BlendTypeOK /\ ScriptInv /\ RowsInv
  BY DEF BlendInv
<1>3. NumChunks' = NumChunks /\ Text' = Text
  BY <1>1 DEF NumChunks, Text
<1>4. ~Selected' /\ ~(pass' = "prefill" \/ generated' > 0) /\ pass' # "decode"
  BY <1>1 DEF Selected
<1>5. SelectionInv' /\ CacheInv' /\ SampleInv' /\ NoBlendError'
  BY <1>1, <1>4 DEF SelectionInv, CacheInv, SampleInv, NoBlendError
<1>6. RowsInv'
  BY <1>1, <1>2, <1>4 DEF RowsInv
<1>7. Tokens' \in Nat \ {0} /\ MaxTokens \in Nat
  <2>1. MaxTokens \in Nat \ {0}
    BY CacheBlendAssumption
  <2>2. QED
    BY <2>1 DEF Tokens
<1>8. ScriptInv'
  BY <1>1, <1>2, <1>3, <1>7 DEF ScriptInv
<1>9. CollectInv'
  BY <1>1 DEF CollectInv
<1>10. BlendTypeOK'
  <2>1. ({check, collect} \subseteq BOOLEAN)'
    BY <1>1
  <2>2. generated' \in 0..MaxTokens
    BY <1>1, <1>7
  <2>3. QED
    BY <2>1, <2>2, <1>1, <1>2, <1>3 DEF BlendTypeOK, Layers
<1>11. QED
  BY <1>5, <1>6, <1>8, <1>9, <1>10 DEF BlendInv

LEMMA NextSampleStep ==
    ASSUME BlendInv, NextSample
    PROVE  BlendInv'
<1>1. /\ pass = "none" /\ sample < Len(Samples) /\ sample' = sample + 1 /\ step' = "collect"
      /\ chunk' = 1 /\ collect' = TRUE /\ check' = FALSE /\ generated' = 0
      /\ UNCHANGED <<suffixLen, impIndices, orgPos, hackKv, oldKvs, cache, pass, layer,
                     checkLayerIdx, temp, positions, hidden, residual, lastRow>>
  BY DEF NextSample, Idle, passVars
<1>2. BlendTypeOK /\ RowsInv
  BY DEF BlendInv
<1>3. sample' \in DOMAIN Samples
  <2>1. Samples \in Seq(Seq(Nat \ {0}) \ {<< >>})
    BY CacheBlendAssumption
  <2>2. DOMAIN Samples = 1..Len(Samples) /\ Len(Samples) \in Nat
    BY <2>1
  <2>3. sample \in 1..Len(Samples)
    BY <2>2, <1>2 DEF BlendTypeOK
  <2>4. QED
    BY <2>2, <2>3, <1>1
<1>4. chunk' \in 1..NumChunks'
  <2>1. Len(Samples[sample']) \in Nat \ {0}
    BY <1>3, SampleIs
  <2>2. QED
    BY <2>1, <1>1 DEF NumChunks
<1>5. ~Selected' /\ ~(pass' = "prefill" \/ generated' > 0) /\ pass' # "decode"
      /\ \A i : ~Written(i)'
  BY <1>1 DEF Selected, Written
<1>6. SelectionInv' /\ CacheInv' /\ SampleInv' /\ NoBlendError'
  BY <1>1, <1>5 DEF SelectionInv, CacheInv, SampleInv, NoBlendError
<1>7. RowsInv'
  BY <1>1, <1>2, <1>5 DEF RowsInv
<1>8. Tokens' \in Nat \ {0} /\ MaxTokens \in Nat
  <2>1. MaxTokens \in Nat \ {0}
    BY CacheBlendAssumption
  <2>2. QED
    BY <2>1 DEF Tokens
<1>9. ScriptInv'
  BY <1>1, <1>8 DEF ScriptInv
<1>10. CollectInv'
  BY <1>1, <1>5 DEF CollectInv
<1>11. BlendTypeOK'
  <2>1. ({check, collect} \subseteq BOOLEAN)'
    BY <1>1
  <2>2. generated' \in 0..MaxTokens
    BY <1>1, <1>8
  <2>3. QED
    BY <2>1, <2>2, <1>1, <1>2, <1>3, <1>4 DEF BlendTypeOK, Layers
<1>12. QED
  BY <1>6, <1>7, <1>9, <1>10, <1>11 DEF BlendInv

LEMMA InitBlendInv ==
    ASSUME BlendInit
    PROVE  BlendInv
<1>1. /\ sample = 1 /\ step = "collect" /\ chunk = 1
      /\ check = FALSE /\ collect = TRUE /\ suffixLen = 0
      /\ impIndices = << >> /\ orgPos = << >>
      /\ hackKv = [i \in Layers |-> << >>] /\ oldKvs = hackKv /\ cache = hackKv
      /\ pass = "none" /\ layer = 0 /\ checkLayerIdx = NoIndex /\ temp = 0
      /\ positions = << >> /\ hidden = << >> /\ residual = << >>
      /\ lastRow = BOS /\ generated = 0
  BY DEF BlendInit
<1>2. /\ Samples \in Seq(Seq(Nat \ {0}) \ {<< >>}) /\ Samples # << >>
      /\ MaxTokens \in Nat \ {0} /\ NumLayers \in Nat \ {0}
  BY CacheBlendAssumption
<1>3. sample \in DOMAIN Samples
  <2> HIDE DEF TokenSet
  <2>1. DOMAIN Samples = 1..Len(Samples) /\ Len(Samples) \in Nat \ {0}
    BY <1>2, EmptySeq
  <2>2. QED
    BY <2>1, <1>1
<1>4. chunk \in 1..NumChunks
  <2>1. Len(Samples[sample]) \in Nat \ {0}
    BY <1>3, SampleIs
  <2>2. QED
    BY <2>1, <1>1 DEF NumChunks
<1>5. hackKv \in [Layers -> Seq(Entries)]
  <2>1. << >> \in Seq(Entries)
    OBVIOUS
  <2>2. QED
    BY <2>1, <1>1
<1>6. << >> \in Seq(Nat) /\ << >> \in Seq(TokenSet) /\ BOS \in TokenSet /\ NoIndex \in Nat
  BY DEF BOS, TokenSet, NoIndex
<1>7. BlendTypeOK
  <2>1. {check, collect} \subseteq BOOLEAN
    BY <1>1
  <2>2. generated \in 0..MaxTokens /\ layer \in 0..NumLayers /\ suffixLen \in Nat /\ temp \in 0..3
    BY <1>1, <1>2
  <2>3. {hackKv, oldKvs, cache} \subseteq [Layers -> Seq(Entries)]
    BY <1>1, <1>5
  <2>4. /\ {impIndices, orgPos, positions} \subseteq Seq(Nat)
        /\ {hidden, residual} \subseteq Seq(TokenSet) /\ lastRow \in TokenSet
        /\ checkLayerIdx \in Nat
    BY <1>1, <1>6
  <2>5. step \in {"collect", "blend", "normal"} /\ pass \in {"none", "prefill", "decode", "raised"}
    BY <1>1
  <2>6. QED
    BY <2>1, <2>2, <2>3, <2>4, <2>5, <1>3, <1>4 DEF BlendTypeOK
<1>8. ~Selected /\ ~(pass = "prefill" \/ generated > 0) /\ pass # "decode"
      /\ \A i : ~Written(i)
  BY <1>1 DEF Selected, Written
<1>9. SelectionInv /\ CacheInv /\ SampleInv /\ RowsInv /\ NoBlendError
  BY <1>1, <1>8 DEF SelectionInv, CacheInv, SampleInv, RowsInv, NoBlendError
<1>10. Tokens = 1
  BY <1>1 DEF Tokens
<1>11. ScriptInv
  BY <1>1, <1>10 DEF ScriptInv
<1>12. CollectInv
  BY <1>1, <1>8 DEF CollectInv
<1>13. QED
  BY <1>7, <1>9, <1>11, <1>12 DEF BlendInv

LEMMA StutterBlendInv ==
    ASSUME BlendInv, UNCHANGED blendVars
    PROVE  BlendInv'
<1>1. UNCHANGED <<sample, step, chunk, check, collect, suffixLen, impIndices, orgPos, hackKv,
                  oldKvs, cache, pass, layer, checkLayerIdx, temp, positions, hidden, residual,
                  lastRow, generated>>
  BY DEF blendVars, scriptVars, metaVars, passVars
<1>2. /\ Text' = Text /\ Whole' = Whole /\ Context' = Context /\ NumChunks' = NumChunks
      /\ Tokens' = Tokens /\ \A t : Entry(t)' = Entry(t)
  BY <1>1, SameText DEF scriptVars
<1>3. Selected' = Selected /\ Suffix' = Suffix /\ Selection' = Selection
      /\ \A i : /\ Written(i)' = Written(i) /\ Filled(i)' = Filled(i)
                /\ \A e, p : Holds(e, i, p)' = Holds(e, i, p)
  BY <1>1, <1>2 DEF Selected, Suffix, Selection, Written, Filled, Holds, TokenAt, Reused
<1>4. BlendTypeOK'
  BY <1>1, <1>2 DEF BlendInv, BlendTypeOK, Layers
<1>5. ScriptInv' /\ SelectionInv' /\ RowsInv' /\ SampleInv' /\ NoBlendError'
  BY <1>1, <1>2, <1>3
  DEF BlendInv, ScriptInv, SelectionInv, RowsInv, SampleInv, NoBlendError
<1>6. CollectInv'
  BY <1>1, <1>2, <1>3 DEF BlendInv, CollectInv, Layers
<1>7. CacheInv'
  BY <1>1, <1>2, <1>3 DEF BlendInv, CacheInv, Layers
<1>8. QED
  BY <1>4, <1>5, <1>6, <1>7 DEF BlendInv

LEMMA NextBlendInv ==
    ASSUME OneCheckLayer, BlendInv, [BlendNext]_blendVars
    PROVE  BlendInv'
<1>1. CASE PlainLayer
  BY <1>1, PlainLayerStep
<1>2. CASE CheckLayer
  BY <1>2, CheckLayerStep
<1>3. CASE ReuseLayer
  BY <1>3, ReuseLayerStep
<1>4. CASE Sample
  BY <1>4, SampleStep
<1>5. CASE Generate
  BY <1>5, GenerateStep
<1>6. CASE CollectChunk
  BY <1>6, CollectChunkStep
<1>7. CASE GenerateAgain
  BY <1>7, GenerateAgainStep
<1>8. CASE NextSample
  BY <1>8, NextSampleStep
<1>9. CASE LayerRaises
  BY <1>9, LayerRaisesStep
<1>10. CASE UNCHANGED blendVars
  BY <1>10, StutterBlendInv
<1>11. QED
  BY <1>1, <1>2, <1>3, <1>4, <1>5, <1>6, <1>7, <1>8, <1>9, <1>10
  DEF BlendNext

LEMMA BlendInvariant ==
    ASSUME OneCheckLayer
    PROVE  BlendSpec => []BlendInv
<1>1. BlendInit => BlendInv
  BY InitBlendInv
<1>2. BlendInv /\ [BlendNext]_blendVars => BlendInv'
  BY NextBlendInv
<1>3. QED
  BY <1>1, <1>2, PTL DEF BlendSpec
-----------------------------------------------------------------------------
(***************************************************************************)
(* What the invariant implies                                              *)
(***************************************************************************)

\* Position finds the place of every token of the text, and of those sampled
\* after it.
LEMMA PositionIs ==
    ASSUME BlendTypeOK
    PROVE  \A p \in Nat \ {0} : Position(TokenAt(p)) = p
<1>1. /\ IsText(Text) /\ Len(Text) \in Nat /\ DOMAIN Text = 1..Len(Text)
  BY StateText
<1>2. /\ \A p, q \in 1..Len(Text) : Text[p] = Text[q] => p = q
      /\ \A p \in 1..Len(Text) : \A n \in Nat \ {0} : Text[p] # Sampled(n)
  BY <1>1 DEF IsText
<1>3. TAKE p \in Nat \ {0}
<1>4. CASE p <= Len(Text)
  <2>1. p \in DOMAIN Text /\ TokenAt(p) = Text[p]
    BY <1>1, <1>4 DEF TokenAt
  <2>2. TokenAt(p) \in Range(Text)
    BY <2>1 DEF Range
  <2>3. (CHOOSE q \in DOMAIN Text : Text[q] = TokenAt(p)) = p
    BY <2>1, <1>1, <1>2
  <2>4. QED
    BY <2>2, <2>3 DEF Position
<1>5. CASE ~(p <= Len(Text))
  <2>1. p - Len(Text) \in Nat \ {0} /\ TokenAt(p) = Sampled(p - Len(Text))
    <3> DEFINE n == Len(Text)
    <3>1. n \in Nat /\ ~(p <= n)
      BY <1>1, <1>5
    <3>2. TokenAt(p) = Sampled(p - n)
      BY <1>5 DEF TokenAt
    <3> HIDE DEF n
    <3>3. p - n \in Nat \ {0}
      BY <3>1
    <3>4. QED
      BY <3>2, <3>3 DEF n
  <2>2. TokenAt(p) \notin Range(Text)
    BY <2>1, <1>1, <1>2 DEF Range
  <2>3. Position(TokenAt(p)) = Len(Text) + TokenAt(p)[3]
    BY <2>2 DEF Position
  <2>4. TokenAt(p)[3] = p - Len(Text)
    BY <2>1 DEF Sampled
  <2>5. QED
    BY <2>3, <2>4, <1>1
<1>6. QED
  BY <1>4, <1>5

\* A layer that has been written is filled with the text and what it generated.
LEMMA WrittenIs ==
    ASSUME BlendInv, NEW i \in Layers, Written(i)
    PROVE  /\ DOMAIN cache[i] = 1..Filled(i) /\ Filled(i) \in Nat /\ Len(Text) <= Filled(i)
           /\ \A p \in 1..Filled(i) : p \in Nat \ {0} /\ Holds(cache[i][p], i, p)
<1>1. BlendTypeOK /\ CacheInv
  BY DEF BlendInv
<1>2. Len(Text) \in Nat /\ generated \in Nat
  BY <1>1, StateText, TypesAre
<1>3. generated > 0 \/ (pass = "prefill" /\ i < layer)
  BY DEF Written
<1>4. /\ DOMAIN cache[i] = 1..Filled(i)
      /\ \A p \in 1..Filled(i) : Holds(cache[i][p], i, p)
  BY <1>1, <1>3 DEF CacheInv
<1>5. Filled(i) \in Nat /\ Len(Text) <= Filled(i)
  <2>1. CASE generated = 0
    BY <2>1, <1>2, <1>3 DEF Filled
  <2>2. CASE generated # 0
    BY <2>2, <1>2 DEF Filled
  <2>3. QED
    BY <2>1, <2>2
<1>6. \A p \in 1..Filled(i) : p \in Nat \ {0}
  BY <1>5
<1>7. \A p \in 1..Filled(i) : p \in Nat \ {0} /\ Holds(cache[i][p], i, p)
  BY <1>4, <1>6
<1>8. QED
  BY <1>4, <1>5, <1>7

LEMMA InvImpliesCache ==
    ASSUME BlendInv
    PROVE  CacheHoldsThePrompt
<1>1. BlendTypeOK /\ DOMAIN Text = 1..Len(Text) /\ Len(Text) \in Nat /\ ScriptTypes
  BY StateText DEF BlendInv, BlendTypeOK, ScriptTypes
<1>2. SUFFICES ASSUME NEW i \in Layers, Written(i)
               PROVE  /\ DOMAIN Text \subseteq DOMAIN cache[i]
                      /\ \A p \in DOMAIN cache[i] :
                           LET e == cache[i][p]
                           IN  /\ e.rot = <<p>>
                               /\ e.ctx = Context \/ ReadsItsChunks => Position(e.tok) = p
  BY DEF CacheHoldsThePrompt
<1>3. /\ DOMAIN cache[i] = 1..Filled(i) /\ Filled(i) \in Nat /\ Len(Text) <= Filled(i)
      /\ \A p \in 1..Filled(i) : p \in Nat \ {0} /\ Holds(cache[i][p], i, p)
  BY <1>2, WrittenIs
<1>4. DOMAIN Text \subseteq DOMAIN cache[i]
  BY <1>1, <1>3
<1>5. ASSUME NEW p \in DOMAIN cache[i]
      PROVE  LET e == cache[i][p]
             IN  /\ e.rot = <<p>>
                 /\ e.ctx = Context \/ ReadsItsChunks => Position(e.tok) = p
  <2> DEFINE e == cache[i][p]
  <2>1. p \in Nat \ {0} /\ Holds(e, i, p)
    BY <1>3
  <2> HIDE DEF e
  <2>2. e.rot = <<p>>
    BY <2>1 DEF Holds
  <2>3. Position(TokenAt(p)) = p
    BY <2>1, <1>1, PositionIs
  <2>4. ASSUME e.ctx = Context \/ ReadsItsChunks, Reused(e, i, p)
        PROVE  e.tok = TokenAt(p)
    <3> DEFINE x == Kept(sample, NumChunks)
    <3>1. step = "blend" /\ p \in 1..Len(x) /\ e.tok = x[p] /\ e.ctx = <<sample, ChunkOf(x[p])>>
      BY <2>4 DEF Reused
    <3>2. ChunkOf(x[p]) # 0
      BY <3>1, <1>1, SampleKept
    <3>3. e.ctx # Context
      BY <3>1, <3>2 DEF Context
    <3>4. ReadsItsChunks
      BY <2>4, <3>3
    <3>5. Text = x
      BY <3>1, <3>4 DEF Text, Kept, ReadsItsChunks
    <3> HIDE DEF x
    <3>6. p <= Len(Text)
      BY <3>1, <3>5, <1>1
    <3>7. QED
      BY <3>1, <3>5, <3>6 DEF TokenAt
  <2>5. e.ctx = Context \/ ReadsItsChunks => e.tok = TokenAt(p)
    BY <2>1, <2>4 DEF Holds
  <2>6. QED
    BY <2>2, <2>3, <2>5 DEF e
<1>6. QED
  BY <1>4, <1>5

LEMMA InvImpliesConfined ==
    ASSUME BlendInv
    PROVE  ReuseIsConfined
<1>1. SUFFICES ASSUME NEW i \in Layers, NEW p \in DOMAIN cache[i], Written(i),
                      cache[i][p].ctx # Context
               PROVE  /\ step = "blend" /\ i > MinCheckLayer
                      /\ p \notin Range(impIndices) /\ p <= Len(Text) - suffixLen
                      /\ LET t == cache[i][p].tok
                         IN  cache[i][p].ctx = <<sample, IF t = BOS THEN 1 ELSE t[2]>>
  BY DEF ReuseIsConfined
<1>2. Holds(cache[i][p], i, p)
  BY <1>1, WrittenIs
<1>3. Reused(cache[i][p], i, p)
  BY <1>1, <1>2 DEF Holds
<1>4. QED
  BY <1>3 DEF Reused, ChunkOf

LEMMA InvImpliesRows ==
    ASSUME BlendInv
    PROVE  RowsSeeTheirPrefix
<1>1. BlendTypeOK /\ RowsInv
  BY DEF BlendInv
<1>2. /\ Len(Text) \in Nat /\ DOMAIN Text = 1..Len(Text) /\ suffixLen \in Nat
      /\ Text \in Seq(TokenSet)
  BY <1>1, StateText, TypesAre DEF IsText
<1>3. \A p \in 1..Len(Text) : Position(Text[p]) = p
  <2> TAKE p \in 1..Len(Text)
  <2>1. p \in Nat \ {0} /\ TokenAt(p) = Text[p]
    BY <1>2 DEF TokenAt
  <2>2. QED
    BY <2>1, <1>1, PositionIs
<1>4. SUFFICES ASSUME pass = "prefill"
               PROVE  /\ hidden = residual
                      /\ \A r \in DOMAIN hidden :
                           LET p == Position(hidden[r])
                               sees == Len(Text) - Len(hidden) + r
                           IN  /\ positions[r] = p
                               /\ sees >= p
                               /\ p > Len(Text) - suffixLen => sees = p
  BY DEF RowsSeeTheirPrefix
<1>5. hidden = residual
  BY <1>1 DEF RowsInv
<1>6. CASE ~Selected
  <2>1. hidden = Text /\ positions = Whole
    BY <1>4, <1>6, WholeRows
  <2>2. ASSUME NEW r \in DOMAIN hidden
        PROVE  /\ Position(hidden[r]) = r /\ positions[r] = r
               /\ Len(Text) - Len(hidden) + r = r
    <3>1. r \in 1..Len(Text)
      BY <2>1, <1>2
    <3>2. QED
      BY <3>1, <2>1, <1>2, <1>3 DEF Whole
  <2>3. \A r \in DOMAIN hidden : r \in Nat
    BY <2>1, <1>2
  <2>4. QED
    BY <2>2, <2>3, <1>5
<1>7. CASE Selected
  <2>1. step = "blend"
    BY <1>7 DEF Selected
  <2>2. hidden = Select(Text, impIndices) /\ positions = impIndices
    BY <1>1, <1>4, <1>7 DEF RowsInv
  <2>3. /\ impIndices \in Seq(Nat) /\ DOMAIN impIndices = 1..Len(impIndices)
        /\ \A r \in 1..Len(impIndices) :
             LET sees == Len(Text) - Len(impIndices) + r IN
             /\ impIndices[r] \in 1..Len(Text)
             /\ sees >= impIndices[r]
             /\ impIndices[r] > Len(Text) - suffixLen => sees = impIndices[r]
    BY <2>1, <1>7, SelectedAre
  <2>4. /\ DOMAIN hidden = 1..Len(impIndices) /\ Len(hidden) = Len(impIndices)
        /\ \A r \in 1..Len(impIndices) : hidden[r] = Text[impIndices[r]]
    BY <2>2, <2>3, <1>2, SelectIs
  <2>5. ASSUME NEW r \in DOMAIN hidden
        PROVE  Position(hidden[r]) = impIndices[r] /\ positions[r] = impIndices[r]
    BY <2>2, <2>3, <2>4, <1>3
  <2>6. QED
    BY <2>3, <2>4, <2>5, <1>5
<1>8. QED
  BY <1>6, <1>7

LEMMA InvImpliesSampled ==
    ASSUME BlendInv
    PROVE  SampledFromLastToken
<1>1. SampleInv
  BY DEF BlendInv
<1>2. QED
  BY <1>1 DEF SampleInv, SampledFromLastToken, Idle

-----------------------------------------------------------------------------
(***************************************************************************)
(* The theorems                                                            *)
(***************************************************************************)

\* Type correctness: the rows, the indices and the entries of every tensor stay
\* well formed through LlamaModel.forward, the sampler and the script.
THEOREM BlendTypes ==
    ASSUME OneCheckLayer
    PROVE  BlendSpec => []BlendTypeOK
<1>1. BlendSpec => []BlendInv
  BY BlendInvariant
<1>2. BlendInv => BlendTypeOK
  BY DEF BlendInv
<1>3. QED
  BY <1>1, <1>2, PTL

\* After any selection, every position of every layer's paged cache has a key
\* rotated exactly once, by that position, also where the entry was collected in
\* another text, moved by the slices of the script and rotated in place when its
\* layer was reached; it is the key of the token at this place where it was computed
\* in the prompt, and everywhere if the tokenizer reads the prompt as the chunks.
THEOREM CacheIsInOrder ==
    ASSUME OneCheckLayer
    PROVE  BlendSpec => []CacheHoldsThePrompt
<1>1. BlendSpec => []BlendInv
  BY BlendInvariant
<1>2. BlendInv => CacheHoldsThePrompt
  BY InvImpliesCache
<1>3. QED
  BY <1>1, <1>2, PTL

\* Reused entries are found only in the blended generation, behind the check
\* layer, for tokens neither selected nor of the suffix; collecting and generating
\* without reuse never see one.
THEOREM ReuseStaysConfined ==
    ASSUME OneCheckLayer
    PROVE  BlendSpec => []ReuseIsConfined
<1>1. BlendSpec => []BlendInv
  BY BlendInvariant
<1>2. BlendInv => ReuseIsConfined
  BY InvImpliesConfined
<1>3. QED
  BY <1>1, <1>2, PTL

\* When rows are dropped at the check layer, the bottom-right mask still lets every
\* row see its own prefix, and the rows of the suffix exactly that, whichever
\* tokens were selected.
THEOREM MaskFitsTheRows ==
    ASSUME OneCheckLayer
    PROVE  BlendSpec => []RowsSeeTheirPrefix
<1>1. BlendSpec => []BlendInv
  BY BlendInvariant
<1>2. BlendInv => RowsSeeTheirPrefix
  BY InvImpliesRows
<1>3. QED
  BY <1>1, <1>2, PTL

\* The token is sampled from the row of the last token, also when the rows are
\* fewer than the tokens.
THEOREM LastRowIsSampled ==
    ASSUME OneCheckLayer
    PROVE  BlendSpec => []SampledFromLastToken
<1>1. BlendSpec => []BlendInv
  BY BlendInvariant
<1>2. BlendInv => SampledFromLastToken
  BY InvImpliesSampled
<1>3. QED
  BY <1>1, <1>2, PTL

\* Whatever the tokenizer makes of the texts, a layer raises only in a blended
\* prompt that it reads in another number of tokens than were kept of its chunks:
\* check_layer_idx is assigned where it is read, the rows are as many as imp_indices
\* and the keys as many as the slots.
THEOREM RaisesOnlyWhenMisread ==
    ASSUME OneCheckLayer
    PROVE  BlendSpec => []NoBlendError
<1>1. BlendSpec => []BlendInv
  BY BlendInvariant
<1>2. BlendInv => NoBlendError
  BY DEF BlendInv
<1>3. QED
  BY <1>1, <1>2, PTL
=============================================================================
