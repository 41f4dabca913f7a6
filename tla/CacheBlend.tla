----------------------------- MODULE CacheBlend -----------------------------
(***************************************************************************)
(* Selective recomputation of reused KV caches: the layers of the model    *)
(* (model_executor/models/llama.py, attention/backends/xformers.py), the   *)
(* sampling of worker/model_runner.py, and the script that drives them     *)
(* (src/example/blend.py and its variants for the datasets).               *)
(*                                                                         *)
(* For every sample the script runs each chunk of the prompt alone and     *)
(* keeps its keys and values; it joins them, sets check, and generates     *)
(* from the whole prompt.  Up to the check layer everything is computed;   *)
(* there the tokens whose values differ most are selected, and after it    *)
(* only those and the suffix are computed, the rest is what was kept.      *)
(* Then the script generates once more without reuse.                      *)
(*                                                                         *)
(* The script keeps ids and hands over texts: it decodes the ids of every  *)
(* chunk and of the joined prompt, and the engine encodes what it gets.    *)
(* Reads says what comes out, which need not be the ids that went in, nor  *)
(* the same for a chunk alone and in the prompt.                           *)
(*                                                                         *)
(* A tensor of keys and values is a sequence of entries, one per token:    *)
(* whose they are, in which text they were computed, and by which          *)
(* positions the key was rotated.  Values are not modelled: any tokens may *)
(* be the ones that differ most.  Positions start at 1.                    *)
(***************************************************************************)
EXTENDS Naturals, Sequences, FiniteSets, Functions

CONSTANTS
    Samples,         \* for every sample, how many ids its chunks have, query last
    Reads,           \* for every sample, what the tokenizer reads in its texts:
                     \* alone, how many tokens in each chunk; prompt, the tokens
                     \* of the joined prompt
    NumLayers,       \* layers 0..NumLayers-1
    CheckLayers,     \* cache_fuse_metadata["check_layers"]
    RatioNum,        \* cache_fuse_metadata["recomp_ratio"] is RatioNum / RatioDen
    RatioDen,
    MaxTokens        \* SamplingParams.max_tokens of a generation

ASSUME CacheBlendAssumption ==
    /\ Samples \in Seq(Seq(Nat \ {0}) \ {<< >>}) /\ Samples # << >>
    /\ Reads \in Seq([alone : Seq(Nat), prompt : Seq(Nat \X Nat \X Nat)])
    /\ Len(Reads) = Len(Samples)
    /\ \A s \in DOMAIN Samples :
         /\ Len(Reads[s].alone) = Len(Samples[s])
         /\ IsInjective(Reads[s].prompt)
         /\ Range(Reads[s].prompt) \subseteq (Nat \ {0}) \X Nat \X (Nat \ {0})
         /\ Len(Reads[s].prompt) >= Samples[s][Len(Samples[s])]
    /\ NumLayers \in Nat \ {0}
    /\ CheckLayers \subseteq 1..(NumLayers - 1) /\ CheckLayers # {}
    /\ RatioNum \in Nat /\ RatioDen \in Nat \ {0} /\ RatioNum <= RatioDen
    /\ MaxTokens \in Nat \ {0}

VARIABLES
    sample,          \* sample_idx of the script
    step,            \* what the script generates: "collect", "blend", "normal"
    chunk,           \* the chunk it collects
    check, collect, suffixLen, impIndices, orgPos,   \* cache_fuse_metadata
    hackKv,          \* self_attn.hack_kv of each layer
    oldKvs,          \* old_kvs of each layer, also chunk_past_key_values
    cache,           \* the paged KV cache of the request, by layer and position
    pass,            \* the forward pass: "none", "prefill", "decode", or "raised"
                     \* when it ended the script
    layer,           \* the next layer of the pass
    checkLayerIdx,   \* check_layer_idx, or NoIndex while it is unassigned
    temp,            \* temp_status
    positions,       \* of the rows of the pass
    hidden,          \* the token of every row of hidden_states ...
    residual,        \* ... and of residual
    lastRow,         \* the token whose row the last token was sampled from
    generated        \* tokens sampled in this generation

scriptVars == <<sample, step, chunk>>
metaVars == <<check, collect, suffixLen, impIndices, orgPos>>
passVars == <<pass, layer, checkLayerIdx, temp, positions, hidden, residual>>
blendVars == <<scriptVars, metaVars, hackKv, oldKvs, cache, passVars, lastRow, generated>>

Layers == 0..(NumLayers - 1)
NoIndex == 99
MinCheckLayer == CHOOSE i \in CheckLayers : \A j \in CheckLayers : i <= j

\* <<s, c, j>> is the token read at place j of chunk c of sample s, in the chunk
\* alone or in the prompt; <<s, 0, n>> is one that is read in the prompt only.
\* Every text begins with BOS.
BOS == <<0, 0, 0>>
Sampled(n) == <<0, 0, n>>
MinOf(i, j) == IF i <= j THEN i ELSE j
NumRead(s, c) == Reads[s].alone[c]
NumKept(s, c) == MinOf(Samples[s][c], NumRead(s, c))
ChunkTokens(s, c, n) == [j \in 1..n |-> <<s, c, j>>]
NumChunks == Len(Samples[sample])

\* The tokens whose entries are kept of the first n chunks of sample s.
JoinChunks(s, n) ==
    LET join[c \in Nat] == IF c = 0 THEN << >>
                           ELSE join[c - 1] \o ChunkTokens(s, c, NumKept(s, c))
    IN  join[n]

\* The tokenizer reads the prompt as it read the chunks.
ReadsItsChunks == Reads[sample].prompt = JoinChunks(sample, NumChunks)

\* What the tokenizer makes of the text that is generated from.
Text == <<BOS>> \o (IF step = "collect" THEN ChunkTokens(sample, chunk, NumRead(sample, chunk))
                    ELSE Reads[sample].prompt)

\* An entry computed in the text of this step.
Context == <<sample, IF step = "collect" THEN chunk ELSE 0>>
Entry(t) == [tok |-> t, ctx |-> Context, rot |-> << >>]

\* rotary_emb on rows of keys.
Rotate(rows, pos) == [i \in DOMAIN rows |-> [rows[i] EXCEPT !.rot = Append(@, pos[i])]]

\* A tensor indexed with the indices idx.
Select(rows, idx) == [i \in DOMAIN idx |-> rows[idx[i]]]
\* rows[idx] = new, in place.
Store(rows, idx, new) ==
    [p \in DOMAIN rows |-> IF p \in Range(idx) THEN new[CHOOSE i \in DOMAIN idx : idx[i] = p]
                           ELSE rows[p]]
Sorted(S) == [i \in 1..Cardinality(S) |->
                CHOOSE p \in S : Cardinality({q \in S : q <= p}) = i]
-----------------------------------------------------------------------------
(***************************************************************************)
(* The forward pass                                                        *)
(***************************************************************************)

\* LlamaModel.forward before its loop, on the tokens rows at the positions pos.
StartPass(kind, rows, pos) ==
    /\ pass' = kind
    /\ layer' = 0
    /\ temp' = IF kind = "prefill" THEN 0 ELSE 3
    /\ positions' = pos
    /\ hidden' = rows /\ residual' = rows
    /\ IF kind = "prefill" /\ check
       THEN checkLayerIdx' = 0 /\ impIndices' = << >> /\ orgPos' = pos
       ELSE checkLayerIdx' = NoIndex /\ UNCHANGED <<impIndices, orgPos>>
    /\ UNCHANGED <<check, collect, suffixLen>>

\* temp_status of a layer.  3 stands for the -1 of a decode.
Status(i) == IF ~check THEN temp
             ELSE IF i \in CheckLayers THEN 1
             ELSE IF i > MinCheckLayer THEN 2 ELSE temp

Fresh == [r \in DOMAIN hidden |-> Entry(hidden[r])]

\* The old keys, rotated in place by the positions of the whole prompt.
BugOldKeys(i) == oldKvs[i]

OldKeys(i) == Rotate(oldKvs[i], orgPos)

\* The tokens computed after the check layer: those whose values differ most, by
\* topk, and the suffix.
Important(total) ==
    LET k == ((total - suffixLen) * RatioNum) \div RatioDen
    IN  {S \cup ((total - suffixLen + 1)..total) :
            S \in {T \in SUBSET (1..(total - suffixLen)) : Cardinality(T) = k}}

\* The loop body of LlamaModel.forward: LlamaDecoderLayer, LlamaAttention and
\* XFormersImpl.  The slots written are those of the positions the pass began
\* with.
Slots == IF pass = "prefill" THEN [p \in DOMAIN Text |-> p] ELSE positions

WriteCache(i, rows) ==
    cache' = [cache EXCEPT ![i] =
        [p \in DOMAIN @ \cup Range(Slots) |->
            IF p \in Range(Slots) THEN rows[CHOOSE r \in DOMAIN Slots : Slots[r] = p] ELSE @[p]]]

Collect(i) == hackKv' = IF collect THEN [hackKv EXCEPT ![i] = Fresh] ELSE hackKv

\* What no layer goes on with: check_layer_idx unassigned, which it is in a
\* decode; old entries that are not as many as the values they are subtracted
\* from, or as the slots they are written to; rows other than imp_indices; keys
\* other than the tokens of the batch.  (Before the subtraction the old keys are
\* rotated at as many positions as the prompt has.  Rows that broadcast, a single
\* one before the suffix, are not told apart.)
Raises ==
    CASE Status(layer) = 1 -> checkLayerIdx = NoIndex \/ Len(oldKvs[layer]) # Len(hidden)
      [] Status(layer) = 2 -> \/ Len(oldKvs[layer]) # Len(Slots)
                              \/ Len(hidden) # Len(impIndices)
      [] OTHER -> Len(hidden) # Len(Slots)

Passing == pass \in {"prefill", "decode"} /\ layer < NumLayers
InLayer(s) == Passing /\ Status(layer) = s /\ ~Raises

LayerRaises ==
    /\ Passing /\ Raises
    /\ pass' = "raised"
    /\ UNCHANGED <<scriptVars, metaVars, hackKv, oldKvs, cache, layer, checkLayerIdx, temp,
                   positions, hidden, residual, lastRow, generated>>

PlainLayer ==
    /\ \E s \in {0, 3} : InLayer(s) /\ temp' = s
    /\ Collect(layer)
    /\ WriteCache(layer, Rotate(Fresh, positions))
    /\ layer' = layer + 1
    /\ UNCHANGED <<scriptVars, metaVars, oldKvs, pass, checkLayerIdx, positions, hidden,
                   residual, lastRow, generated>>

\* The positions keep those of the whole prompt.
BugCheckLayer ==
    /\ InLayer(1) /\ temp' = 1
    /\ checkLayerIdx' = checkLayerIdx + 1
    /\ Collect(layer)
    /\ oldKvs' = [oldKvs EXCEPT ![layer] = OldKeys(layer)]
    /\ \E imp \in Important(Len(hidden)) :
         /\ impIndices' = Sorted(imp)
         /\ hidden' = Select(hidden, Sorted(imp))
         /\ residual' = Select(residual, Sorted(imp))
    /\ WriteCache(layer, Rotate(Fresh, positions))
    /\ layer' = layer + 1
    /\ UNCHANGED <<scriptVars, check, collect, suffixLen, orgPos, pass, positions, lastRow,
                   generated>>

\* status 1: every key is fresh, the queries are those of the important tokens.
CheckLayer ==
    /\ InLayer(1) /\ temp' = 1
    /\ checkLayerIdx' = checkLayerIdx + 1
    /\ Collect(layer)
    /\ oldKvs' = [oldKvs EXCEPT ![layer] = OldKeys(layer)]
    /\ \E imp \in Important(Len(hidden)) :
         /\ impIndices' = Sorted(imp)
         /\ hidden' = Select(hidden, Sorted(imp))
         /\ residual' = Select(residual, Sorted(imp))
         /\ positions' = Select(positions, Sorted(imp))
    /\ WriteCache(layer, Rotate(Fresh, positions))
    /\ layer' = layer + 1
    /\ UNCHANGED <<scriptVars, check, collect, suffixLen, orgPos, pass, lastRow, generated>>

\* The old entries of the important tokens are kept.
BugReuseLayer ==
    /\ InLayer(2) /\ temp' = 2
    /\ Collect(layer)
    /\ oldKvs' = [oldKvs EXCEPT ![layer] = OldKeys(layer)]
    /\ WriteCache(layer, OldKeys(layer))
    /\ layer' = layer + 1
    /\ UNCHANGED <<scriptVars, metaVars, pass, checkLayerIdx, positions, hidden, residual,
                   lastRow, generated>>

\* status 2: the fresh keys go into the old ones, which are written.
ReuseLayer ==
    LET keys == Store(OldKeys(layer), impIndices, Rotate(Fresh, positions)) IN
    /\ InLayer(2) /\ temp' = 2
    /\ Collect(layer)
    /\ oldKvs' = [oldKvs EXCEPT ![layer] = keys]
    /\ WriteCache(layer, keys)
    /\ layer' = layer + 1
    /\ UNCHANGED <<scriptVars, metaVars, pass, checkLayerIdx, positions, hidden, residual,
                   lastRow, generated>>

\* check stays set.
BugSample ==
    /\ pass \in {"prefill", "decode"} /\ layer = NumLayers
    /\ lastRow' = hidden[Len(hidden)]
    /\ generated' = generated + 1
    /\ pass' = "none"
    /\ UNCHANGED <<scriptVars, metaVars, hackKv, oldKvs, cache, layer, checkLayerIdx, temp,
                   positions, hidden, residual>>

\* The first row is sampled from.
BugSampleFirstRow ==
    /\ pass \in {"prefill", "decode"} /\ layer = NumLayers
    /\ lastRow' = hidden[1]
    /\ check' = FALSE
    /\ generated' = generated + 1
    /\ pass' = "none"
    /\ UNCHANGED <<scriptVars, collect, suffixLen, impIndices, orgPos, hackKv, oldKvs, cache,
                   layer, checkLayerIdx, temp, positions, hidden, residual>>

\* ModelRunner.execute_model after the pass: the row sampled from is the last one
\* when check is set, which is then reset, else the last one of the text.
Sample ==
    /\ pass \in {"prefill", "decode"} /\ layer = NumLayers
    /\ lastRow' = IF check THEN hidden[Len(hidden)] ELSE hidden[Len(Slots)]
    /\ check' = FALSE
    /\ generated' = generated + 1
    /\ pass' = "none"
    /\ UNCHANGED <<scriptVars, collect, suffixLen, impIndices, orgPos, hackKv, oldKvs, cache,
                   layer, checkLayerIdx, temp, positions, hidden, residual>>
-----------------------------------------------------------------------------
(***************************************************************************)
(* The script                                                              *)
(***************************************************************************)
\* One token too many.
BugTokens == IF step = "collect" THEN 1 ELSE MaxTokens + 1

Tokens == IF step = "collect" THEN 1 ELSE MaxTokens
Idle == pass = "none"

\* llm.generate(): a prefill, then a decode for every further token.
Generate ==
    /\ Idle /\ generated < Tokens
    /\ IF generated = 0
       THEN StartPass("prefill", Text, [p \in DOMAIN Text |-> p])
       ELSE StartPass("decode", <<Sampled(generated)>>, <<Len(Text) + generated>>)
    /\ cache' = IF generated = 0 THEN [i \in Layers |-> << >>] ELSE cache
    /\ UNCHANGED <<scriptVars, hackKv, oldKvs, lastRow, generated>>

\* The entries of as many tokens as the chunk has ids, or of all there are, and
\* that of BOS for the first chunk.
KeptEntries(i) ==
    LET first == IF chunk = 1 THEN 1 ELSE 2
    IN  SubSeq(hackKv[i], first, MinOf(Samples[sample][chunk] + 1, Len(hackKv[i])))

\* A chunk was run: its entries are joined to those of the chunks before it, and
\* after the last chunk check is set for the prompt.
CollectChunk ==
    /\ Idle /\ step = "collect" /\ generated = 1
    /\ oldKvs' = [i \in Layers |-> (IF chunk = 1 THEN << >> ELSE oldKvs[i]) \o KeptEntries(i)]
    /\ generated' = 0
    /\ IF chunk < NumChunks
       THEN chunk' = chunk + 1 /\ UNCHANGED <<step, check, collect, suffixLen>>
       ELSE /\ step' = "blend" /\ check' = TRUE /\ collect' = FALSE
            /\ suffixLen' \in {1, Samples[sample][NumChunks]}
            /\ UNCHANGED chunk
    /\ UNCHANGED <<sample, impIndices, orgPos, hackKv, cache, passVars, lastRow>>

\* The same prompt without reuse.
GenerateAgain ==
    /\ Idle /\ step = "blend" /\ generated = MaxTokens
    /\ step' = "normal" /\ check' = FALSE /\ collect' = FALSE
    /\ generated' = 0
    /\ UNCHANGED <<sample, chunk, suffixLen, impIndices, orgPos, hackKv, oldKvs, cache,
                   passVars, lastRow>>

NextSample ==
    /\ Idle /\ step = "normal" /\ generated = MaxTokens /\ sample < Len(Samples)
    /\ sample' = sample + 1 /\ step' = "collect" /\ chunk' = 1
    /\ collect' = TRUE /\ check' = FALSE
    /\ generated' = 0
    /\ UNCHANGED <<suffixLen, impIndices, orgPos, hackKv, oldKvs, cache, passVars, lastRow>>
-----------------------------------------------------------------------------
BlendInit ==
    /\ sample = 1 /\ step = "collect" /\ chunk = 1
    /\ check = FALSE /\ collect = TRUE /\ suffixLen = 0
    /\ impIndices = << >> /\ orgPos = << >>
    /\ hackKv = [i \in Layers |-> << >>] /\ oldKvs = hackKv /\ cache = hackKv
    /\ pass = "none" /\ layer = 0 /\ checkLayerIdx = NoIndex /\ temp = 0
    /\ positions = << >> /\ hidden = << >> /\ residual = << >>
    /\ lastRow = BOS /\ generated = 0

BlendNext ==
    \/ PlainLayer \/ CheckLayer \/ ReuseLayer \/ LayerRaises \/ Sample
    \/ Generate \/ CollectChunk \/ GenerateAgain \/ NextSample

BlendSpec == BlendInit /\ [][BlendNext]_blendVars
-----------------------------------------------------------------------------
(***************************************************************************)
(* What reuse must keep true                                               *)
(***************************************************************************)
TokenSet == Nat \X Nat \X Nat
Entries == [tok : TokenSet, ctx : Nat \X Nat, rot : Seq(Nat)]

\* Every variable has its type.
BlendTypeOK ==
    /\ sample \in DOMAIN Samples /\ step \in {"collect", "blend", "normal"}
    /\ chunk \in 1..NumChunks
    /\ {check, collect} \subseteq BOOLEAN
    /\ suffixLen \in Nat /\ {impIndices, orgPos, positions} \subseteq Seq(Nat)
    /\ {hackKv, oldKvs, cache} \subseteq [Layers -> Seq(Entries)]
    /\ pass \in {"none", "prefill", "decode", "raised"}
    /\ layer \in 0..NumLayers /\ checkLayerIdx \in Nat /\ temp \in 0..3
    /\ {hidden, residual} \subseteq Seq(TokenSet)
    /\ lastRow \in TokenSet /\ generated \in 0..MaxTokens

\* The sequence so far: the text and the tokens generated from it.
Position(t) == IF t \in Range(Text) THEN CHOOSE p \in DOMAIN Text : Text[p] = t
               ELSE Len(Text) + t[3]
Written(i) == generated > 0 \/ (pass = "prefill" /\ i < layer)

\* Whatever was reused, every layer's cache has a key for every token, rotated
\* once, by the position it is at (the slices of the script, org_pos, the
\* restriction of positions, the in-place update of old_kvs).  The keys computed
\* in this text are those of the tokens at their places; the reused ones are so
\* when the tokenizer reads the prompt as it read the chunks: if it reads as many
\* other tokens, nothing notices, and these places keep the entries of the chunks.
CacheHoldsThePrompt ==
    \A i \in Layers : Written(i) =>
        /\ DOMAIN Text \subseteq DOMAIN cache[i]
        /\ \A p \in DOMAIN cache[i] :
             LET e == cache[i][p]
             IN  /\ e.rot = <<p>>
                 /\ e.ctx = Context \/ ReadsItsChunks => Position(e.tok) = p

\* Entries that were not computed in this text are found only where the design
\* wants them: in the blended generation, after the first check layer, for tokens
\* neither selected nor in the suffix, each computed in its own chunk.  Nothing
\* leaks into a collected chunk or into the generation without reuse.
ReuseIsConfined ==
    \A i \in Layers : \A p \in DOMAIN cache[i] :
        Written(i) /\ cache[i][p].ctx # Context =>
            /\ step = "blend" /\ i > MinCheckLayer
            /\ p \notin Range(impIndices) /\ p <= Len(Text) - suffixLen
            /\ LET t == cache[i][p].tok
               IN  cache[i][p].ctx = <<sample, IF t = BOS THEN 1 ELSE t[2]>>

\* A row of hidden_states and of residual belong to the same token, at the
\* position the row is rotated by; the mask, aligned at the bottom right, lets row
\* i of n see Len(Text) - n + i keys: no row sees less than its own prefix, and the
\* rows of the suffix see exactly that.
RowsSeeTheirPrefix ==
    pass = "prefill" =>
        /\ hidden = residual
        /\ \A r \in DOMAIN hidden :
             LET p == Position(hidden[r])
                 sees == Len(Text) - Len(hidden) + r
             IN  /\ positions[r] = p
                 /\ sees >= p
                 /\ p > Len(Text) - suffixLen => sees = p

\* The next token is sampled from the row of the last token, also when rows were
\* dropped (selected_token_indices).
SampledFromLastToken ==
    Idle /\ generated > 0 =>
        lastRow = IF generated = 1 THEN Text[Len(Text)] ELSE Sampled(generated - 1)

\* A layer raises only in the blended prompt, and only when the tokenizer reads
\* it in another number of tokens than the entries kept of its chunks: with as
\* many, check_layer_idx is assigned, which a decode does not do, the old entries
\* are as many as the tokens they are compared with and the slots they are written
\* to, and the queries as many as imp_indices, as asserted.
NoBlendError ==
    pass = "raised" =>
        /\ step = "blend" /\ generated = 0
        /\ Len(Reads[sample].prompt) # Len(JoinChunks(sample, NumChunks))
=============================================================================
