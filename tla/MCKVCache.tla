----------------------------- MODULE MCKVCache -----------------------------
(***************************************************************************)
(* Two requests, "h" with a beam search of two where the setup supports    *)
(* it; prompts that fill a block, end inside one, or share one.  Requests  *)
(* get longer with speculative decoding, until one of them is too long for *)
(* the draft model.                                                        *)
(***************************************************************************)
EXTENDS KVCacheRounds, TLC

CONSTANTS a, c, d          \* sequence ids

MCRequests == {"f", "h"}
MCSeqs == {a, c, d}
MCOwner == (a :> "f") @@ (c :> "h") @@ (d :> "h")
MCFirst == ("f" :> a) @@ ("h" :> c)
MCPrompts == ("f" :> {<<1>>, <<1, 1, 1, 1, 1, 1>>}) @@ ("h" :> {<<1>>})
MCMaxLen == [st \in Setups |-> IF st = "speculative decoding"
                               THEN ("f" :> 7) @@ ("h" :> 4)
                               ELSE ("f" :> 4) @@ ("h" :> 3)]
MCVocabulary == [n \in 1..9 |-> IF n \in {2, 5} THEN {1, 2} ELSE {1}]

BlockSymmetry == Permutations(GpuBlocks) \cup Permutations(CpuBlocks)
=============================================================================
