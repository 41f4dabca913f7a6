-------------------------- MODULE MCBlockManagerV1 --------------------------
(***************************************************************************)
(* Small instances of BlockManagerV1: group "g" samples two sequences,     *)
(* group "h" one.                                                          *)
(***************************************************************************)
EXTENDS BlockManagerV1, TLC

CONSTANTS a, b, d          \* sequence ids

MCGroups == {"g", "h"}
MCSeqs == {a, b, d}
MCGroupOf == (a :> "g") @@ (b :> "g") @@ (d :> "h")
MCParent == ("g" :> a) @@ ("h" :> d)
MCPromptLen == ("g" :> 1) @@ ("h" :> 2)
MCPromptLenWindow == ("g" :> 3) @@ ("h" :> 1)
MCBestOf == ("g" :> 2) @@ ("h" :> 1)

\* Every group is a single sequence.
MCBestOfOne == ("g" :> 1) @@ ("h" :> 1)

BlockSymmetry == Permutations(GpuBlocks) \cup Permutations(CpuBlocks)
=============================================================================
