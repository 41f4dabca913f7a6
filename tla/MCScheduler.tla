---------------------------- MODULE MCScheduler -----------------------------
(***************************************************************************)
(* Small instances of Scheduler: group "g" is a beam search, the others    *)
(* sample one sequence.                                                    *)
(***************************************************************************)
EXTENDS Scheduler

CONSTANTS a, b, c, d, e    \* sequence ids

MCGroups == {"g", "h", "k"}
MCSeqs == {a, b, c, d, e}
MCGroupOf == (a :> "g") @@ (b :> "g") @@ (c :> "g") @@ (d :> "h") @@ (e :> "k")
MCParent == ("g" :> a) @@ ("h" :> d) @@ ("k" :> e)
MCPromptLen == ("g" :> 1) @@ ("h" :> 3) @@ ("k" :> 1)
MCBestOf == ("g" :> 2) @@ ("h" :> 1) @@ ("k" :> 1)
MCLora == ("g" :> 1) @@ ("h" :> 0) @@ ("k" :> 2)
MCNoLora == ("g" :> 0) @@ ("h" :> 0) @@ ("k" :> 0)

MCBlockSymmetry == Permutations(GpuBlocks) \cup Permutations(CpuBlocks)

\* Three requests of one sequence each.
SingleGroups == {"f", "h", "k"}
SingleSeqs == {a, d, e}
SingleGroupOf == (a :> "f") @@ (d :> "h") @@ (e :> "k")
SingleParent == ("f" :> a) @@ ("h" :> d) @@ ("k" :> e)
SinglePromptLen == ("f" :> 1) @@ ("h" :> 1) @@ ("k" :> 1)
SingleBestOf == ("f" :> 1) @@ ("h" :> 1) @@ ("k" :> 1)
SingleNoLora == ("f" :> 0) @@ ("h" :> 0) @@ ("k" :> 0)

\* Two requests for one LoRA and one for another.
SingleLora == ("f" :> 1) @@ ("h" :> 1) @@ ("k" :> 2)
=============================================================================
