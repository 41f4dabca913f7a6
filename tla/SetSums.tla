------------------------------ MODULE SetSums -------------------------------
(***************************************************************************)
(* The sum of a function over a finite set: of counts of tokens over       *)
(* sequence groups, of blocks over sequences.                              *)
(***************************************************************************)
EXTENDS FiniteSetsExt

SumOver(f, S) == MapThenSumSet(LAMBDA x : f[x], S)
=============================================================================
