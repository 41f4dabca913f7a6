--------------------------- MODULE MCAsyncEngine ----------------------------
(***************************************************************************)
(* A small instance of AsyncEngine: two ids, one of which is used again.   *)
(***************************************************************************)
EXTENDS AsyncEngine, TLC

MCRequests == {"r", "q"}
MCMaxAttempts == ("r" :> 2) @@ ("q" :> 1)
=============================================================================
