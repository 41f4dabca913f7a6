---------------------------- MODULE MCCacheBlend ----------------------------
(***************************************************************************)
(* Samples of different shapes for CacheBlend: with a third of the tokens  *)
(* to recompute, none to two are selected besides the suffix.  The         *)
(* tokenizer reads the first two as they were; the third in as many        *)
(* tokens, of which one is another (a chunk of one id is read in two       *)
(* alone); and the last one with two tokens at a border read as one.       *)
(***************************************************************************)
EXTENDS CacheBlend

MCSamples == << <<1, 2>>, <<1, 2, 2>>, <<2, 1, 1, 2>>, <<2, 2>> >>
MCReads == <<
    [alone |-> <<1, 2>>, prompt |-> << <<1, 1, 1>>, <<1, 2, 1>>, <<1, 2, 2>> >>],
    [alone |-> <<1, 2, 2>>,
     prompt |-> << <<2, 1, 1>>, <<2, 2, 1>>, <<2, 2, 2>>, <<2, 3, 1>>, <<2, 3, 2>> >>],
    [alone |-> <<2, 2, 1, 2>>,
     prompt |-> << <<3, 1, 1>>, <<3, 1, 2>>, <<3, 0, 1>>, <<3, 3, 1>>, <<3, 4, 1>>,
                   <<3, 4, 2>> >>],
    [alone |-> <<2, 2>>, prompt |-> << <<4, 1, 1>>, <<4, 0, 1>>, <<4, 2, 2>> >>]
  >>
=============================================================================
