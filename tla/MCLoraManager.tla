--------------------------- MODULE MCLoraManager ----------------------------
(***************************************************************************)
(* A small instance of LoraManager: four LoRAs, three of which fit the CPU *)
(* cache and two the slots.                                                *)
(***************************************************************************)
EXTENDS LoraManager

Batch(index, prompt) == [index |-> index, prompt |-> prompt]

\* Decodes with and without LoRAs, one of them too large for the slots, and
\* prompts: of two tokens for LoRA 1, and of the warm-up requests for LoRAs 1 and 2.
MCMappings == {
    Batch(<<0>>, <<0>>),
    Batch(<<1, 1>>, <<1, 1>>), Batch(<<1, 1>>, <<1>>),
    Batch(<<1, 1, 2>>, <<1, 2>>), Batch(<<3, 1>>, <<3, 1>>),
    Batch(<<2, 0, 4>>, <<2, 0, 4>>), Batch(<<1, 2, 3>>, <<1, 2, 3>>)}
=============================================================================
