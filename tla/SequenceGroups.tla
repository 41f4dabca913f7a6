--------------------------- MODULE SequenceGroups ---------------------------
(***************************************************************************)
(* Sequences and sequence groups (vllm/sequence.py), as the scheduler and  *)
(* the block managers see them: a status and a number of tokens per        *)
(* sequence.  Token ids, log-probabilities and texts are left out.         *)
(*                                                                         *)
(* A request is a SequenceGroup.  It starts with one prompt sequence,      *)
(* Parent[g], and sampling may add children to it.  Sequence ids come from *)
(* a counter in the code; here every group draws its children from its own *)
(* finite pool {s : GroupOf[s] = g}, and a sequence removed from its group *)
(* gives its id back to the pool.                                          *)
(***************************************************************************)
EXTENDS Naturals, FiniteSets

CONSTANTS
    Groups,          \* requests
    Seqs,            \* sequence ids
    GroupOf,         \* the group a sequence id may belong to
    Parent,          \* the prompt sequence of a group
    PromptLen,       \* number of prompt tokens of a group
    BestOf,          \* SamplingParams.best_of of a group
    BeamGroups,      \* the groups whose SamplingParams.use_beam_search is set
    BlockSize,       \* tokens per block
    MaxModelLen      \* longest sequence the model accepts

ASSUME SequenceGroupsAssumption ==
    /\ IsFiniteSet(Seqs)
    /\ GroupOf \in [Seqs -> Groups]
    /\ Parent \in [Groups -> Seqs]
    /\ \A g \in Groups : GroupOf[Parent[g]] = g
    /\ PromptLen \in [Groups -> Nat \ {0}]
    /\ BestOf \in [Groups -> Nat \ {0}]
    /\ BeamGroups \subseteq Groups
    /\ BlockSize \in Nat \ {0}
    /\ MaxModelLen \in Nat

VARIABLES
    status,          \* Sequence.status; "UNUSED" is an id no group holds
    len              \* Sequence.get_len(): prompt and output tokens

\* The four FINISHED_* statuses are one: nothing modelled tells them apart.
Statuses == {"UNUSED", "WAITING", "RUNNING", "SWAPPED", "FINISHED"}

\* len(seq.logical_token_blocks) after _append_tokens_to_blocks.
NumLogicalBlocks(s) == (len[s] + BlockSize - 1) \div BlockSize

\* SequenceGroup.get_seqs(status=...), .get_seqs() and .get_unfinished_seqs().
SeqsWith(g, st) == {s \in Seqs : GroupOf[s] = g /\ status[s] = st}
Members(g) == {s \in Seqs : GroupOf[s] = g /\ status[s] # "UNUSED"}
Unfinished(g) == {s \in Members(g) : status[s] # "FINISHED"}

NumSeqs(g) == Cardinality(Members(g))

\* SequenceGroup.get_max_num_running_seqs.
MaxNumRunningSeqs(g) ==
    IF g \in BeamGroups \/ BestOf[g] > NumSeqs(g)
    THEN BestOf[g]
    ELSE Cardinality(Unfinished(g))

SequencesInit ==
    /\ status = [s \in Seqs |-> "UNUSED"]
    /\ len = [s \in Seqs |-> 0]

SequencesTypeOK ==
    /\ status \in [Seqs -> Statuses]
    /\ len \in [Seqs -> Nat]
=============================================================================
