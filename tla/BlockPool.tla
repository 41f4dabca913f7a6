----------------------------- MODULE BlockPool ------------------------------
(***************************************************************************)
(* What a block manager promises, without tables, counts or devices: every *)
(* block is idle or owned by sequences of one group, and it changes hands  *)
(* only through being idle.                                                *)
(***************************************************************************)
CONSTANTS Blocks, Seqs, GroupOf

VARIABLES
    owners,     \* the sequences that own a block
    idle        \* the blocks that may be handed out

poolVars == <<owners, idle>>

SameGroup(S) == \A s, q \in S : GroupOf[s] = GroupOf[q]

PoolInit ==
    /\ owners = [b \in Blocks |-> {}]
    /\ idle = Blocks

\* A block is taken from the idle ones, gains owners, loses owners, or is left
\* alone.
Taken(b) == b \in idle /\ owners'[b] # {}
Shared(b) == b \notin idle /\ owners[b] \subseteq owners'[b]
Dropped(b) == b \notin idle /\ owners'[b] \subseteq owners[b]
Untouched(b) == owners'[b] = owners[b]

PoolNext ==
    /\ owners' \in [Blocks -> SUBSET Seqs]
    /\ \A b \in Blocks : Taken(b) \/ Shared(b) \/ Dropped(b) \/ Untouched(b)
    /\ \A b \in Blocks : SameGroup(owners'[b])
    /\ idle' = {b \in Blocks : owners'[b] = {}}

PoolSpec == PoolInit /\ [][PoolNext]_poolVars
=============================================================================
