------------------------ MODULE SpeculativeDecoding ------------------------
(***************************************************************************)
(* vllm/spec_decode: a draft model proposes tokens, the target model       *)
(* scores all of them in one run, rejection sampling keeps some of them.   *)
(* Which tokens are sampled, and which are accepted, is any choice.        *)
(***************************************************************************)
EXTENDS KVCache

\* _split_by_max_model_len: other sequences skip the draft model.
Speculates(s) == Len(tokens[s]) + NumLookaheadSlots < DraftMaxModelLen

\* The proposals the draft model may make for the sequences of S, and << >>
\* for the others.
Proposals(S) ==
    LET Drafts == [1..NumLookaheadSlots -> UNION Range(Vocabulary)]
        Sampled == {f \in [S -> Drafts] : \A s \in S : \A i \in 1..NumLookaheadSlots :
                                            f[s][i] \in Vocabulary[Len(tokens[s]) + i]}
    IN  {[s \in Seqs |-> IF s \in S THEN f[s] ELSE << >>] : f \in Sampled}

\* The last known token and all proposed ones are run through the target model
\* (one expanded sequence each); the last one proposed is not run through the
\* draft model.
ScoredPositions(s, p) == Len(tokens[s])..Len(tokens[s]) + Len(p[s])
DraftedPositions(s, p) == Len(tokens[s])..Len(tokens[s]) + Len(p[s]) - 1

\* RejectionSampler with its bonus token.
BugAcceptedTokens(s) ==
    {Append(proposal[s], x) : x \in Vocabulary[Len(tokens[s]) + Len(proposal[s]) + 1]}
    \cup UNION {{Append(SubSeq(proposal[s], 1, n), x) :
                    x \in Vocabulary[Len(tokens[s]) + n + 1]} :
                n \in 0..Len(proposal[s]) - 1}

\* RejectionSampler: all proposed tokens, and no bonus token after them, or some
\* of them and the token recovered where the first one is rejected.
AcceptedTokens(s) ==
    {proposal[s]}
    \cup UNION {{Append(SubSeq(proposal[s], 1, n), x) :
                    x \in Vocabulary[Len(tokens[s]) + n + 1]} :
                n \in 0..Len(proposal[s]) - 1}
=============================================================================
