---------------------------- MODULE MCTaskScorer ----------------------------
EXTENDS TaskScorer, TLC

ScorerSymmetry == Permutations(Calls) \cup Permutations(Scorers) \cup Permutations(Videos)

Touched(s) ==
  \/ relation[s] # "none" \/ account[s].state # "none"
  \/ \E i \in InvitationId : invitation[i].scorer = s
  \/ \E h \in Calls : call[h].scorer = s

\* Overlapping handlers concern one scorer; handlers one by one concern all.
\* Read marks are looked at in the latter only.
Focus ==
  overlap => /\ Cardinality({s \in Scorers : Touched(s)}) <= 1
             /\ \A i \in InvitationId : invitation[i].read => invitation[i].responded
=============================================================================
