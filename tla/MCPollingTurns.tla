--------------------------- MODULE MCPollingTurns ---------------------------
EXTENDS PollingTurns, TLC

Symmetry == Permutations(Videos) \cup Permutations(Requests)

\* Something of a review of v, or of its evaluation.
UnderReview(v) ==
  \/ assignment[v].status # "none"
  \/ \E r \in Requests : request[r].plan[v] # NoScorer

UnderEvaluation(v) ==
  \/ \E c \in Creators : creation[c].video = v
  \/ \E e \in Created : evaluation[e].video = v

\* Reviews never touch the queue: with them there are one video and one evaluation,
\* without them more.
Focus ==
  \/ accepted = {} /\ \A v \in Videos : ~ UnderReview(v)
  \/ /\ Cardinality(Created) <= 1
     /\ Cardinality({v \in Videos : UnderReview(v) \/ UnderEvaluation(v)}) <= 1
=============================================================================
