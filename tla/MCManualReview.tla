--------------------------- MODULE MCManualReview ---------------------------
EXTENDS ManualReview, TLC

ScorerSymmetry == Permutations(Scorers)
Symmetry == Permutations(Scorers) \cup Permutations(Requests)
=============================================================================
