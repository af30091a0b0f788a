--------------------------- MODULE MCVideoScoring ---------------------------
EXTENDS VideoScoring, TLC

Symmetry == Permutations(Scorers) \cup Permutations(Requests)
              \cup Permutations(Creators)
=============================================================================
