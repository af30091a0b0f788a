--------------------------- MODULE MCAIEvaluation ---------------------------
EXTENDS AIEvaluation, TLC

Symmetry == Permutations(Creators)
=============================================================================
