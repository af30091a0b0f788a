-------------------------- MODULE MCAnalysisReport --------------------------
EXTENDS AnalysisReport, TLC

CONSTANTS v1, t1, t2

AllInFirstTask == [v \in Clips |-> t1]

ActorSymmetry == Permutations(Callers) \cup Permutations(ReportWorkers)
=============================================================================
