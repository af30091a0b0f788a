--------------------------- MODULE MCTaskDelivery ---------------------------
EXTENDS TaskDelivery

CONSTANTS v1, t1, t2

AllInFirstTask == [v \in Clips |-> t1]

\* The first video is of the second task.
FirstInSecondTask == [v \in Clips |-> IF v = v1 THEN t2 ELSE t1]
=============================================================================
