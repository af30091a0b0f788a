-------------------------- MODULE EvaluationStatus --------------------------
(***************************************************************************)
(* The three status columns of a row of `videos` and the rule that derives *)
(* the overall one (internal/domain/evaluation/status.go).  The strings    *)
(* are the ones the columns hold; normalize() (trim and lower case) has    *)
(* nothing to do on them and is left out.                                  *)
(***************************************************************************)

ManualStatus == {"pending", "in_progress", "submitted"}

AIStatus == {"pending", "processing", "completed", "failed"}

OverallStatus == {"pending", "in_progress", "completed", "failed"}

\* A failed AI run hides everything else; only a submitted review and a
\* completed AI run make a video complete; any other sign of work is progress.
ResolveOverallStatus(manual, ai) ==
  CASE ai = "failed" -> "failed"
    [] manual = "submitted" /\ ai = "completed" -> "completed"
    [] manual = "pending" /\ ai = "pending" -> "pending"
    [] OTHER -> "in_progress"

\* The scorer's own view of one review depends on the manual column alone.
ResolveScorerTaskStatus(manual) ==
  IF manual = "submitted" THEN "completed" ELSE manual

\* completed_at is the time of the write, or NULL: kept as "is it set".
ResolveCompletedAt(overall) == overall = "completed"
=============================================================================
