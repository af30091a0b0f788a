------------------------------ MODULE VideoRow ------------------------------
(***************************************************************************)
(* One row of `videos` per video: the summary that the review handlers and *)
(* the AI handlers both write (internal/model/models.go, type Video).      *)
(* Every video here is uploaded ("ready") and bound to one task.           *)
(*                                                                         *)
(* The columns are written blindly, by UPDATE ... WHERE id = ?, with       *)
(* values the handler computed from what it read earlier: neither side     *)
(* locks the row while it reads.                                           *)
(***************************************************************************)
EXTENDS EvaluationStatus, Naturals

CONSTANTS
  Videos,     \* the videos of the task
  Scores,     \* total scores a reviewer may give
  NoScore,    \* a NULL score column
  MaxEvals    \* bound on the AI evaluations ever created

ASSUME VideoRowAssumption ==
  /\ NoScore \notin Scores
  /\ MaxEvals \in Nat

VARIABLE video

VideoRecord ==
  [manual      : ManualStatus,                \* manual_status
   ai          : AIStatus,                    \* ai_status
   evaluation  : OverallStatus,               \* evaluation_status
   completedAt : BOOLEAN,                     \* completed_at IS NOT NULL
   manualScore : Scores \cup {NoScore},       \* manual_score
   aiScore     : 0..MaxEvals,                 \* whose score ai_score is; 0: NULL
   submitted   : {0, 1}]                      \* submitted_review_count

VideoTypeOK == video \in [Videos -> VideoRecord]

\* A freshly uploaded video (VideoService.CreateUploadCredential).
NewVideo ==
  [manual |-> "pending", ai |-> "pending", evaluation |-> "pending",
   completedAt |-> FALSE, manualScore |-> NoScore, aiScore |-> 0,
   submitted |-> 0]

\* Mutated: an assignment or a draft does not take the submission back.
WithReviewKeepingCount(row, manual, score, aiSeen) ==
  LET overall == ResolveOverallStatus(manual, aiSeen)
  IN  [row EXCEPT !.manual = manual,
                  !.manualScore = score,
                  !.evaluation = overall,
                  !.completedAt = ResolveCompletedAt(overall),
                  !.submitted = IF manual = "submitted" THEN 1 ELSE @]

\* Mutated: a NULL score is left out of the update.
WithReviewKeepingScore(row, manual, score, aiSeen) ==
  LET overall == ResolveOverallStatus(manual, aiSeen)
  IN  [row EXCEPT !.manual = manual,
                  !.manualScore = IF score = NoScore THEN @ ELSE score,
                  !.evaluation = overall,
                  !.completedAt = ResolveCompletedAt(overall),
                  !.submitted = IF manual = "submitted" THEN 1 ELSE 0]

\* The columns a review handler writes: the reviewer's status and score, and
\* the overall status it computes from the AI status it read before.
WithReview(row, manual, score, aiSeen) ==
  LET overall == ResolveOverallStatus(manual, aiSeen)
  IN  [row EXCEPT !.manual = manual,
                  !.manualScore = score,
                  !.evaluation = overall,
                  !.completedAt = ResolveCompletedAt(overall),
                  !.submitted = IF manual = "submitted" THEN 1 ELSE 0]

\* Mutated: only the AI's own columns are written.
WithAIAlone(row, ai, score, manualSeen) ==
  [row EXCEPT !.ai = ai, !.aiScore = score]

\* Mutated: a failure is not carried over to the row.
WithAIUnlessFailed(row, ai, score, manualSeen) ==
  LET overall == ResolveOverallStatus(manualSeen, ai)
  IN  IF ai = "failed" THEN row
      ELSE [row EXCEPT !.ai = ai,
                       !.aiScore = score,
                       !.evaluation = overall,
                       !.completedAt = ResolveCompletedAt(overall)]

\* Mutated: the review is not looked at.
WithAIIgnoringReview(row, ai, score, manualSeen) ==
  LET overall == ResolveOverallStatus("pending", ai)
  IN  [row EXCEPT !.ai = ai,
                  !.aiScore = score,
                  !.evaluation = overall,
                  !.completedAt = ResolveCompletedAt(overall)]

\* Mutated: a new run leaves a complete video complete.
WithAIKeepingCompletion(row, ai, score, manualSeen) ==
  LET overall == IF row.evaluation = "completed" /\ ai = "processing"
                 THEN "completed" ELSE ResolveOverallStatus(manualSeen, ai)
  IN  [row EXCEPT !.ai = ai,
                  !.aiScore = score,
                  !.evaluation = overall,
                  !.completedAt = ResolveCompletedAt(overall)]

\* The columns an AI handler writes, from the manual status it read before.
WithAI(row, ai, score, manualSeen) ==
  LET overall == ResolveOverallStatus(manualSeen, ai)
  IN  [row EXCEPT !.ai = ai,
                  !.aiScore = score,
                  !.evaluation = overall,
                  !.completedAt = ResolveCompletedAt(overall)]
-----------------------------------------------------------------------------
(***************************************************************************)
(* Properties of the row that both sides have to keep.                     *)
(***************************************************************************)

\* completed_at is set exactly while the video is complete, whichever of the
\* handlers wrote last (plans.md, acceptance criteria of 5.6).
CompletedAtMeansCompleted ==
  \A v \in Videos : video[v].completedAt <=> video[v].evaluation = "completed"

\* evaluation_status is what the rule gives for the two columns of the row.
Exact(v) ==
  video[v].evaluation = ResolveOverallStatus(video[v].manual, video[v].ai)

\* The summary of every video is exact (phase.md and the acceptance criteria
\* of plans.md 5.6): it was computed from both columns as they are now.
EvaluationIsExact == \A v \in Videos : Exact(v)
=============================================================================
