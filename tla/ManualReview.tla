---------------------------- MODULE ManualReview ----------------------------
(***************************************************************************)
(* The review side of a task (internal/modules/scoring): a teacher assigns *)
(* videos to scorers, a scorer saves drafts and submits.  Every operation  *)
(* is an HTTP request, and any number of requests run at once.             *)
(*                                                                         *)
(* A request goes through up to three database round trips:                *)
(*   1. it loads the rows and checks what it is asked to do (service.go);  *)
(*   2. in the transaction, it finds the scorer's assignment again, without*)
(*      locking it (repository.go, findSingleReviewAssignmentTx);          *)
(*   3. it writes manual_evaluations, video_review_assignments and videos  *)
(*      (in this order, so that concurrent writers queue up on the rows    *)
(*      and each transaction's writes appear at once, at its commit).      *)
(* Under READ COMMITTED other requests may commit between the three.  The  *)
(* evaluation looked up by assignment in between is read with step 3: rows *)
(* of manual_evaluations are never deleted, and losing the race to create  *)
(* one ends in RequestFails.  The refresh of the task's counters that      *)
(* follows a submission is in TaskStats.                                   *)
(***************************************************************************)
EXTENDS VideoRow, FiniteSets

CONSTANTS
  Scorers,    \* users with the scorer role
  NoScorer,   \* a NULL scorer_id
  Requests    \* HTTP requests in flight

ASSUME ManualReviewAssumption == NoScorer \notin Scorers

VARIABLES
  accepted,     \* the scorers whose task_scorers row is accepted
  assignment,   \* video_review_assignments, review_no = 1, by video
  manualEval,   \* manual_evaluations, by the video of its assignment
  request       \* what each request in flight has read

reviewVars == <<accepted, assignment, manualEval, request>>

Assignment == [scorer : Scorers \cup {NoScorer},
               status : ManualStatus \cup {"none"}]

NoAssignment == [scorer |-> NoScorer, status |-> "none"]

ManualEvaluation == [scorer : Scorers \cup {NoScorer},
                     status : {"none", "in_progress", "submitted"},
                     score  : Scores \cup {NoScore}]

NoEvaluation == [scorer |-> NoScorer, status |-> "none", score |-> NoScore]

Operations == {"draft", "submit", "submitSaved", "assign", "reassign"}

\* plan: whom each chosen video goes to (assign, reassign) or is reviewed by;
\* aiSeen: the AI status the request read in the row of a chosen video.
Request == [op     : Operations \cup {"none"},
            phase  : {"idle", "loaded", "found"},
            plan   : [Videos -> Scorers \cup {NoScorer}],
            aiSeen : [Videos -> AIStatus],
            score  : Scores \cup {NoScore}]

NoRequest == [op |-> "none", phase |-> "idle",
              plan |-> [v \in Videos |-> NoScorer],
              aiSeen |-> [v \in Videos |-> "pending"],
              score |-> NoScore]

ReviewTypeOK ==
  /\ VideoTypeOK
  /\ accepted \subseteq Scorers
  /\ assignment \in [Videos -> Assignment]
  /\ manualEval \in [Videos -> ManualEvaluation]
  /\ request \in [Requests -> Request]

ReviewInit ==
  /\ accepted = {}
  /\ assignment = [v \in Videos |-> NoAssignment]
  /\ manualEval = [v \in Videos |-> NoEvaluation]
  /\ request = [r \in Requests |-> NoRequest]
-----------------------------------------------------------------------------
(***************************************************************************)
(* Reading.                                                                *)
(***************************************************************************)

Chosen(plan) == {v \in Videos : plan[v] # NoScorer}

\* applyReviewAssignmentToVideo: an assignment's status, when there is one,
\* stands in for the manual_status of the row.
EffectiveManual(v) ==
  IF assignment[v].status = "none" THEN video[v].manual
                                   ELSE assignment[v].status

EffectiveEvaluation(v) ==
  IF assignment[v].status = "none"
  THEN video[v].evaluation
  ELSE ResolveOverallStatus(assignment[v].status, video[v].ai)

\* Mutated: only a complete video is protected.
ReviewDoneWhenComplete(v) == EffectiveEvaluation(v) = "completed"

\* "one or more videos have already completed evaluation"
ReviewDone(v) ==
  \/ EffectiveEvaluation(v) = "completed"
  \/ EffectiveManual(v) = "submitted"

Load(r, op, plan, score) ==
  /\ request[r].phase = "idle"
  /\ Chosen(plan) # {}
  /\ request' = [request EXCEPT ![r] =
       [op |-> op, phase |-> "loaded", plan |-> plan, score |-> score,
        aiSeen |-> [v \in Videos |->
                      IF plan[v] # NoScorer THEN video[v].ai ELSE "pending"]]]

\* SaveTaskDraft and SubmitTask up to the transaction: scorer s of video v.
LoadScoringTask(r, op, v, s, score) ==
  /\ s \in accepted
  /\ assignment[v].scorer = s
  /\ ~ ReviewDone(v)
  /\ Load(r, op, [w \in Videos |-> IF w = v THEN s ELSE NoScorer], score)
  /\ UNCHANGED <<accepted, assignment, manualEval, video>>

\* SubmitSavedTask: every video of the scorer with a saved draft.
LoadSavedDrafts(r, s) ==
  LET saved == {v \in Videos : /\ assignment[v].scorer = s
                               /\ assignment[v].status = "in_progress"
                               /\ manualEval[v].status = "in_progress"}
  IN  /\ s \in accepted
      /\ Load(r, "submitSaved",
              [v \in Videos |-> IF v \in saved THEN s ELSE NoScorer], NoScore)
      /\ UNCHANGED <<accepted, assignment, manualEval, video>>

\* AssignScorers up to its transaction; the teacher may take a video that is
\* being reviewed from its scorer, but not a reviewed one.
LoadAssignment(r, plan) ==
  /\ \A v \in Chosen(plan) : ~ ReviewDone(v)
  /\ Load(r, "assign", plan, NoScore)
  /\ UNCHANGED <<accepted, assignment, manualEval, video>>

\* ReassignPendingVideos: only videos whose review has not been started.
LoadReassignment(r, plan) ==
  /\ \A v \in Chosen(plan) : ~ ReviewDone(v) /\ EffectiveManual(v) = "pending"
  /\ Load(r, "reassign", plan, NoScore)
  /\ UNCHANGED <<accepted, assignment, manualEval, video>>

\* findSingleReviewAssignmentTx for every loaded video; the transaction goes
\* on with the videos still assigned to the scorer, and ends if there is none.
FindAssignments(r) ==
  LET plan  == request[r].plan
      found == [v \in Videos |-> IF assignment[v].scorer = plan[v]
                                 THEN plan[v] ELSE NoScorer]
  IN  /\ request[r].phase = "loaded"
      /\ request[r].op \in {"draft", "submit", "submitSaved"}
      /\ request' = [request EXCEPT
           ![r] = IF Chosen(found) = {}
                  THEN NoRequest
                  ELSE [@ EXCEPT !.phase = "found", !.plan = found]]
      /\ UNCHANGED <<accepted, assignment, manualEval, video>>
-----------------------------------------------------------------------------
(***************************************************************************)
(* Writing: one transaction each.                                          *)
(***************************************************************************)

Finish(r) == request' = [request EXCEPT ![r] = NoRequest]

\* Mutated: an update leaves the status alone.
ReviewedKeepingStatus(v, scorer, status, score) ==
  IF manualEval[v].status = "none"
  THEN [scorer |-> scorer, status |-> status, score |-> score]
  ELSE [manualEval[v] EXCEPT !.score = score]

\* The evaluation of the assignment is created for the request's scorer, or
\* updated; an update leaves its scorer_id alone.
Reviewed(v, scorer, status, score) ==
  [scorer |-> IF manualEval[v].status = "none" THEN scorer
                                               ELSE manualEval[v].scorer,
   status |-> status, score |-> score]

\* SaveManualEvaluationDraft and SubmitManualEvaluation; WithReview leaves
\* completed_at NULL for a draft, as the code does explicitly.
WriteReview(r, op, status) ==
  LET req == request[r]
      V   == Chosen(req.plan)
  IN  /\ req.phase = "found"
      /\ req.op = op
      /\ manualEval' = [v \in Videos |->
           IF v \in V THEN Reviewed(v, req.plan[v], status, req.score)
                      ELSE manualEval[v]]
      /\ assignment' = [v \in Videos |->
           IF v \in V THEN [assignment[v] EXCEPT !.status = status]
                      ELSE assignment[v]]
      /\ video' = [v \in Videos |->
           IF v \in V
           THEN WithReview(video[v], status, req.score, req.aiSeen[v])
           ELSE video[v]]
      /\ Finish(r)
      /\ UNCHANGED accepted

SaveManualEvaluationDraft(r) == WriteReview(r, "draft", "in_progress")

SubmitManualEvaluation(r) == WriteReview(r, "submit", "submitted")

\* SubmitSavedDrafts: the evaluations still in progress are submitted as they
\* are; manual_score is not written.
SubmitSavedDrafts(r) ==
  LET req == request[r]
      V   == {v \in Chosen(req.plan) : manualEval[v].status = "in_progress"}
  IN  /\ req.phase = "found"
      /\ req.op = "submitSaved"
      /\ manualEval' = [v \in Videos |->
           IF v \in V THEN [manualEval[v] EXCEPT !.status = "submitted"]
                      ELSE manualEval[v]]
      /\ assignment' = [v \in Videos |->
           IF v \in V THEN [assignment[v] EXCEPT !.status = "submitted"]
                      ELSE assignment[v]]
      /\ video' = [v \in Videos |->
           IF v \in V
           THEN WithReview(video[v], "submitted", video[v].manualScore,
                           req.aiSeen[v])
           ELSE video[v]]
      /\ Finish(r)
      /\ UNCHANGED accepted

\* The transaction of AssignScorers (an upsert per video), which ends both
\* assignment requests; manual_evaluations is not touched.
AssignScorers(r) ==
  LET req == request[r]
      V   == Chosen(req.plan)
  IN  /\ req.phase = "loaded"
      /\ req.op \in {"assign", "reassign"}
      /\ assignment' = [v \in Videos |->
           IF v \in V THEN [scorer |-> req.plan[v], status |-> "pending"]
                      ELSE assignment[v]]
      /\ video' = [v \in Videos |->
           IF v \in V
           THEN WithReview(video[v], "pending", NoScore, req.aiSeen[v])
           ELSE video[v]]
      /\ Finish(r)
      /\ UNCHANGED <<accepted, manualEval>>

\* A request ends without a trace: the client went away, a query failed or
\* the transaction was rolled back (a unique index, a deadlock), a crash.
RequestFails(r) ==
  /\ request[r].phase # "idle"
  /\ Finish(r)
  /\ UNCHANGED <<accepted, assignment, manualEval, video>>
-----------------------------------------------------------------------------
(***************************************************************************)
(* The relation between scorer and task, as far as reviews read it.        *)
(***************************************************************************)

\* UpdateTaskScorer by acceptInvitation.
AcceptInvitation(s) ==
  /\ s \notin accepted
  /\ accepted' = accepted \cup {s}
  /\ UNCHANGED <<assignment, manualEval, request, video>>

\* DeactivateTaskScorer: the scorer's assignments and reviews stay.
RemoveTaskScorer(s) ==
  /\ s \in accepted
  /\ accepted' = accepted \ {s}
  /\ UNCHANGED <<assignment, manualEval, request, video>>
-----------------------------------------------------------------------------
RequestStarts(r) ==
  \/ \E v \in Videos, s \in Scorers, score \in Scores :
       \/ LoadScoringTask(r, "draft", v, s, score)
       \/ LoadScoringTask(r, "submit", v, s, score)
  \/ \E s \in Scorers : LoadSavedDrafts(r, s)
  \/ \E plan \in [Videos -> Scorers \cup {NoScorer}] :
       LoadAssignment(r, plan) \/ LoadReassignment(r, plan)

RequestGoesOn(r) ==
  \/ FindAssignments(r)
  \/ SaveManualEvaluationDraft(r)
  \/ SubmitManualEvaluation(r)
  \/ SubmitSavedDrafts(r)
  \/ AssignScorers(r)
  \/ RequestFails(r)

ReviewNext ==
  \/ \E r \in Requests : RequestStarts(r) \/ RequestGoesOn(r)
  \/ \E s \in Scorers : AcceptInvitation(s) \/ RemoveTaskScorer(s)
-----------------------------------------------------------------------------
(***************************************************************************)
(* The review side alone: the AI columns stay as they are.                 *)
(***************************************************************************)
ReviewAloneInit ==
  /\ ReviewInit
  /\ \E ai \in AIStatus :
       video = [v \in Videos |->
                  [NewVideo EXCEPT !.ai = ai,
                     !.evaluation = ResolveOverallStatus("pending", ai)]]

ReviewAlone == ReviewAloneInit /\ [][ReviewNext]_<<reviewVars, video>>
-----------------------------------------------------------------------------
(***************************************************************************)
(* Properties.                                                             *)
(***************************************************************************)

\* The row's reviewer status and submission count never drift from the
\* assignment, whatever requests overlap: the transactions that write one
\* write the other (repository.go, three writers and the upsert).
AssignmentMirrorsVideo ==
  \A v \in Videos :
    /\ assignment[v].status # "none" => video[v].manual = assignment[v].status
    /\ assignment[v].status = "none" => video[v].manual = "pending"
    /\ video[v].submitted = 1 <=> assignment[v].status = "submitted"

\* A review that is under way or submitted has its detail row, in the same
\* state: a scorer's list (assignments) and the stored evaluations agree.
StartedReviewHasEvaluation ==
  \A v \in Videos :
    assignment[v].status \in {"in_progress", "submitted"} =>
      manualEval[v].status = assignment[v].status

\* Together: the three rows of a review, in three tables, change as one.
ReviewRowsAgree == AssignmentMirrorsVideo /\ StartedReviewHasEvaluation

\* The summary score is the score of the review: NULL exactly while no review
\* is under way, and otherwise the one in manual_evaluations.
ScoreIsTheReviews ==
  \A v \in Videos :
    video[v].manualScore = IF assignment[v].status \in {"none", "pending"}
                           THEN NoScore ELSE manualEval[v].score

\* A submitted review is final: nobody takes it back, and its score stays.
SubmittedIsFinal ==
  [][\A v \in Videos :
       assignment[v].status = "submitted" =>
         assignment'[v] = assignment[v] /\ manualEval'[v] = manualEval[v]
    ]_<<reviewVars, video>>

\* "当前只允许 manual_status = pending 的视频参与重新分配 ... 这样可以避免覆盖评分员
\* 已开始或已完成的工作" (task_scorer_invitation_design.md:60-62): the transaction of a
\* reassignment leaves a video alone whose review has been started.
ReassignmentSparesStartedWork ==
  [][\A r \in Requests, v \in Videos :
       /\ request[r].op = "reassign"
       /\ request[r].plan[v] # NoScorer
       /\ assignment[v].status \in {"in_progress", "submitted"}
       /\ request'[r] = NoRequest
       => assignment'[v] = assignment[v]
    ]_<<reviewVars, video>>
=============================================================================
