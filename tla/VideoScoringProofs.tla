------------------------- MODULE VideoScoringProofs -------------------------
(***************************************************************************)
(* Theorems of VideoScoring, for any videos, scorers, requests, creations, *)
(* evaluations and batch size.                                             *)
(***************************************************************************)
EXTENDS VideoScoring, TLAPS

(***************************************************************************)
(* Types.                                                                  *)
(***************************************************************************)

\* The rule of status.go gives an overall status for any two statuses.
LEMMA ResolveType ==
  ASSUME NEW manual \in ManualStatus, NEW ai \in AIStatus
  PROVE  ResolveOverallStatus(manual, ai) \in OverallStatus
BY DEF ResolveOverallStatus, OverallStatus

\* What a review handler writes is a row again.
LEMMA WithReviewType ==
  ASSUME NEW row \in VideoRecord, NEW manual \in ManualStatus,
         NEW score \in Scores \cup {NoScore}, NEW aiSeen \in AIStatus
  PROVE  WithReview(row, manual, score, aiSeen) \in VideoRecord
BY ResolveType DEF WithReview, VideoRecord, ResolveCompletedAt

\* What an AI handler writes is a row again.
LEMMA WithAIType ==
  ASSUME NEW row \in VideoRecord, NEW ai \in AIStatus,
         NEW score \in 0..MaxEvals, NEW manualSeen \in ManualStatus
  PROVE  WithAI(row, ai, score, manualSeen) \in VideoRecord
BY ResolveType DEF WithAI, VideoRecord, ResolveCompletedAt

\* The initial state is well typed.
LEMMA InitType == Init => TypeOK
<1> SUFFICES ASSUME Init PROVE TypeOK
  OBVIOUS
<1>1. VideoTypeOK
  BY VideoRowAssumption
  DEF Init, VideoTypeOK, VideoRecord, NewVideo, ManualStatus, AIStatus,
      OverallStatus
<1>2. ReviewTypeOK
  BY <1>1
  DEF Init, ReviewInit, ReviewTypeOK, Assignment, NoAssignment,
      ManualEvaluation, NoEvaluation, Request, NoRequest, AIStatus
<1>3. AITypeOK
  BY <1>1, VideoRowAssumption
  DEF Init, AIInit, AITypeOK, Evaluation, NoEvaluationYet, Creation,
      NoCreation, Poll, NoPoll, ManualStatus, EvalId
<1> QED
  BY <1>2, <1>3 DEF TypeOK

\* Loading fills a request with what the rows hold.
LEMMA LoadType ==
  ASSUME TypeOK, NEW r \in Requests, NEW op \in Operations,
         NEW plan \in [Videos -> Scorers \cup {NoScorer}],
         NEW score \in Scores \cup {NoScore},
         Load(r, op, plan, score)
  PROVE  request' \in [Requests -> Request]
<1> DEFINE seen == [v \in Videos |->
                      IF plan[v] # NoScorer THEN video[v].ai ELSE "pending"]
<1>1. seen \in [Videos -> AIStatus]
  BY DEF TypeOK, ReviewTypeOK, VideoTypeOK, VideoRecord, AIStatus
<1> DEFINE loaded == [op |-> op, phase |-> "loaded", plan |-> plan,
                      score |-> score, aiSeen |-> seen]
<1>2. loaded \in Request
  BY <1>1 DEF Request
<1> HIDE DEF seen
<1>3. request' = [request EXCEPT ![r] = loaded]
  BY DEF Load, seen
<1> QED
  BY <1>2, <1>3 DEF TypeOK, ReviewTypeOK

\* The requests that start leave well-typed variables.
LEMMA RequestStartsType ==
  ASSUME TypeOK, NEW r \in Requests, RequestStarts(r)
  PROVE  ReviewTypeOK'
<1>1. request' \in [Requests -> Request]
  <2>1. ASSUME NEW v \in Videos, NEW s \in Scorers, NEW score \in Scores,
               \/ LoadScoringTask(r, "draft", v, s, score)
               \/ LoadScoringTask(r, "submit", v, s, score)
        PROVE  request' \in [Requests -> Request]
    BY <2>1, LoadType DEF LoadScoringTask, Operations
  <2>2. ASSUME NEW s \in Scorers, LoadSavedDrafts(r, s)
        PROVE  request' \in [Requests -> Request]
    BY <2>2, LoadType DEF LoadSavedDrafts, Operations
  <2>3. ASSUME NEW plan \in [Videos -> Scorers \cup {NoScorer}],
               LoadAssignment(r, plan) \/ LoadReassignment(r, plan)
        PROVE  request' \in [Requests -> Request]
    BY <2>3, LoadType DEF LoadAssignment, LoadReassignment, Operations
  <2> QED
    BY <2>1, <2>2, <2>3 DEF RequestStarts
<1>2. UNCHANGED <<accepted, assignment, manualEval, video>>
  BY DEF RequestStarts, LoadScoringTask, LoadSavedDrafts, LoadAssignment,
         LoadReassignment
<1> QED
  BY <1>1, <1>2 DEF TypeOK, ReviewTypeOK, VideoTypeOK

\* A request that goes on leaves well-typed variables.
LEMMA RequestGoesOnType ==
  ASSUME TypeOK, NEW r \in Requests, RequestGoesOn(r)
  PROVE  ReviewTypeOK'
<1> USE DEF TypeOK, ReviewTypeOK, VideoTypeOK
<1>1. request[r] \in Request /\ NoRequest \in Request
  BY DEF Request, NoRequest, AIStatus
<1>2. CASE Finish(r) /\ UNCHANGED <<accepted, assignment, manualEval, video>>
  BY <1>1, <1>2 DEF Finish
<1>3. CASE FindAssignments(r)
  <2> DEFINE plan  == request[r].plan
             found == [v \in Videos |-> IF assignment[v].scorer = plan[v]
                                        THEN plan[v] ELSE NoScorer]
  <2>1. found \in [Videos -> Scorers \cup {NoScorer}]
    BY <1>1 DEF Request
  <2>2. [request[r] EXCEPT !.phase = "found", !.plan = found] \in Request
    BY <1>1, <2>1 DEF Request
  <2> QED
    BY <1>1, <1>3, <2>2 DEF FindAssignments
<1>4. ASSUME NEW op, NEW status \in {"in_progress", "submitted"},
             WriteReview(r, op, status)
      PROVE  ReviewTypeOK'
  <2> DEFINE V == Chosen(request[r].plan)
  <2>1. \A v \in V : /\ request[r].plan[v] \in Scorers
                     /\ request[r].aiSeen[v] \in AIStatus
                     /\ request[r].score \in Scores \cup {NoScore}
    BY <1>1 DEF Chosen, Request
  <2>2. \A v \in V :
          Reviewed(v, request[r].plan[v], status, request[r].score)
            \in ManualEvaluation
    BY <2>1 DEF Reviewed, ManualEvaluation, Chosen
  <2>3. \A v \in V :
          WithReview(video[v], status, request[r].score, request[r].aiSeen[v])
            \in VideoRecord
    BY <2>1, WithReviewType DEF Chosen, ManualStatus
  <2>4. \A v \in V : [assignment[v] EXCEPT !.status = status] \in Assignment
    BY DEF Assignment, ManualStatus, Chosen
  <2>5. manualEval' \in [Videos -> ManualEvaluation]
    BY <1>4, <2>2 DEF WriteReview
  <2>6. assignment' \in [Videos -> Assignment]
    BY <1>4, <2>4 DEF WriteReview
  <2>7. video' \in [Videos -> VideoRecord]
    BY <1>4, <2>3 DEF WriteReview
  <2> QED
    BY <1>1, <1>4, <2>5, <2>6, <2>7 DEF WriteReview, Finish
<1>5. CASE SubmitSavedDrafts(r)
  <2> DEFINE V == {v \in Chosen(request[r].plan) :
                     manualEval[v].status = "in_progress"}
  <2>1. \A v \in V : request[r].aiSeen[v] \in AIStatus
    BY <1>1 DEF Chosen, Request
  <2>2. \A v \in V :
          WithReview(video[v], "submitted", video[v].manualScore,
                     request[r].aiSeen[v]) \in VideoRecord
    <3> TAKE v \in V
    <3>1. video[v] \in VideoRecord
      BY DEF Chosen
    <3>2. video[v].manualScore \in Scores \cup {NoScore}
      BY <3>1 DEF VideoRecord
    <3> QED
      BY <2>1, <3>1, <3>2, WithReviewType DEF ManualStatus
  <2>3. \A v \in V : /\ [assignment[v] EXCEPT !.status = "submitted"] \in Assignment
                     /\ [manualEval[v] EXCEPT !.status = "submitted"] \in ManualEvaluation
    BY DEF Assignment, ManualEvaluation, ManualStatus, Chosen
  <2>4. video' \in [Videos -> VideoRecord]
    BY <1>5, <2>2 DEF SubmitSavedDrafts
  <2>5. /\ assignment' \in [Videos -> Assignment]
        /\ manualEval' \in [Videos -> ManualEvaluation]
    BY <1>5, <2>3 DEF SubmitSavedDrafts
  <2> QED
    BY <1>1, <1>5, <2>4, <2>5 DEF SubmitSavedDrafts, Finish
<1>6. CASE AssignScorers(r)
  <2> DEFINE V == Chosen(request[r].plan)
  <2>1. \A v \in V : /\ request[r].plan[v] \in Scorers
                     /\ request[r].aiSeen[v] \in AIStatus
    BY <1>1 DEF Chosen, Request
  <2>2. \A v \in V :
          WithReview(video[v], "pending", NoScore, request[r].aiSeen[v])
            \in VideoRecord
    BY <2>1, WithReviewType DEF Chosen, ManualStatus
  <2>3. \A v \in V :
          [scorer |-> request[r].plan[v], status |-> "pending"] \in Assignment
    BY <2>1 DEF Assignment, ManualStatus
  <2>4. video' \in [Videos -> VideoRecord]
    BY <1>6, <2>2 DEF AssignScorers
  <2>5. assignment' \in [Videos -> Assignment]
    BY <1>6, <2>3 DEF AssignScorers
  <2> QED
    BY <1>1, <1>6, <2>4, <2>5 DEF AssignScorers, Finish
<1> QED
  BY <1>2, <1>3, <1>4, <1>5, <1>6
  DEF RequestGoesOn, RequestFails, SaveManualEvaluationDraft,
      SubmitManualEvaluation

\* Every step of the review side leaves well-typed variables.
LEMMA ReviewNextType ==
  ASSUME TypeOK, ReviewNext
  PROVE  ReviewTypeOK'
<1>1. ASSUME NEW s \in Scorers, AcceptInvitation(s) \/ RemoveTaskScorer(s)
      PROVE  ReviewTypeOK'
  BY <1>1 DEF TypeOK, ReviewTypeOK, VideoTypeOK, AcceptInvitation,
              RemoveTaskScorer
<1> QED
  BY <1>1, RequestStartsType, RequestGoesOnType DEF ReviewNext
(***************************************************************************)
(* The AI side: types, and who writes which evaluation.  AITypeOK alone is *)
(* not inductive: an evaluation is touched by its number and its video is  *)
(* read by its video_id, and that both exist is what                       *)
(* HandlersOwnTheirEvaluation says.                                        *)
(***************************************************************************)

AIInv == TypeOK /\ HandlersOwnTheirEvaluation

\* Touching an evaluation moves it to the end of the order.
LEMMA TouchType ==
  ASSUME rank \in [EvalId -> EvalId], NEW e \in EvalId, Touch(e)
  PROVE  rank' \in [EvalId -> EvalId]
<1> DEFINE moved(f) == IF f = e THEN MaxEvals
                       ELSE IF rank[f] > rank[e] THEN rank[f] - 1 ELSE rank[f]
<1>1. ASSUME NEW f \in EvalId PROVE moved(f) \in EvalId
  <2>1. rank[f] \in 1..MaxEvals /\ rank[e] \in 1..MaxEvals /\ e \in 1..MaxEvals
    BY DEF EvalId
  <2>2. MaxEvals \in 1..MaxEvals
    BY <2>1, VideoRowAssumption
  <2>3. rank[f] > rank[e] => rank[f] - 1 \in 1..MaxEvals
    BY <2>1, VideoRowAssumption
  <2> QED
    BY <2>1, <2>2, <2>3 DEF EvalId
<1>2. rank' = [f \in EvalId |-> moved(f)]
  BY DEF Touch
<1> QED
  BY <1>1, <1>2

\* An AI handler's write leaves a well-typed row.
LEMMA AIWriteType ==
  ASSUME TypeOK, NEW v \in Videos, NEW ai \in AIStatus,
         NEW score \in 0..MaxEvals \cup {video[v].aiScore},
         NEW manualSeen \in ManualStatus
  PROVE  [video EXCEPT ![v] = WithAI(@, ai, score, manualSeen)]
           \in [Videos -> VideoRecord]
<1>1. video \in [Videos -> VideoRecord]
  BY DEF TypeOK, AITypeOK, VideoTypeOK
<1>2. score \in 0..MaxEvals
  BY <1>1 DEF VideoRecord
<1>3. WithAI(video[v], ai, score, manualSeen) \in VideoRecord
  BY <1>1, <1>2, WithAIType
<1> QED
  BY <1>1, <1>3

\* The handlers of a creation keep the invariant.
LEMMA CreationStepInv ==
  ASSUME AIInv, NEW c \in Creators, CreationStep(c)
  PROVE  AITypeOK' /\ HandlersOwnTheirEvaluation'
<1> USE DEF AIInv, TypeOK, AITypeOK, VideoTypeOK
<1>1. /\ creation[c] \in Creation
      /\ NoCreation \in Creation
      /\ creation[c].manualSeen \in ManualStatus
      /\ creation[c].phase # "idle" => creation[c].video \in Videos
  BY VideoRowAssumption
  DEF Creation, NoCreation, ManualStatus, HandlersOwnTheirEvaluation
<1>2. ASSUME NEW v \in Videos, NEW force \in BOOLEAN, LoadVideo(c, v, force)
      PROVE  AITypeOK' /\ HandlersOwnTheirEvaluation'
  <2>1. video[v].manual \in ManualStatus
    BY DEF VideoRecord
  <2>2. [phase |-> "loaded", video |-> v, manualSeen |-> video[v].manual,
         force |-> force, eval |-> 0] \in Creation
    BY <2>1, VideoRowAssumption DEF Creation
  <2>3. AITypeOK'
    BY <1>2, <2>2 DEF LoadVideo
  <2>4. HandlersOwnTheirEvaluation'
    BY <1>2 DEF LoadVideo, HandlersOwnTheirEvaluation, Created
  <2> QED
    BY <2>3, <2>4
<1>3. CASE CheckLatest(c)
  <2>1. AITypeOK'
    BY <1>1, <1>3 DEF CheckLatest, Creation
  <2>2. HandlersOwnTheirEvaluation'
    BY <1>3 DEF CheckLatest, HandlersOwnTheirEvaluation, Created, NoCreation
  <2> QED
    BY <2>1, <2>2
<1>4. CASE CreateAndMarkVideoProcessing(c)
  <2> DEFINE v == creation[c].video
  <2>1. v \in Videos
    BY <1>1, <1>4 DEF CreateAndMarkVideoProcessing
  <2>2. PICK e \in EvalId \ Created :
          /\ evaluation' = [evaluation EXCEPT ![e] =
               [video |-> v, status |-> "processing", hasJob |-> FALSE,
                score |-> 0]]
          /\ Touch(e)
          /\ creation' = [creation EXCEPT ![c].phase = "created",
                                          ![c].eval = e]
    BY <1>4 DEF CreateAndMarkVideoProcessing
  <2>3. evaluation' \in [EvalId -> Evaluation]
    BY <2>1, <2>2, VideoRowAssumption DEF Evaluation
  <2>4. creation' \in [Creators -> Creation]
    <3>1. e \in 0..MaxEvals
      BY VideoRowAssumption DEF EvalId
    <3>2. [creation[c] EXCEPT !.phase = "created", !.eval = e] \in Creation
      BY <1>1, <3>1 DEF Creation
    <3> QED
      BY <2>2, <3>2
  <2>5. video' \in [Videos -> VideoRecord]
    BY <1>1, <1>4, <2>1, AIWriteType
    DEF CreateAndMarkVideoProcessing, AIStatus
  <2>6. AITypeOK'
    BY <1>4, <2>2, <2>3, <2>4, <2>5, TouchType
    DEF CreateAndMarkVideoProcessing
  <2>7. poll' = poll /\ job' = job
    BY <1>4 DEF CreateAndMarkVideoProcessing
  <2>8. evaluation[e].status = "none" /\ Created' = Created \cup {e}
    BY <2>2 DEF Created
  <2>9. HandlersOwnTheirEvaluation'
    BY <2>1, <2>2, <2>7, <2>8 DEF HandlersOwnTheirEvaluation, Created
  <2> QED
    BY <2>6, <2>9
<1>5. CASE DispatchCreateJob(c)
  <2>1. creation[c].eval \in EvalId
    BY <1>5 DEF DispatchCreateJob, HandlersOwnTheirEvaluation, Created
  <2>2. evaluation' \in [EvalId -> Evaluation]
    BY ZenonT(30), <1>5, <2>1 DEF DispatchCreateJob, Evaluation
  <2>3. AITypeOK'
    BY <1>1, <1>5, <2>1, <2>2, TouchType DEF DispatchCreateJob
  <2>4. Created' = Created
    BY <1>5, <2>1 DEF DispatchCreateJob, Created
  <2>5. HandlersOwnTheirEvaluation'
    BY <1>5, <2>1, <2>4
    DEF DispatchCreateJob, HandlersOwnTheirEvaluation, NoCreation
  <2> QED
    BY <2>3, <2>5
<1>6. CASE DispatchFails(c)
  <2>1. AITypeOK'
    BY <1>1, <1>6 DEF DispatchFails, Creation
  <2>2. HandlersOwnTheirEvaluation'
    BY <1>6 DEF DispatchFails, HandlersOwnTheirEvaluation, Created
  <2> QED
    BY <2>1, <2>2
<1>7. CASE FailDispatched(c)
  <2>1. creation[c].eval \in Created /\ creation[c].video \in Videos
    BY <1>1, <1>7 DEF FailDispatched, HandlersOwnTheirEvaluation
  <2>2. evaluation' \in [EvalId -> Evaluation]
    BY ZenonT(30), <1>7, <2>1 DEF FailDispatched, Evaluation, Created
  <2>3. video' \in [Videos -> VideoRecord]
    <3> DEFINE v == creation[c].video
    <3>1. video' = [video EXCEPT
            ![v] = WithAI(@, "failed", @.aiScore, creation[c].manualSeen)]
      BY <1>7 DEF FailDispatched
    <3> QED
      BY <1>1, <2>1, <3>1, AIWriteType DEF AIStatus
  <2>4. AITypeOK'
    BY <1>1, <1>7, <2>1, <2>2, <2>3, TouchType DEF FailDispatched, Created
  <2>5. Created' = Created
    BY <1>7, <2>1 DEF FailDispatched, Created
  <2>6. HandlersOwnTheirEvaluation'
    BY <1>7, <2>1, <2>5
    DEF FailDispatched, HandlersOwnTheirEvaluation, NoCreation, Created
  <2> QED
    BY <2>4, <2>6
<1>8. CASE CreationStops(c)
  <2>1. AITypeOK'
    BY <1>1, <1>8 DEF CreationStops
  <2>2. HandlersOwnTheirEvaluation'
    BY <1>8 DEF CreationStops, HandlersOwnTheirEvaluation, Created, NoCreation
  <2> QED
    BY <2>1, <2>2
<1> QED
  BY <1>2, <1>3, <1>4, <1>5, <1>6, <1>7, <1>8 DEF CreationStep

\* The provider and the poller keep the invariant.
LEMMA PollInv ==
  ASSUME AIInv, NEW e \in EvalId,
         \/ ProviderFinishes(e) \/ ProviderForgets(e) \/ GracePeriodEnds(e)
         \/ PollStep(e)
  PROVE  AITypeOK' /\ HandlersOwnTheirEvaluation'
<1> USE DEF AIInv, TypeOK, AITypeOK, VideoTypeOK
<1>1. poll[e] \in Poll /\ NoPoll \in Poll
  BY DEF Poll, NoPoll, ManualStatus
<1>2. CASE ProviderFinishes(e) \/ ProviderForgets(e) \/ GracePeriodEnds(e)
  <2>1. AITypeOK'
    BY <1>2 DEF ProviderFinishes, ProviderForgets, GracePeriodEnds
  <2>2. UNCHANGED <<evaluation, creation, poll>>
    BY <1>2 DEF ProviderFinishes, ProviderForgets, GracePeriodEnds
  <2>3. \A f \in EvalId : job[f] # "none" => job'[f] # "none"
    BY <1>2 DEF ProviderFinishes, ProviderForgets, GracePeriodEnds
  <2>4. HandlersOwnTheirEvaluation'
    BY <2>2, <2>3 DEF HandlersOwnTheirEvaluation, Created
  <2> QED
    BY <2>1, <2>4
<1>3. ASSUME poll[e].phase # "idle"
      PROVE  /\ evaluation[e].status = "processing"
             /\ evaluation[e].hasJob
             /\ job[e] # "none"
             /\ e \in Created
             /\ evaluation[e].video \in Videos
  BY <1>3 DEF HandlersOwnTheirEvaluation, Created
<1>4. CASE PollEvaluation(e)
  <2>1. evaluation[e].video \in Videos /\ job[e] # "none"
    BY <1>3, <1>4 DEF PollEvaluation
  <2>2. video[evaluation[e].video].manual \in ManualStatus
    BY <2>1 DEF VideoRecord
  <2>3. PICK outcome \in OutcomesOf(e) :
          poll' = [poll EXCEPT ![e] =
            [phase |-> "resolved", outcome |-> outcome,
             manualSeen |-> video[evaluation[e].video].manual]]
    BY <1>4 DEF PollEvaluation
  <2>4. outcome \in {"processing", "completed", "failed"}
    BY <2>1, <2>3 DEF OutcomesOf
  <2>5. AITypeOK'
    BY <1>4, <2>2, <2>3, <2>4 DEF PollEvaluation, Poll
  <2>6. HandlersOwnTheirEvaluation'
    BY <1>4, <2>3 DEF PollEvaluation, HandlersOwnTheirEvaluation, Created
  <2> QED
    BY <2>5, <2>6
<1>5. CASE PollWrites(e)
  <2> DEFINE v == evaluation[e].video
  <2>1. /\ poll[e].phase = "resolved"
        /\ Touch(e)
        /\ poll' = [poll EXCEPT ![e] = NoPoll]
        /\ UNCHANGED <<job, creation, overdue>>
    BY <1>5 DEF PollWrites, MarkEvaluationProcessing, CompleteEvaluation,
                FailEvaluation
  <2>2. PICK status \in {"processing", "completed", "failed"},
             score \in 0..MaxEvals,
             aiScore \in 0..MaxEvals \cup {video[v].aiScore} :
          /\ evaluation' = [evaluation EXCEPT ![e].status = status,
                                              ![e].score = score]
          /\ video' = [video EXCEPT
               ![v] = WithAI(@, status, aiScore, poll[e].manualSeen)]
    <3>1. /\ evaluation[e] \in Evaluation
          /\ evaluation[e].score \in 0..MaxEvals
          /\ e \in 0..MaxEvals /\ 0 \in 0..MaxEvals
          /\ evaluation[e].status = "processing"
      BY <1>3, <2>1, VideoRowAssumption DEF Evaluation, EvalId
    <3>2. CASE MarkEvaluationProcessing(e)
      <4>1. evaluation = [evaluation EXCEPT ![e].status = "processing",
                                            ![e].score = evaluation[e].score]
        BY <3>1 DEF Evaluation
      <4> QED
        BY <3>1, <3>2, <4>1 DEF MarkEvaluationProcessing
    <3>3. CASE CompleteEvaluation(e)
      <4>1. PICK score \in {0, e} :
              /\ evaluation' = [evaluation EXCEPT ![e].status = "completed",
                                                  ![e].score = score]
              /\ video' = [video EXCEPT
                   ![v] = WithAI(@, "completed", score, poll[e].manualSeen)]
        BY <3>3 DEF CompleteEvaluation
      <4>2. score \in 0..MaxEvals
        BY <3>1
      <4> QED
        BY <4>1, <4>2
    <3>4. CASE FailEvaluation(e)
      <4>1. [evaluation EXCEPT ![e].status = "failed"]
              = [evaluation EXCEPT ![e].status = "failed",
                                   ![e].score = evaluation[e].score]
        BY <3>1 DEF Evaluation
      <4> QED
        BY <3>1, <3>4, <4>1 DEF FailEvaluation
    <3> QED
      BY <1>5, <3>2, <3>3, <3>4 DEF PollWrites
  <2>3. evaluation' \in [EvalId -> Evaluation]
    <3>1. [evaluation[e] EXCEPT !.status = status, !.score = score] \in Evaluation
      BY ZenonT(30) DEF Evaluation
    <3> QED
      BY <2>2, <3>1
  <2>4. video' \in [Videos -> VideoRecord]
    <3>1. v \in Videos /\ poll[e].manualSeen \in ManualStatus
      BY <1>1, <1>3, <2>1 DEF Poll
    <3> QED
      BY <2>2, <3>1, AIWriteType DEF AIStatus
  <2>5. AITypeOK'
    BY <1>1, <2>1, <2>3, <2>4, TouchType
  <2>6. e \in Created /\ evaluation[e].hasJob
    BY <1>3, <2>1
  <2>7. Created' = Created
    BY <2>2, <2>6 DEF Created
  <2>8. HandlersOwnTheirEvaluation'
    BY <2>1, <2>2, <2>6, <2>7
    DEF HandlersOwnTheirEvaluation, NoPoll, Created
  <2> QED
    BY <2>5, <2>8
<1>6. CASE PollStops(e)
  <2>1. AITypeOK'
    BY <1>1, <1>6 DEF PollStops
  <2>2. HandlersOwnTheirEvaluation'
    BY <1>6 DEF PollStops, HandlersOwnTheirEvaluation, Created, NoPoll
  <2> QED
    BY <2>1, <2>2
<1> QED
  BY <1>2, <1>4, <1>5, <1>6 DEF PollStep

\* Every step of the AI side keeps the invariant.
LEMMA AINextInv ==
  ASSUME AIInv, AINext
  PROVE  AITypeOK' /\ HandlersOwnTheirEvaluation'
<1>1. CASE PollOnce
  <2> USE DEF AIInv, TypeOK, AITypeOK, VideoTypeOK
  <2>1. AITypeOK'
    BY <1>1 DEF PollOnce, Poll, NoPoll, ManualStatus
  <2>2. \A e \in ListPollingCandidates :
          evaluation[e].status = "processing" /\ evaluation[e].hasJob
    BY DEF ListPollingCandidates, Waiting
  <2>3. HandlersOwnTheirEvaluation'
    BY <1>1, <2>2 DEF PollOnce, HandlersOwnTheirEvaluation, Created
  <2> QED
    BY <2>1, <2>3
<1> QED
  BY <1>1, CreationStepInv, PollInv DEF AINext

(***************************************************************************)
(* The types and the ownership of evaluations are invariants.              *)
(***************************************************************************)

LEMMA NextAIInv == AIInv /\ [Next]_vars => AIInv'
<1> SUFFICES ASSUME AIInv, [Next]_vars PROVE AIInv'
  OBVIOUS
<1>1. CASE ReviewNext /\ UNCHANGED aiVars
  <2>1. ReviewTypeOK'
    BY <1>1, ReviewNextType DEF AIInv
  <2>2. AITypeOK' /\ HandlersOwnTheirEvaluation'
    BY <1>1, <2>1
    DEF AIInv, TypeOK, AITypeOK, ReviewTypeOK, aiVars,
        HandlersOwnTheirEvaluation, Created
  <2> QED
    BY <2>1, <2>2 DEF AIInv, TypeOK
<1>2. CASE AINext /\ UNCHANGED reviewVars
  <2>1. AITypeOK' /\ HandlersOwnTheirEvaluation'
    BY <1>2, AINextInv
  <2>2. ReviewTypeOK'
    BY <1>2, <2>1 DEF AIInv, TypeOK, AITypeOK, ReviewTypeOK, reviewVars
  <2> QED
    BY <2>1, <2>2 DEF AIInv, TypeOK
<1>3. CASE UNCHANGED vars
  BY <1>3 DEF vars, reviewVars, aiVars, AIInv, TypeOK, ReviewTypeOK, AITypeOK,
              VideoTypeOK, HandlersOwnTheirEvaluation, Created
<1> QED
  BY <1>1, <1>2, <1>3 DEF Next

LEMMA InitAIInv == Init => AIInv
BY InitType
DEF Init, AIInit, AIInv, HandlersOwnTheirEvaluation, Created, NoEvaluationYet,
    NoCreation, NoPoll

\* The types are an invariant of the two sides together.
THEOREM TypeCorrectness == Spec => []TypeOK
<1>1. AIInv => TypeOK
  BY DEF AIInv
<1> QED
  BY InitAIInv, NextAIInv, <1>1, PTL DEF Spec

\* A handler that writes an evaluation is the only one at work on it, however
\* many creations there are and whatever the poller's batch size
\* (createForResolvedVideo and pollOnce hold no lock between their steps).
THEOREM EvaluationOwnership == Spec => []HandlersOwnTheirEvaluation
<1>1. AIInv => HandlersOwnTheirEvaluation
  BY DEF AIInv
<1> QED
  BY InitAIInv, NextAIInv, <1>1, PTL DEF Spec

\* Once it has a verdict, an evaluation is never written again: every writer
\* works on an evaluation that is still being processed.
THEOREM VerdictsAreFinal == Spec => VerdictIsFinal
<1>1. ASSUME AIInv, [Next]_vars, NEW e \in Created,
             evaluation[e].status # "processing"
      PROVE  evaluation'[e] = evaluation[e]
  <2>1. evaluation \in [EvalId -> Evaluation] /\ e \in EvalId
    BY <1>1 DEF AIInv, TypeOK, AITypeOK, Created
  <2>2. ASSUME NEW f, NEW new, f # e, evaluation' = [evaluation EXCEPT ![f] = new]
        PROVE  evaluation'[e] = evaluation[e]
    BY <2>1, <2>2
  <2>3. ASSUME NEW c \in Creators, CreationStep(c)
        PROVE  evaluation'[e] = evaluation[e]
    <3>1. CASE CreateAndMarkVideoProcessing(c)
      <4>1. PICK f \in EvalId \ Created :
              evaluation' = [evaluation EXCEPT ![f] =
                [video |-> creation[c].video, status |-> "processing",
                 hasJob |-> FALSE, score |-> 0]]
        BY <3>1 DEF CreateAndMarkVideoProcessing
      <4> QED
        BY <2>2, <4>1
    <3>2. CASE DispatchCreateJob(c) \/ FailDispatched(c)
      <4>1. creation[c].phase \in {"created", "failing"}
        BY <3>2 DEF DispatchCreateJob, FailDispatched
      <4>2. creation[c].eval # e
        BY <1>1, <4>1 DEF AIInv, HandlersOwnTheirEvaluation
      <4> QED
        BY <2>2, <3>2, <4>2 DEF DispatchCreateJob, FailDispatched
    <3> QED
      BY <2>3, <3>1, <3>2
      DEF CreationStep, LoadVideo, CheckLatest, DispatchFails, CreationStops
  <2>4. ASSUME NEW f \in EvalId, PollStep(f)
        PROVE  evaluation'[e] = evaluation[e]
    <3>1. CASE PollWrites(f)
      <4>1. poll[f].phase # "idle"
        BY <3>1 DEF PollWrites, MarkEvaluationProcessing, CompleteEvaluation,
                    FailEvaluation
      <4>2. f # e
        BY <1>1, <4>1 DEF AIInv, HandlersOwnTheirEvaluation
      <4> QED
        BY <2>1, <3>1, <4>2
        DEF PollWrites, MarkEvaluationProcessing, CompleteEvaluation,
            FailEvaluation
    <3> QED
      BY <2>4, <3>1 DEF PollStep, PollEvaluation, PollStops
  <2>5. CASE AINext
    BY <2>3, <2>4, <2>5
    DEF AINext, PollOnce, ProviderFinishes, ProviderForgets, GracePeriodEnds
  <2> QED
    BY <1>1, <2>5 DEF Next, vars, aiVars
<1>2. AIInv /\ [Next]_vars
        => [\A e \in Created : evaluation[e].status # "processing"
                                 => evaluation'[e] = evaluation[e]]_aiAloneVars
  BY <1>1
<1> QED
  BY InitAIInv, NextAIInv, <1>2, PTL DEF Spec, VerdictIsFinal

(***************************************************************************)
(* The review side: the rows written together stay together.               *)
(***************************************************************************)

ReviewInv ==
  AssignmentMirrorsVideo /\ StartedReviewHasEvaluation /\ CompletedAtMeansCompleted

\* What the two kinds of writes put in the row.
LEMMA WithReviewColumns ==
  ASSUME NEW row \in VideoRecord, NEW manual, NEW score, NEW aiSeen
  PROVE  LET new == WithReview(row, manual, score, aiSeen)
         IN  /\ new.manual = manual
             /\ new.ai = row.ai
             /\ new.evaluation = ResolveOverallStatus(manual, aiSeen)
             /\ new.completedAt <=> new.evaluation = "completed"
             /\ new.submitted = IF manual = "submitted" THEN 1 ELSE 0
BY DEF WithReview, VideoRecord, ResolveCompletedAt

LEMMA WithAIColumns ==
  ASSUME NEW row \in VideoRecord, NEW ai, NEW score, NEW manualSeen
  PROVE  LET new == WithAI(row, ai, score, manualSeen)
         IN  /\ new.manual = row.manual
             /\ new.ai = ai
             /\ new.evaluation = ResolveOverallStatus(manualSeen, ai)
             /\ new.completedAt <=> new.evaluation = "completed"
             /\ new.submitted = row.submitted
BY DEF WithAI, VideoRecord, ResolveCompletedAt

\* The writes of a request keep the row and its assignment together.
LEMMA RequestGoesOnReviewInv ==
  ASSUME TypeOK, ReviewInv, NEW r \in Requests, RequestGoesOn(r)
  PROVE  ReviewInv'
<1> USE DEF TypeOK, ReviewTypeOK, VideoTypeOK
<1> SUFFICES ASSUME NEW v \in Videos
             PROVE  /\ assignment'[v].status # "none" =>
                         video'[v].manual = assignment'[v].status
                    /\ assignment'[v].status = "none" =>
                         video'[v].manual = "pending"
                    /\ video'[v].submitted = 1 <=>
                         assignment'[v].status = "submitted"
                    /\ assignment'[v].status \in {"in_progress", "submitted"}
                         => manualEval'[v].status = assignment'[v].status
                    /\ video'[v].completedAt <=>
                         video'[v].evaluation = "completed"
  BY DEF ReviewInv, AssignmentMirrorsVideo, StartedReviewHasEvaluation,
         CompletedAtMeansCompleted
<1>1. CASE UNCHANGED <<assignment[v], manualEval[v], video[v]>>
  BY <1>1 DEF ReviewInv, AssignmentMirrorsVideo, StartedReviewHasEvaluation,
              CompletedAtMeansCompleted
<1>2. /\ video[v] \in VideoRecord
      /\ assignment[v] \in Assignment
      /\ manualEval[v] \in ManualEvaluation
  OBVIOUS
<1>3. ASSUME NEW status \in {"in_progress", "submitted", "pending"},
             assignment'[v].status = status,
             status # "pending" => manualEval'[v].status = status,
             NEW score, NEW aiSeen,
             video'[v] = WithReview(video[v], status, score, aiSeen)
      PROVE  /\ assignment'[v].status # "none" =>
                  video'[v].manual = assignment'[v].status
             /\ assignment'[v].status = "none" => video'[v].manual = "pending"
             /\ video'[v].submitted = 1 <=> assignment'[v].status = "submitted"
             /\ assignment'[v].status \in {"in_progress", "submitted"}
                  => manualEval'[v].status = assignment'[v].status
             /\ video'[v].completedAt <=> video'[v].evaluation = "completed"
  BY <1>2, <1>3, WithReviewColumns
<1>4. ASSUME NEW op, NEW status \in {"in_progress", "submitted"},
             WriteReview(r, op, status), v \in Chosen(request[r].plan)
      PROVE  /\ assignment'[v].status = status
             /\ manualEval'[v].status = status
             /\ video'[v] = WithReview(video[v], status, request[r].score,
                                       request[r].aiSeen[v])
  BY <1>2, <1>4 DEF WriteReview, Reviewed, Assignment
<1>5. ASSUME NEW op, NEW status, WriteReview(r, op, status),
             v \notin Chosen(request[r].plan)
      PROVE  UNCHANGED <<assignment[v], manualEval[v], video[v]>>
  BY <1>5 DEF WriteReview
<1>6. CASE SaveManualEvaluationDraft(r)
  BY <1>1, <1>3, <1>4, <1>5, <1>6 DEF SaveManualEvaluationDraft
<1>7. CASE SubmitManualEvaluation(r)
  BY <1>1, <1>3, <1>4, <1>5, <1>7 DEF SubmitManualEvaluation
<1>8. CASE SubmitSavedDrafts(r)
  <2>1. CASE /\ v \in Chosen(request[r].plan)
             /\ manualEval[v].status = "in_progress"
    <3>1. /\ assignment'[v].status = "submitted"
          /\ manualEval'[v].status = "submitted"
          /\ video'[v] = WithReview(video[v], "submitted",
                                    video[v].manualScore, request[r].aiSeen[v])
      BY <1>2, <1>8, <2>1 DEF SubmitSavedDrafts, Assignment, ManualEvaluation
    <3> QED
      BY <1>3, <3>1
  <2>2. CASE ~ (/\ v \in Chosen(request[r].plan)
                /\ manualEval[v].status = "in_progress")
    BY <1>1, <1>8, <2>2 DEF SubmitSavedDrafts
  <2> QED
    BY <2>1, <2>2
<1>9. CASE AssignScorers(r)
  <2>1. CASE v \in Chosen(request[r].plan)
    <3>1. /\ assignment'[v].status = "pending"
          /\ video'[v] = WithReview(video[v], "pending", NoScore,
                                    request[r].aiSeen[v])
      BY <1>9, <2>1 DEF AssignScorers
    <3> QED
      BY <1>3, <3>1
  <2>2. CASE v \notin Chosen(request[r].plan)
    BY <1>1, <1>9, <2>2 DEF AssignScorers
  <2> QED
    BY <2>1, <2>2
<1>10. CASE FindAssignments(r) \/ RequestFails(r)
  BY <1>1, <1>10 DEF FindAssignments, RequestFails
<1> QED
  BY <1>6, <1>7, <1>8, <1>9, <1>10 DEF RequestGoesOn

\* What an AI handler writes in a row, and what it leaves alone.
LEMMA AIRowWrites ==
  ASSUME AIInv, AINext, NEW v \in Videos
  PROVE  \/ video'[v] = video[v]
         \/ \E ai, score, manualSeen :
              video'[v] = WithAI(video[v], ai, score, manualSeen)
<1> USE DEF AIInv, TypeOK, AITypeOK, VideoTypeOK
<1>1. ASSUME NEW w, NEW ai, NEW score, NEW manualSeen,
             video' = [video EXCEPT ![w] = WithAI(@, ai, score, manualSeen)]
      PROVE  \/ video'[v] = video[v]
             \/ video'[v] = WithAI(video[v], ai, score, manualSeen)
  BY <1>1
<1>2. ASSUME NEW w, NEW ai, NEW manualSeen,
             video' = [video EXCEPT ![w] = WithAI(@, ai, @.aiScore, manualSeen)]
      PROVE  \/ video'[v] = video[v]
             \/ video'[v] = WithAI(video[v], ai, video[v].aiScore, manualSeen)
  BY <1>2
<1>3. ASSUME NEW c \in Creators, CreationStep(c)
      PROVE  \/ video'[v] = video[v]
             \/ \E ai, score, manualSeen :
                  video'[v] = WithAI(video[v], ai, score, manualSeen)
  <2>1. CASE CreateAndMarkVideoProcessing(c)
    BY <1>2, <2>1 DEF CreateAndMarkVideoProcessing
  <2>2. CASE FailDispatched(c)
    BY <1>2, <2>2 DEF FailDispatched
  <2> QED
    BY <1>3, <2>1, <2>2
    DEF CreationStep, LoadVideo, CheckLatest, DispatchCreateJob, DispatchFails,
        CreationStops
<1>4. ASSUME NEW e \in EvalId, PollStep(e)
      PROVE  \/ video'[v] = video[v]
             \/ \E ai, score, manualSeen :
                  video'[v] = WithAI(video[v], ai, score, manualSeen)
  <2>1. CASE MarkEvaluationProcessing(e)
    BY <1>2, <2>1 DEF MarkEvaluationProcessing
  <2>2. CASE FailEvaluation(e)
    BY <1>2, <2>2 DEF FailEvaluation
  <2>3. CASE CompleteEvaluation(e)
    BY <1>1, <2>3 DEF CompleteEvaluation
  <2> QED
    BY <1>4, <2>1, <2>2, <2>3
    DEF PollStep, PollWrites, PollEvaluation, PollStops
<1> QED
  BY <1>3, <1>4
  DEF AINext, PollOnce, ProviderFinishes, ProviderForgets, GracePeriodEnds

LEMMA NextReviewInv == AIInv /\ ReviewInv /\ [Next]_vars => ReviewInv'
<1> SUFFICES ASSUME AIInv, ReviewInv, [Next]_vars PROVE ReviewInv'
  OBVIOUS
<1>1. CASE UNCHANGED <<assignment, manualEval, video>>
  BY <1>1 DEF ReviewInv, AssignmentMirrorsVideo, StartedReviewHasEvaluation,
              CompletedAtMeansCompleted
<1>2. CASE ReviewNext
  BY <1>1, <1>2, RequestGoesOnReviewInv
  DEF AIInv, ReviewNext, RequestStarts, LoadScoringTask, LoadSavedDrafts,
      LoadAssignment, LoadReassignment, AcceptInvitation, RemoveTaskScorer
<1>3. CASE AINext /\ UNCHANGED reviewVars
  <2>1. \A v \in Videos :
          /\ video'[v].manual = video[v].manual
          /\ video'[v].submitted = video[v].submitted
          /\ video'[v].completedAt <=> video'[v].evaluation = "completed"
    <3> TAKE v \in Videos
    <3>1. video[v] \in VideoRecord
      BY DEF AIInv, TypeOK, AITypeOK, VideoTypeOK
    <3> QED
      BY <1>3, <3>1, AIRowWrites, WithAIColumns
      DEF ReviewInv, CompletedAtMeansCompleted
  <2> QED
    BY <1>3, <2>1
    DEF ReviewInv, AssignmentMirrorsVideo, StartedReviewHasEvaluation,
        CompletedAtMeansCompleted, reviewVars
<1> QED
  BY <1>1, <1>2, <1>3 DEF Next, vars, reviewVars

LEMMA InitReviewInv == Init => ReviewInv
BY DEF Init, ReviewInit, ReviewInv, AssignmentMirrorsVideo,
       StartedReviewHasEvaluation, CompletedAtMeansCompleted, NewVideo,
       NoAssignment, NoEvaluation

\* The three rows of a review agree, whatever requests, creations and poller rounds
\* overlap: the row mirrors the assignment, and a review that has been started has its
\* evaluation, in the same state (the three writers of scoring/repository.go and its
\* upsert).
THEOREM ReviewRowsStayTogether == Spec => []ReviewRowsAgree
<1>1. ReviewInv => ReviewRowsAgree
  BY DEF ReviewInv, ReviewRowsAgree
<1> QED
  BY InitAIInv, NextAIInv, InitReviewInv, NextReviewInv, <1>1, PTL DEF Spec

\* completed_at is set exactly while the video is complete, although five
\* handlers write it from what they read earlier.
THEOREM CompletionTimesAreRight == Spec => []CompletedAtMeansCompleted
<1>1. ReviewInv => CompletedAtMeansCompleted
  BY DEF ReviewInv
<1> QED
  BY InitAIInv, NextAIInv, InitReviewInv, NextReviewInv, <1>1, PTL DEF Spec

(***************************************************************************)
(* Every write leaves an exact summary, unless what it read is stale.      *)
(***************************************************************************)

\* A review handler that read the AI status the row still has is exact.
LEMMA FreshReviewIsExact ==
  ASSUME TypeOK, NEW r \in Requests, RequestGoesOn(r),
         NEW v \in Videos, video'[v] # video[v]
  PROVE  Exact(v)' \/ StaleWrite(v)
<1> USE DEF TypeOK, ReviewTypeOK, VideoTypeOK
<1> DEFINE Written ==
      /\ request[r].phase # "idle"
      /\ request[r].plan[v] # NoScorer
      /\ request'[r].phase = "idle"
      /\ \E manual, score :
           video'[v] = WithReview(video[v], manual, score, request[r].aiSeen[v])
<1>1. Written
  <2>1. ASSUME NEW op, NEW status, WriteReview(r, op, status)
        PROVE  Written
    BY <2>1 DEF WriteReview, Chosen, Finish, NoRequest
  <2>2. CASE SubmitSavedDrafts(r)
    BY <2>2 DEF SubmitSavedDrafts, Chosen, Finish, NoRequest
  <2>3. CASE AssignScorers(r)
    BY <2>3 DEF AssignScorers, Chosen, Finish, NoRequest
  <2> QED
    BY <2>1, <2>2, <2>3
    DEF RequestGoesOn, SaveManualEvaluationDraft, SubmitManualEvaluation,
        FindAssignments, RequestFails
<1>2. CASE request[r].aiSeen[v] = video[v].ai
  <2>1. video[v] \in VideoRecord
    OBVIOUS
  <2> QED
    BY <1>1, <1>2, <2>1, WithReviewColumns DEF Exact
<1>3. CASE request[r].aiSeen[v] # video[v].ai
  BY <1>1, <1>3 DEF StaleWrite
<1> QED
  BY <1>2, <1>3

\* An AI handler that read the reviewer's status the row still has is exact.
LEMMA FreshAIIsExact ==
  ASSUME AIInv, AINext, NEW v \in Videos, video'[v] # video[v]
  PROVE  Exact(v)' \/ StaleWrite(v)
<1>1. video \in [Videos -> VideoRecord]
  BY DEF AIInv, TypeOK, AITypeOK, VideoTypeOK
<1>2. ASSUME NEW ai, NEW score,
             video'[v] = WithAI(video[v], ai, score, video[v].manual)
      PROVE  Exact(v)'
  BY <1>1, <1>2, WithAIColumns DEF Exact
<1>3. ASSUME NEW c \in Creators, CreationStep(c)
      PROVE  Exact(v)' \/ StaleWrite(v)
  <2>1. /\ creation[c].phase \in {"checked", "failing"}
        /\ creation'[c].phase # creation[c].phase
        /\ \E ai : video' = [video EXCEPT ![creation[c].video] =
                      WithAI(@, ai, @.aiScore, creation[c].manualSeen)]
    <3>1. creation \in [Creators -> Creation]
      BY DEF AIInv, TypeOK, AITypeOK
    <3>2. CASE CreateAndMarkVideoProcessing(c)
      BY ZenonT(30), <3>1, <3>2 DEF CreateAndMarkVideoProcessing, Creation
    <3>3. CASE FailDispatched(c)
      BY <3>1, <3>3 DEF FailDispatched, NoCreation
    <3> QED
      BY <1>3, <3>2, <3>3
      DEF CreationStep, LoadVideo, CheckLatest, DispatchCreateJob,
          DispatchFails, CreationStops
  <2>2. creation[c].video = v
    BY <1>1, <2>1
  <2>3. PICK ai :
          video'[v] = WithAI(video[v], ai, video[v].aiScore,
                             creation[c].manualSeen)
    BY <1>1, <2>1, <2>2
  <2>4. CASE creation[c].manualSeen = video[v].manual
    BY <1>2, <2>3, <2>4
  <2>5. CASE creation[c].manualSeen # video[v].manual
    BY <2>1, <2>2, <2>5 DEF StaleWrite
  <2> QED
    BY <2>4, <2>5
<1>4. ASSUME NEW e \in EvalId, PollStep(e)
      PROVE  Exact(v)' \/ StaleWrite(v)
  <2>1. PollWrites(e)
    BY <1>4 DEF PollStep, PollEvaluation, PollStops
  <2>2. /\ poll[e].phase = "resolved"
        /\ poll'[e].phase = "idle"
    <3>1. poll \in [EvalId -> Poll]
      BY DEF AIInv, TypeOK, AITypeOK
    <3> QED
      BY <2>1, <3>1
      DEF PollWrites, MarkEvaluationProcessing, CompleteEvaluation,
          FailEvaluation, NoPoll
  <2>3. \/ \E ai : video' = [video EXCEPT ![evaluation[e].video] =
                      WithAI(@, ai, @.aiScore, poll[e].manualSeen)]
        \/ \E score : video' = [video EXCEPT ![evaluation[e].video] =
                      WithAI(@, "completed", score, poll[e].manualSeen)]
    BY <2>1
    DEF PollWrites, MarkEvaluationProcessing, CompleteEvaluation, FailEvaluation
  <2>4. evaluation[e].video = v
    BY <1>1, <2>3
  <2>5. PICK ai, score :
          video'[v] = WithAI(video[v], ai, score, poll[e].manualSeen)
    BY <1>1, <2>3, <2>4
  <2>6. CASE poll[e].manualSeen = video[v].manual
    BY <1>2, <2>5, <2>6
  <2>7. CASE poll[e].manualSeen # video[v].manual
    BY <2>2, <2>4, <2>7 DEF StaleWrite
  <2> QED
    BY <2>6, <2>7
<1> QED
  BY <1>3, <1>4
  DEF AINext, PollOnce, ProviderFinishes, ProviderForgets, GracePeriodEnds

LEMMA WritesAreExact ==
  ASSUME AIInv, [Next]_vars, NEW v \in Videos, video'[v] # video[v]
  PROVE  Exact(v)' \/ StaleWrite(v)
<1>1. CASE ReviewNext
  BY <1>1, FreshReviewIsExact
  DEF AIInv, ReviewNext, RequestStarts, LoadScoringTask, LoadSavedDrafts,
      LoadAssignment, LoadReassignment, AcceptInvitation, RemoveTaskScorer
<1>2. CASE AINext
  BY <1>2, FreshAIIsExact
<1> QED
  BY <1>1, <1>2 DEF Next, vars

\* A wrong summary needs an overlap: any handler of either side that writes a
\* row leaves evaluation_status exact, or the column of the other side that it
\* had read has changed in between.
THEOREM FreshWritesLeaveExactRows == Spec => FreshWritesAreExact
<1>1. AIInv /\ [Next]_vars
        => [\A v \in Videos :
              video'[v] # video[v] => Exact(v)' \/ StaleWrite(v)]_vars
  BY WritesAreExact
<1> QED
  BY InitAIInv, NextAIInv, <1>1, PTL DEF Spec, FreshWritesAreExact

\* No write of v's row uses a column that has changed since it was read.
NoStaleWrite(v) == [][video'[v] # video[v] => ~ StaleWrite(v)]_vars

\* The summary of one row is exact for as long as no write of that row is stale,
\* however many handlers overlap on it, and whatever happens to the other rows.
THEOREM RowStaysExact ==
  ASSUME NEW v \in Videos
  PROVE  Spec /\ NoStaleWrite(v) => []Exact(v)
<1>1. Init => Exact(v)
  BY DEF Init, Exact, NewVideo, ResolveOverallStatus
<1>2. AIInv /\ Exact(v) /\ [Next]_vars /\ [video'[v] # video[v] => ~ StaleWrite(v)]_vars
        => Exact(v)'
  <2>1. CASE video'[v] = video[v]
    BY <2>1 DEF Exact
  <2>2. CASE video'[v] # video[v]
    BY <2>2, WritesAreExact DEF vars
  <2> QED
    BY <2>1, <2>2
<1> QED
  BY <1>1, <1>2, InitAIInv, NextAIInv, PTL DEF Spec, NoStaleWrite

\* So a video with both sides done counts as complete (plans.md 5.6) unless a stale
\* write has hit its row.
THEOREM RowCountsAsComplete ==
  ASSUME NEW v \in Videos
  PROVE  Spec /\ NoStaleWrite(v) =>
           [](video[v].manual = "submitted" /\ video[v].ai = "completed" =>
                video[v].evaluation = "completed")
<1>1. Exact(v) => (video[v].manual = "submitted" /\ video[v].ai = "completed" =>
                     video[v].evaluation = "completed")
  BY DEF Exact, ResolveOverallStatus
<1> QED
  BY <1>1, RowStaysExact, PTL

\* And if no write at all is stale, every summary is exact.
THEOREM FreshWritesKeepSummaries ==
  Spec /\ [][\A v \in Videos : video'[v] # video[v] => ~ StaleWrite(v)]_vars
    => []EvaluationIsExact
<1>1. Init => EvaluationIsExact
  BY DEF Init, EvaluationIsExact, Exact, NewVideo, ResolveOverallStatus
<1>2. /\ AIInv /\ EvaluationIsExact /\ [Next]_vars
      /\ [\A v \in Videos : video'[v] # video[v] => ~ StaleWrite(v)]_vars
      => EvaluationIsExact'
  <2> SUFFICES ASSUME AIInv, EvaluationIsExact, [Next]_vars,
                      [\A v \in Videos : video'[v] # video[v] => ~ StaleWrite(v)]_vars,
                      NEW v \in Videos
               PROVE  Exact(v)'
    BY DEF EvaluationIsExact
  <2>1. CASE video'[v] = video[v]
    BY <2>1 DEF EvaluationIsExact, Exact
  <2>2. CASE video'[v] # video[v]
    BY <2>2, WritesAreExact DEF vars
  <2> QED
    BY <2>1, <2>2
<1> QED
  BY <1>1, <1>2, InitAIInv, NextAIInv, PTL DEF Spec

(***************************************************************************)
(* Handlers that do not overlap: what they read is what they find.         *)
(***************************************************************************)

Alone == \A h, k \in InFlight : h = k

LEMMA AloneMeans ==
  ASSUME Alone
  PROVE  /\ \A r, q \in Requests :
              request[r].phase # "idle" /\ request[q].phase # "idle" => r = q
         /\ \A c, d \in Creators :
              creation[c].phase # "idle" /\ creation[d].phase # "idle" => c = d
         /\ \A e, f \in EvalId :
              poll[e].phase = "resolved" /\ poll[f].phase = "resolved" => e = f
         /\ \A r \in Requests, c \in Creators :
              ~ (request[r].phase # "idle" /\ creation[c].phase # "idle")
         /\ \A r \in Requests, e \in EvalId :
              ~ (request[r].phase # "idle" /\ poll[e].phase = "resolved")
         /\ \A c \in Creators, e \in EvalId :
              ~ (creation[c].phase # "idle" /\ poll[e].phase = "resolved")
<1>1. /\ \A r \in Requests : request[r].phase # "idle" => <<"request", r>> \in InFlight
      /\ \A c \in Creators : creation[c].phase # "idle" => <<"creation", c>> \in InFlight
      /\ \A e \in EvalId : poll[e].phase = "resolved" => <<"poll", e>> \in InFlight
  BY DEF InFlight
<1>2. /\ \A x, y : <<"request", x>> = <<"request", y>> => x = y
      /\ \A x, y : <<"creation", x>> = <<"creation", y>> => x = y
      /\ \A x, y : <<"poll", x>> = <<"poll", y>> => x = y
      /\ \A x, y : <<"request", x>> # <<"creation", y>>
      /\ \A x, y : <<"request", x>> # <<"poll", y>>
      /\ \A x, y : <<"creation", x>> # <<"poll", y>>
  OBVIOUS
<1>3. ASSUME NEW r \in Requests, NEW q \in Requests,
             request[r].phase # "idle", request[q].phase # "idle"
      PROVE  r = q
  <2>1. <<"request", r>> = <<"request", q>>
    BY <1>1, <1>3 DEF Alone
  <2> QED
    BY <1>2, <2>1
<1>4. ASSUME NEW c \in Creators, NEW d \in Creators,
             creation[c].phase # "idle", creation[d].phase # "idle"
      PROVE  c = d
  <2>1. <<"creation", c>> = <<"creation", d>>
    BY <1>1, <1>4 DEF Alone
  <2> QED
    BY <1>2, <2>1
<1>5. ASSUME NEW e \in EvalId, NEW f \in EvalId,
             poll[e].phase = "resolved", poll[f].phase = "resolved"
      PROVE  e = f
  <2>1. <<"poll", e>> = <<"poll", f>>
    BY <1>1, <1>5 DEF Alone
  <2> QED
    BY <1>2, <2>1
<1>6. ASSUME NEW r \in Requests, NEW c \in Creators,
             request[r].phase # "idle", creation[c].phase # "idle"
      PROVE  FALSE
  <2>1. <<"request", r>> = <<"creation", c>>
    BY <1>1, <1>6 DEF Alone
  <2> QED
    BY <1>2, <2>1
<1>7. ASSUME NEW r \in Requests, NEW e \in EvalId,
             request[r].phase # "idle", poll[e].phase = "resolved"
      PROVE  FALSE
  <2>1. <<"request", r>> = <<"poll", e>>
    BY <1>1, <1>7 DEF Alone
  <2> QED
    BY <1>2, <2>1
<1>8. ASSUME NEW c \in Creators, NEW e \in EvalId,
             creation[c].phase # "idle", poll[e].phase = "resolved"
      PROVE  FALSE
  <2>1. <<"creation", c>> = <<"poll", e>>
    BY <1>1, <1>8 DEF Alone
  <2> QED
    BY <1>2, <2>1
<1> QED
  BY <1>3, <1>4, <1>5, <1>6, <1>7, <1>8

\* What a handler in flight has read is still so, and no review it is about has
\* been submitted, nor, when it reassigns, been started.
SeenByRequests ==
  \A r \in Requests, v \in Videos :
    request[r].phase # "idle" /\ request[r].plan[v] # NoScorer =>
      /\ request[r].aiSeen[v] = video[v].ai
      /\ assignment[v].status # "submitted"
      /\ request[r].op = "submitSaved" => assignment[v].status = "in_progress"
      /\ request[r].op = "reassign" => assignment[v].status # "in_progress"

SeenByAI ==
  /\ \A c \in Creators : creation[c].phase # "idle" =>
       creation[c].manualSeen = video[creation[c].video].manual
  /\ \A e \in EvalId : poll[e].phase = "resolved" =>
       poll[e].manualSeen = video[evaluation[e].video].manual

SerialInv ==
  /\ AIInv
  /\ Alone /\ SeenByRequests /\ SeenByAI
  /\ EvaluationIsExact /\ ScoreIsTheReviews

LEMMA NoWriteIsStale ==
  ASSUME SeenByRequests, SeenByAI, NEW v \in Videos
  PROVE  ~ StaleWrite(v)
BY DEF SeenByRequests, SeenByAI, StaleWrite

\* A request that starts reads the rows as they are.
LEMMA StartsSeen ==
  ASSUME SerialInv, NEW r \in Requests, RequestStarts(r)
  PROVE  /\ SeenByRequests'
         /\ UNCHANGED <<accepted, assignment, manualEval, video>>
<1> USE DEF SerialInv, AIInv, TypeOK, ReviewTypeOK
<1>1. ASSUME NEW op, NEW plan, NEW score, Load(r, op, plan, score),
             UNCHANGED <<accepted, assignment, manualEval, video>>,
             \A v \in Videos : plan[v] # NoScorer =>
               /\ assignment[v].status # "submitted"
               /\ op = "submitSaved" => assignment[v].status = "in_progress"
               /\ op = "reassign" => assignment[v].status # "in_progress"
      PROVE  SeenByRequests'
  <2>1. /\ \A q \in Requests : q # r => request'[q] = request[q]
        /\ request'[r].op = op /\ request'[r].plan = plan
        /\ \A v \in Videos : plan[v] # NoScorer => request'[r].aiSeen[v] = video[v].ai
    BY <1>1 DEF Load
  <2> QED
    BY <1>1, <2>1 DEF SeenByRequests
<1>2. ASSUME NEW v \in Videos, ~ ReviewDone(v) PROVE assignment[v].status # "submitted"
  BY <1>2 DEF ReviewDone, EffectiveManual
<1>3. ASSUME NEW op \in {"draft", "submit"}, NEW v \in Videos, NEW s \in Scorers, NEW score,
             LoadScoringTask(r, op, v, s, score)
      PROVE  SeenByRequests' /\ UNCHANGED <<accepted, assignment, manualEval, video>>
  <2> DEFINE plan == [w \in Videos |-> IF w = v THEN s ELSE NoScorer]
  <2>1. /\ Load(r, op, plan, score) /\ ~ ReviewDone(v)
        /\ UNCHANGED <<accepted, assignment, manualEval, video>>
    BY <1>3 DEF LoadScoringTask
  <2>2. \A w \in Videos : plan[w] # NoScorer =>
          /\ assignment[w].status # "submitted"
          /\ op = "submitSaved" => assignment[w].status = "in_progress"
          /\ op = "reassign" => assignment[w].status # "in_progress"
    BY <1>2, <2>1
  <2> HIDE DEF plan
  <2> QED
    BY <1>1, <2>1, <2>2
<1>4. ASSUME NEW s \in Scorers, LoadSavedDrafts(r, s)
      PROVE  SeenByRequests' /\ UNCHANGED <<accepted, assignment, manualEval, video>>
  <2> DEFINE saved == {v \in Videos : /\ assignment[v].scorer = s
                                      /\ assignment[v].status = "in_progress"
                                      /\ manualEval[v].status = "in_progress"}
             plan == [v \in Videos |-> IF v \in saved THEN s ELSE NoScorer]
  <2>1. /\ Load(r, "submitSaved", plan, NoScore)
        /\ UNCHANGED <<accepted, assignment, manualEval, video>>
    BY <1>4 DEF LoadSavedDrafts
  <2>2. \A w \in Videos : plan[w] # NoScorer => assignment[w].status = "in_progress"
    OBVIOUS
  <2> HIDE DEF plan
  <2> QED
    BY <1>1, <2>1, <2>2
<1>5. ASSUME NEW plan \in [Videos -> Scorers \cup {NoScorer}],
             LoadAssignment(r, plan) \/ LoadReassignment(r, plan)
      PROVE  SeenByRequests' /\ UNCHANGED <<accepted, assignment, manualEval, video>>
  <2>1. PICK op \in {"assign", "reassign"} :
          /\ Load(r, op, plan, NoScore)
          /\ UNCHANGED <<accepted, assignment, manualEval, video>>
          /\ \A v \in Videos : plan[v] # NoScorer =>
               /\ ~ ReviewDone(v)
               /\ op = "reassign" => EffectiveManual(v) = "pending"
    BY <1>5 DEF LoadAssignment, LoadReassignment, Chosen
  <2>2. \A v \in Videos : plan[v] # NoScorer =>
          /\ assignment[v].status # "submitted"
          /\ op = "reassign" => assignment[v].status # "in_progress"
    BY <1>2, <2>1 DEF EffectiveManual
  <2> QED
    BY <1>1, <2>1, <2>2
<1> QED
  BY <1>3, <1>4, <1>5 DEF RequestStarts

\* The score a review write and an AI write put in the row.
LEMMA ScoreColumns ==
  ASSUME NEW row \in VideoRecord, NEW manual, NEW score, NEW seen
  PROVE  /\ WithReview(row, manual, score, seen).manualScore = score
         /\ WithReview(row, manual, score, seen).ai = row.ai
         /\ WithReview(row, manual, score, seen).aiScore = row.aiScore
         /\ WithAI(row, manual, score, seen).manualScore = row.manualScore
         /\ WithAI(row, manual, score, seen).aiScore = score
BY DEF WithReview, WithAI, VideoRecord

\* A request that goes on: where it writes nothing was submitted, and the scores
\* stay those of the reviews.
LEMMA GoesOnWrites ==
  ASSUME SerialInv, NEW r \in Requests, RequestGoesOn(r), NEW v \in Videos
  PROVE  /\ video'[v].ai = video[v].ai
         /\ assignment[v].status = "submitted" =>
              assignment'[v] = assignment[v] /\ manualEval'[v] = manualEval[v]
         /\ video'[v].manualScore = IF assignment'[v].status \in {"none", "pending"}
                                    THEN NoScore ELSE manualEval'[v].score
<1> USE DEF SerialInv, AIInv, TypeOK, ReviewTypeOK, VideoTypeOK
<1>1. /\ video[v] \in VideoRecord /\ assignment[v] \in Assignment
      /\ manualEval[v] \in ManualEvaluation
      /\ video[v].manualScore = IF assignment[v].status \in {"none", "pending"}
                                THEN NoScore ELSE manualEval[v].score
  BY DEF ScoreIsTheReviews
<1>2. CASE UNCHANGED <<assignment[v], manualEval[v], video[v]>>
  BY <1>1, <1>2
<1>3. ASSUME request[r].phase # "idle", request[r].plan[v] # NoScorer
      PROVE  /\ assignment[v].status # "submitted"
             /\ request[r].op = "submitSaved" => assignment[v].status = "in_progress"
  BY <1>3 DEF SeenByRequests
<1>4. ASSUME NEW op, NEW status \in {"in_progress", "submitted"}, WriteReview(r, op, status),
             request[r].plan[v] # NoScorer
      PROVE  /\ video'[v].ai = video[v].ai
             /\ assignment[v].status # "submitted"
             /\ video'[v].manualScore = manualEval'[v].score
             /\ assignment'[v].status = status
  <2>1. /\ request[r].phase = "found"
        /\ manualEval'[v] = Reviewed(v, request[r].plan[v], status, request[r].score)
        /\ assignment'[v] = [assignment[v] EXCEPT !.status = status]
        /\ video'[v] = WithReview(video[v], status, request[r].score, request[r].aiSeen[v])
    BY <1>4 DEF WriteReview, Chosen
  <2> QED
    BY <1>1, <1>3, <1>4, <2>1, ScoreColumns DEF Reviewed, Assignment
<1>5. ASSUME SubmitSavedDrafts(r), request[r].plan[v] # NoScorer,
             manualEval[v].status = "in_progress"
      PROVE  /\ video'[v].ai = video[v].ai
             /\ assignment[v].status # "submitted"
             /\ video'[v].manualScore = manualEval'[v].score
             /\ assignment'[v].status = "submitted"
  <2>1. /\ request[r].phase = "found" /\ request[r].op = "submitSaved"
        /\ manualEval'[v] = [manualEval[v] EXCEPT !.status = "submitted"]
        /\ assignment'[v] = [assignment[v] EXCEPT !.status = "submitted"]
        /\ video'[v] = WithReview(video[v], "submitted", video[v].manualScore,
                                  request[r].aiSeen[v])
    BY <1>5 DEF SubmitSavedDrafts, Chosen
  <2>2. assignment[v].status = "in_progress"
    BY <1>3, <1>5, <2>1
  <2>3. video'[v].manualScore = video[v].manualScore /\ video'[v].ai = video[v].ai
    BY <1>1, <2>1, ScoreColumns
  <2>4. /\ manualEval'[v].score = manualEval[v].score
        /\ assignment'[v].status = "submitted"
    BY <1>1, <2>1 DEF Assignment, ManualEvaluation
  <2> QED
    BY <1>1, <2>2, <2>3, <2>4
<1>6. ASSUME AssignScorers(r), request[r].plan[v] # NoScorer
      PROVE  /\ video'[v].ai = video[v].ai
             /\ assignment[v].status # "submitted"
             /\ video'[v].manualScore = NoScore
             /\ assignment'[v].status = "pending"
  <2>1. /\ request[r].phase = "loaded"
        /\ assignment'[v] = [scorer |-> request[r].plan[v], status |-> "pending"]
        /\ video'[v] = WithReview(video[v], "pending", NoScore, request[r].aiSeen[v])
    BY <1>6 DEF AssignScorers, Chosen
  <2> QED
    BY <1>1, <1>3, <1>6, <2>1, ScoreColumns
<1>7. \/ UNCHANGED <<assignment[v], manualEval[v], video[v]>>
      \/ /\ request[r].plan[v] # NoScorer
         /\ \/ SaveManualEvaluationDraft(r) \/ SubmitManualEvaluation(r)
            \/ SubmitSavedDrafts(r) /\ manualEval[v].status = "in_progress"
            \/ AssignScorers(r)
  BY DEF RequestGoesOn, FindAssignments, RequestFails, SaveManualEvaluationDraft,
         SubmitManualEvaluation, WriteReview, SubmitSavedDrafts, AssignScorers, Chosen
<1>8. CASE request[r].plan[v] # NoScorer /\ SaveManualEvaluationDraft(r)
  BY <1>4, <1>8 DEF SaveManualEvaluationDraft
<1>9. CASE request[r].plan[v] # NoScorer /\ SubmitManualEvaluation(r)
  BY <1>4, <1>9 DEF SubmitManualEvaluation
<1> QED
  BY <1>2, <1>5, <1>6, <1>7, <1>8, <1>9

\* It was in flight, so that no other handler is; and what goes on it has found again.
LEMMA GoesOnSeen ==
  ASSUME SerialInv, NEW r \in Requests, RequestGoesOn(r), UNCHANGED aiVars
  PROVE  SeenByRequests' /\ SeenByAI'
<1> USE DEF SerialInv, AIInv, TypeOK, ReviewTypeOK, VideoTypeOK
<1>1. request[r].phase # "idle" /\ request \in [Requests -> Request]
  BY DEF RequestGoesOn, FindAssignments, SaveManualEvaluationDraft, SubmitManualEvaluation,
         WriteReview, SubmitSavedDrafts, AssignScorers, RequestFails
<1>2. /\ \A q \in Requests : q # r => request[q].phase = "idle"
      /\ \A c \in Creators : creation[c].phase = "idle"
      /\ \A e \in EvalId : poll[e].phase # "resolved"
  BY <1>1, AloneMeans
<1>3. SeenByAI'
  BY <1>2 DEF SeenByAI, aiVars
<1>4. CASE FindAssignments(r)
  <2> DEFINE plan == request[r].plan
             found == [v \in Videos |-> IF assignment[v].scorer = plan[v]
                                        THEN plan[v] ELSE NoScorer]
  <2>1. /\ \A q \in Requests : q # r => request'[q] = request[q]
        /\ \/ request'[r] = NoRequest
           \/ /\ request'[r].plan = found /\ request'[r].aiSeen = request[r].aiSeen
              /\ request'[r].op = request[r].op
        /\ UNCHANGED <<assignment, video>>
    BY <1>1, <1>4 DEF FindAssignments, Request
  <2>2. \A v \in Videos : found[v] # NoScorer => plan[v] # NoScorer
    OBVIOUS
  <2> HIDE DEF found
  <2> QED
    BY <1>1, <1>2, <1>3, <2>1, <2>2 DEF SeenByRequests, NoRequest
<1>5. CASE request'[r].phase = "idle" /\ \A q \in Requests : q # r => request'[q] = request[q]
  BY <1>2, <1>3, <1>5 DEF SeenByRequests
<1>6. FindAssignments(r) \/ Finish(r)
  BY DEF RequestGoesOn, SaveManualEvaluationDraft, SubmitManualEvaluation,
         WriteReview, SubmitSavedDrafts, AssignScorers, RequestFails
<1>7. CASE Finish(r)
  BY <1>1, <1>5, <1>7 DEF Finish, NoRequest
<1> QED
  BY <1>4, <1>6, <1>7

\* The AI handlers never write the reviewer's columns.
LEMMA AIKeepsReview ==
  ASSUME AIInv, AINext
  PROVE  \A v \in Videos : /\ video'[v].manual = video[v].manual
                           /\ video'[v].manualScore = video[v].manualScore
<1> TAKE v \in Videos
<1>1. video[v] \in VideoRecord
  BY DEF AIInv, TypeOK, AITypeOK, VideoTypeOK
<1> QED
  BY <1>1, AIRowWrites, WithAIColumns, ScoreColumns

LEMMA CreationSeen ==
  ASSUME SerialInv, NEW c \in Creators, CreationStep(c), AINext, UNCHANGED reviewVars
  PROVE  SeenByRequests' /\ SeenByAI'
<1> USE DEF SerialInv, AIInv, TypeOK, AITypeOK
<1>1. /\ creation \in [Creators -> Creation] /\ poll' = poll
      /\ \A d \in Creators : d # c => creation'[d] = creation[d]
  BY DEF CreationStep, LoadVideo, CheckLatest, CreateAndMarkVideoProcessing,
         DispatchCreateJob, DispatchFails, FailDispatched, CreationStops
<1>2. CASE creation[c].phase = "idle"
  <2>1. PICK v \in Videos, force \in BOOLEAN : LoadVideo(c, v, force)
    BY <1>2 DEF CreationStep, CheckLatest, CreateAndMarkVideoProcessing,
       DispatchCreateJob, DispatchFails, FailDispatched, CreationStops
  <2>2. /\ UNCHANGED <<video, evaluation>>
        /\ creation'[c].manualSeen = video[v].manual /\ creation'[c].video = v
    BY <1>1, <2>1 DEF LoadVideo
  <2> QED
    BY <1>1, <2>2 DEF SeenByRequests, SeenByAI, reviewVars
<1>3. CASE creation[c].phase # "idle"
  <2>1. /\ \A r \in Requests : request[r].phase = "idle"
        /\ \A d \in Creators : d # c => creation[d].phase = "idle"
        /\ \A e \in EvalId : poll[e].phase # "resolved"
    BY <1>3, AloneMeans
  <2>2. \/ creation'[c].phase = "idle"
        \/ /\ creation'[c].manualSeen = creation[c].manualSeen
           /\ creation'[c].video = creation[c].video
    BY <1>1, <1>3 DEF CreationStep, LoadVideo, CheckLatest, CreateAndMarkVideoProcessing,
       DispatchCreateJob, DispatchFails, FailDispatched, CreationStops, NoCreation, Creation
  <2>3. /\ creation[c].video \in Videos
        /\ creation[c].manualSeen = video[creation[c].video].manual
    BY <1>3 DEF SeenByAI, HandlersOwnTheirEvaluation
  <2>4. \A v \in Videos : video'[v].manual = video[v].manual
    BY AIKeepsReview
  <2>5. SeenByRequests'
    BY <2>1 DEF SeenByRequests, reviewVars
  <2> QED
    BY <1>1, <2>1, <2>2, <2>3, <2>4, <2>5 DEF SeenByAI
<1> QED
  BY <1>2, <1>3

LEMMA PollSeen ==
  ASSUME SerialInv, NEW e \in EvalId, PollStep(e), AINext, UNCHANGED reviewVars
  PROVE  SeenByRequests' /\ SeenByAI'
<1> USE DEF SerialInv, AIInv, TypeOK, AITypeOK
<1>1. /\ poll \in [EvalId -> Poll] /\ creation' = creation
      /\ \A f \in EvalId : f # e => poll'[f] = poll[f]
  BY DEF PollStep, PollEvaluation, PollWrites, PollStops, MarkEvaluationProcessing,
         CompleteEvaluation, FailEvaluation
<1>2. CASE PollEvaluation(e)
  <2>1. /\ UNCHANGED <<video, evaluation>>
        /\ poll'[e].manualSeen = video[evaluation[e].video].manual
    BY <1>1, <1>2 DEF PollEvaluation
  <2> QED
    BY <1>1, <2>1 DEF SeenByRequests, SeenByAI, reviewVars
<1>3. CASE PollStops(e)
  <2>1. UNCHANGED <<video, evaluation>> /\ poll'[e].phase = "idle"
    BY <1>1, <1>3 DEF PollStops, NoPoll
  <2> QED
    BY <1>1, <2>1 DEF SeenByRequests, SeenByAI, reviewVars
<1>4. CASE PollWrites(e)
  <2>1. poll[e].phase = "resolved" /\ poll'[e].phase = "idle"
    BY <1>1, <1>4 DEF PollWrites, MarkEvaluationProcessing, CompleteEvaluation,
       FailEvaluation, NoPoll
  <2>2. /\ \A r \in Requests : request[r].phase = "idle"
        /\ \A d \in Creators : creation[d].phase = "idle"
        /\ \A f \in EvalId : f # e => poll[f].phase # "resolved"
    BY <2>1, AloneMeans
  <2>3. SeenByRequests'
    BY <2>2 DEF SeenByRequests, reviewVars
  <2> QED
    BY <1>1, <2>1, <2>2, <2>3 DEF SeenByAI
<1> QED
  BY <1>2, <1>3, <1>4 DEF PollStep

LEMMA AISeen ==
  ASSUME SerialInv, AINext, UNCHANGED reviewVars
  PROVE  SeenByRequests' /\ SeenByAI'
<1>1. CASE \E c \in Creators : CreationStep(c)
  BY <1>1, CreationSeen
<1>2. CASE \E e \in EvalId : PollStep(e)
  BY <1>2, PollSeen
<1>3. CASE \E e \in EvalId : ProviderFinishes(e) \/ ProviderForgets(e) \/ GracePeriodEnds(e)
  BY <1>3 DEF ProviderFinishes, ProviderForgets, GracePeriodEnds, SerialInv,
     SeenByRequests, SeenByAI, reviewVars
<1>4. CASE PollOnce
  <2>1. /\ UNCHANGED <<video, evaluation, creation>>
        /\ \A e \in EvalId : poll'[e].phase # "resolved"
    BY <1>4 DEF PollOnce, Idle, NoPoll
  <2> QED
    BY <2>1 DEF SerialInv, SeenByRequests, SeenByAI, reviewVars
<1> QED
  BY <1>1, <1>2, <1>3, <1>4 DEF AINext

LEMMA SerialInvStep == SerialInv /\ [OneAtATime]_vars => SerialInv'
<1> SUFFICES ASSUME SerialInv, [OneAtATime]_vars PROVE SerialInv'
  OBVIOUS
<1>1. AIInv'
  BY NextAIInv DEF SerialInv, OneAtATime
<1>2. CASE UNCHANGED vars
  BY <1>1, <1>2 DEF SerialInv, vars, reviewVars, aiVars, Alone, InFlight, SeenByRequests,
     SeenByAI, EvaluationIsExact, Exact, ScoreIsTheReviews
<1>3. CASE OneAtATime
  <2>1. Next /\ Alone'
    BY <1>3 DEF OneAtATime, Alone
  <2>2. SeenByRequests' /\ SeenByAI'
    <3>1. CASE AINext /\ UNCHANGED reviewVars
      BY <3>1, AISeen
    <3>2. ASSUME NEW r \in Requests, RequestStarts(r), UNCHANGED aiVars
          PROVE  SeenByRequests' /\ SeenByAI'
      BY <3>2, StartsSeen DEF SerialInv, SeenByAI, aiVars
    <3>3. ASSUME NEW r \in Requests, RequestGoesOn(r), UNCHANGED aiVars
          PROVE  SeenByRequests' /\ SeenByAI'
      BY <3>3, GoesOnSeen
    <3>4. ASSUME NEW s \in Scorers, AcceptInvitation(s) \/ RemoveTaskScorer(s),
                 UNCHANGED aiVars
          PROVE  SeenByRequests' /\ SeenByAI'
      BY <3>4 DEF AcceptInvitation, RemoveTaskScorer, SerialInv, SeenByRequests, SeenByAI,
         aiVars
    <3> QED
      BY <2>1, <3>1, <3>2, <3>3, <3>4 DEF Next, ReviewNext
  <2>3. EvaluationIsExact'
    <3> SUFFICES ASSUME NEW v \in Videos PROVE Exact(v)'
      BY DEF EvaluationIsExact
    <3>1. CASE video'[v] = video[v]
      BY <3>1 DEF SerialInv, EvaluationIsExact, Exact
    <3>2. CASE video'[v] # video[v]
      BY <2>1, <3>2, WritesAreExact, NoWriteIsStale DEF SerialInv
    <3> QED
      BY <3>1, <3>2
  <2>4. ScoreIsTheReviews'
    <3>1. CASE AINext /\ UNCHANGED reviewVars
      BY <3>1, AIKeepsReview DEF SerialInv, ScoreIsTheReviews, reviewVars
    <3>2. ASSUME NEW r \in Requests, RequestStarts(r) PROVE ScoreIsTheReviews'
      BY <3>2, StartsSeen DEF SerialInv, ScoreIsTheReviews
    <3>3. ASSUME NEW r \in Requests, RequestGoesOn(r) PROVE ScoreIsTheReviews'
      BY <3>3, GoesOnWrites DEF ScoreIsTheReviews
    <3>4. ASSUME NEW s \in Scorers, AcceptInvitation(s) \/ RemoveTaskScorer(s)
          PROVE  ScoreIsTheReviews'
      BY <3>4 DEF AcceptInvitation, RemoveTaskScorer, SerialInv, ScoreIsTheReviews
    <3> QED
      BY <2>1, <3>1, <3>2, <3>3, <3>4 DEF Next, ReviewNext
  <2> QED
    BY <1>1, <2>1, <2>2, <2>3, <2>4 DEF SerialInv
<1> QED
  BY <1>2, <1>3

LEMMA SerialInvInit == Init => SerialInv
<1> SUFFICES ASSUME Init PROVE SerialInv
  OBVIOUS
<1>1. /\ \A r \in Requests : request[r].phase = "idle"
      /\ \A c \in Creators : creation[c].phase = "idle"
      /\ \A e \in EvalId : poll[e].phase = "idle"
  BY DEF Init, ReviewInit, AIInit, NoRequest, NoCreation, NoPoll
<1>2. Alone /\ SeenByRequests /\ SeenByAI
  BY <1>1 DEF Alone, InFlight, SeenByRequests, SeenByAI
<1>3. EvaluationIsExact
  BY DEF Init, EvaluationIsExact, Exact, NewVideo, ResolveOverallStatus
<1>4. ScoreIsTheReviews
  BY DEF Init, ReviewInit, ScoreIsTheReviews, NewVideo, NoAssignment
<1> QED
  BY <1>2, <1>3, <1>4, InitAIInv DEF SerialInv

LEMMA SerialInvariance == Serial => []SerialInv
BY SerialInvInit, SerialInvStep, PTL DEF Serial

\* Without overlap the summary of every video is exact, for any number of videos,
\* scorers, evaluations and handlers: no handler by itself leaves a wrong one.
THEOREM SerialEvaluationIsExact == Serial => []EvaluationIsExact
<1>1. SerialInv => EvaluationIsExact
  BY DEF SerialInv
<1> QED
  BY <1>1, SerialInvariance, PTL

\* Without overlap the score of a video is that of its review, although submit-saved
\* leaves the column alone.
THEOREM SerialScoreIsTheReviews == Serial => []ScoreIsTheReviews
<1>1. SerialInv => ScoreIsTheReviews
  BY DEF SerialInv
<1> QED
  BY <1>1, SerialInvariance, PTL

\* Without overlap nobody takes a submission back.
THEOREM SubmissionsAreFinal == Serial => SubmittedIsFinal
<1>1. ASSUME SerialInv, [OneAtATime]_vars, NEW v \in Videos,
             assignment[v].status = "submitted"
      PROVE  assignment'[v] = assignment[v] /\ manualEval'[v] = manualEval[v]
  <2>1. CASE UNCHANGED reviewVars
    BY <2>1 DEF reviewVars
  <2>2. ASSUME NEW r \in Requests, RequestStarts(r)
        PROVE  assignment'[v] = assignment[v] /\ manualEval'[v] = manualEval[v]
    BY <1>1, <2>2, StartsSeen
  <2>3. ASSUME NEW r \in Requests, RequestGoesOn(r)
        PROVE  assignment'[v] = assignment[v] /\ manualEval'[v] = manualEval[v]
    BY <1>1, <2>3, GoesOnWrites
  <2>4. ASSUME NEW s \in Scorers, AcceptInvitation(s) \/ RemoveTaskScorer(s)
        PROVE  assignment'[v] = assignment[v] /\ manualEval'[v] = manualEval[v]
    BY <2>4 DEF AcceptInvitation, RemoveTaskScorer
  <2> QED
    BY <1>1, <2>1, <2>2, <2>3, <2>4 DEF OneAtATime, Next, ReviewNext, vars
<1>2. SerialInv /\ [OneAtATime]_vars
        => [\A v \in Videos :
              assignment[v].status = "submitted" =>
                assignment'[v] = assignment[v] /\ manualEval'[v] = manualEval[v]
           ]_<<reviewVars, video>>
  BY <1>1
<1> QED
  BY <1>2, SerialInvariance, PTL DEF Serial, SubmittedIsFinal

\* Without overlap a reassignment spares the reviews that have been started: what
\* takes started work away is only that ReassignPendingVideos checks before its
\* transaction what may have changed when that commits.
THEOREM ReassignmentSpares == Serial => ReassignmentSparesStartedWork
<1>1. ASSUME SerialInv, [OneAtATime]_vars, NEW r \in Requests, NEW v \in Videos,
             request[r].op = "reassign", request[r].plan[v] # NoScorer,
             assignment[v].status \in {"in_progress", "submitted"},
             request'[r] = NoRequest
      PROVE  FALSE
  <2>1. request[r].phase = "idle" /\ request[r] # NoRequest
    BY <1>1 DEF SerialInv, SeenByRequests, NoRequest
  <2>2. request \in [Requests -> Request] /\ request'[r] # request[r]
    BY <1>1, <2>1 DEF SerialInv, AIInv, TypeOK, ReviewTypeOK
  <2>3. ASSUME NEW q \in Requests, RequestStarts(q) PROVE FALSE
    <3>1. /\ \A p \in Requests : p # q => request'[p] = request[p]
          /\ request'[q].phase = "loaded"
      BY <2>2, <2>3 DEF RequestStarts, LoadScoringTask, LoadSavedDrafts, LoadAssignment,
         LoadReassignment, Load
    <3> QED
      BY <1>1, <2>2, <3>1 DEF NoRequest
  <2>4. ASSUME NEW q \in Requests, RequestGoesOn(q) PROVE FALSE
    <3>1. /\ \A p \in Requests : p # q => request'[p] = request[p]
          /\ request[q].phase # "idle"
      BY <2>2, <2>4 DEF RequestGoesOn, FindAssignments, SaveManualEvaluationDraft,
         SubmitManualEvaluation, WriteReview, SubmitSavedDrafts, AssignScorers,
         RequestFails, Finish
    <3> QED
      BY <2>1, <2>2, <3>1
  <2>5. ASSUME NEW s \in Scorers, AcceptInvitation(s) \/ RemoveTaskScorer(s) PROVE FALSE
    BY <2>2, <2>5 DEF AcceptInvitation, RemoveTaskScorer
  <2>6. CASE UNCHANGED request
    BY <2>2, <2>6
  <2> QED
    BY <1>1, <2>3, <2>4, <2>5, <2>6 DEF OneAtATime, Next, ReviewNext, vars, reviewVars
<1>2. SerialInv /\ [OneAtATime]_vars
        => [\A r \in Requests, v \in Videos :
              /\ request[r].op = "reassign"
              /\ request[r].plan[v] # NoScorer
              /\ assignment[v].status \in {"in_progress", "submitted"}
              /\ request'[r] = NoRequest
              => assignment'[v] = assignment[v]
           ]_<<reviewVars, video>>
  BY <1>1
<1> QED
  BY <1>2, SerialInvariance, PTL DEF Serial, ReassignmentSparesStartedWork

(***************************************************************************)
(* One creation at a time: the row follows the latest evaluation.          *)
(***************************************************************************)

LatestIsLast ==
  \A v \in Videos : Of(v) # {} => Latest(v) \in Of(v) /\ \A f \in Of(v) : f <= Latest(v)

OnlyLatestIsLive ==
  \A v \in Videos : \A e \in Of(v) : evaluation[e].status = "processing" => e = Latest(v)

CheckedHasNoneLive ==
  \A c \in Creators : creation[c].phase = "checked" =>
    \A e \in Of(creation[c].video) : evaluation[e].status # "processing"

LatestInv ==
  /\ \A e \in Created : 1..(e - 1) \subseteq Created
  /\ LatestIsLast /\ OnlyLatestIsLive /\ CheckedHasNoneLive /\ AIColumnsMirrorLatest

\* No two creations of one video are between their look at its latest evaluation
\* and their insert.  So it is with one creator, when handlers do not overlap, and
\* in a batch, whose goroutines are on different videos.
OneCreationPerVideo ==
  \A c, d \in Creators :
    /\ creation[c].phase = "checked" /\ creation[d].phase = "checked"
    /\ creation[c].video = creation[d].video
    => c = d

LEMMA LastIs ==
  ASSUME NEW S \in SUBSET Nat, NEW e \in S, \A f \in S : f <= e
  PROVE  (CHOOSE x \in S : \A f \in S : f <= x) = e
<1>1. \E x \in S : \A f \in S : f <= x
  OBVIOUS
<1>2. \A x \in S : (\A f \in S : f <= x) => x = e
  OBVIOUS
<1> QED
  BY <1>1, <1>2

LEMMA NewIsLast ==
  ASSUME NEW S, NEW e \in Nat, NEW C \in SUBSET Nat, S \subseteq C, \A f \in C : f < e
  PROVE  S \cup {e} \in SUBSET Nat /\ e \in S \cup {e} /\ \A f \in S \cup {e} : f <= e
OBVIOUS

LEMMA LatestIsNone == ASSUME LatestInv, NEW v \in Videos PROVE Latest(v) = 0 <=> Of(v) = {}
<1>1. \A e \in Of(v) : e # 0
  BY DEF Of, Created, EvalId
<1> QED
  BY <1>1 DEF Latest, LatestInv, LatestIsLast

LEMMA LatestStays ==
  ASSUME LatestInv, NEW w \in Videos, Of(w)' = Of(w)
  PROVE  Latest(w)' = Latest(w)
<1>1. CASE Of(w) = {}
  BY <1>1 DEF Latest
<1>2. CASE Of(w) # {}
  <2>1. Latest(w) \in Of(w)' /\ \A f \in Of(w)' : f <= Latest(w)
    BY <1>2 DEF LatestInv, LatestIsLast
  <2>2. Of(w)' \in SUBSET Nat
    BY DEF Of, Created, EvalId
  <2>3. (CHOOSE x \in Of(w)' : \A f \in Of(w)' : f <= x) = Latest(w)
    BY <2>1, <2>2, LastIs
  <2> QED
    BY <1>2, <2>3 DEF Latest
<1> QED
  BY <1>1, <1>2

\* A write of the evaluation that is being processed, and of its video.
LEMMA LiveWriteFollows ==
  ASSUME AIInv, LatestInv, NEW e \in Created, evaluation[e].status = "processing",
         evaluation'[e].status \in {"processing", "completed", "failed"},
         evaluation'[e].video = evaluation[e].video,
         \A f \in EvalId : f # e => evaluation'[f] = evaluation[f],
         \A w \in Videos : w # evaluation[e].video => video'[w] = video[w],
         video'[evaluation[e].video].ai = evaluation'[e].status,
         evaluation'[e].status = "completed" =>
           video'[evaluation[e].video].aiScore = evaluation'[e].score,
         \A c \in Creators : creation'[c].phase = "checked" => creation'[c] = creation[c]
  PROVE  LatestInv'
<1> PICK v \in Videos : v = evaluation[e].video
  BY DEF AIInv, HandlersOwnTheirEvaluation
<1>1. /\ e \in Of(v) /\ e = Latest(v)
      /\ Created \subseteq EvalId
  BY DEF Of, LatestInv, OnlyLatestIsLive, Created
<1>2. Created' = Created
  BY <1>1 DEF Created
<1>3. \A w : Of(w)' = Of(w)
  <2>1. \A f \in Created : evaluation'[f].video = evaluation[f].video
    BY <1>1
  <2> TAKE w
  <2>2. Of(w)' = {f \in Created : evaluation'[f].video = w}
    BY <1>2 DEF Of
  <2> QED
    BY <2>1, <2>2 DEF Of
<1>4. \A w \in Videos : Latest(w)' = Latest(w)
  BY <1>3, LatestStays
<1>5. \A f \in EvalId : evaluation'[f].status = "processing" =>
                          evaluation[f].status = "processing"
  OBVIOUS
<1>6. (\A f \in Created : 1..(f - 1) \subseteq Created)' /\ LatestIsLast'
  <2>1. (\A f \in Created : 1..(f - 1) \subseteq Created)'
    BY <1>2 DEF LatestInv
  <2>2. LatestIsLast'
    BY <1>3, <1>4 DEF LatestInv, LatestIsLast
  <2> QED
    BY <2>1, <2>2
<1>7. OnlyLatestIsLive'
  <2> SUFFICES ASSUME NEW w \in Videos, NEW f \in Of(w), evaluation'[f].status = "processing"
               PROVE  f = Latest(w)
    BY <1>3, <1>4 DEF OnlyLatestIsLive
  <2> QED
    BY <1>1, <1>5 DEF LatestInv, OnlyLatestIsLive, Of
<1>8. CheckedHasNoneLive'
  <2> SUFFICES ASSUME NEW c \in Creators, creation'[c].phase = "checked",
                      NEW f, f \in Of(creation[c].video)'
               PROVE  evaluation'[f].status # "processing"
    BY DEF CheckedHasNoneLive
  <2>1. creation'[c] = creation[c]
    OBVIOUS
  <2>2. f \in Of(creation[c].video)
    <3>1. f \in Created' /\ evaluation'[f].video = creation'[c].video
      BY DEF Of
    <3>2. f \in EvalId /\ evaluation'[f].video = evaluation[f].video
      BY <1>1, <1>2, <3>1
    <3> QED
      BY <1>2, <2>1, <3>1, <3>2 DEF Of
  <2>3. evaluation[f].status # "processing"
    BY <2>1, <2>2 DEF LatestInv, CheckedHasNoneLive
  <2> QED
    BY <1>1, <1>5, <2>2, <2>3 DEF Of
<1>9. AIColumnsMirrorLatest'
  <2> SUFFICES ASSUME NEW w \in Videos
               PROVE  IF Latest(w) = 0
                      THEN video'[w].ai = "pending"
                      ELSE /\ video'[w].ai = evaluation'[Latest(w)].status
                           /\ video'[w].ai = "completed" =>
                                video'[w].aiScore = evaluation'[Latest(w)].score
    BY <1>4 DEF AIColumnsMirrorLatest
  <2>1. CASE w = v
    <3>1. e # 0
      BY <1>1, VideoRowAssumption DEF EvalId
    <3> QED
      BY <1>1, <2>1, <3>1
  <2>2. CASE w # v
    <3>1. video'[w] = video[w]
      BY <2>2
    <3>2. Latest(w) # 0 => Latest(w) \in EvalId /\ Latest(w) # e
      BY <1>1, <2>2, LatestIsNone DEF LatestInv, LatestIsLast, Of
    <3>3. Latest(w) # 0 => evaluation'[Latest(w)] = evaluation[Latest(w)]
      BY <3>2
    <3> QED
      BY <3>1, <3>3 DEF LatestInv, AIColumnsMirrorLatest
  <2> QED
    BY <2>1, <2>2
<1> QED
  BY <1>6, <1>7, <1>8, <1>9 DEF LatestInv

\* Nothing of an evaluation changes, and no creation passes its check.
LEMMA NothingLiveFollows ==
  ASSUME AIInv, LatestInv, evaluation' = evaluation,
         \A w \in Videos : /\ video'[w].ai = video[w].ai
                           /\ video'[w].aiScore = video[w].aiScore,
         \A c \in Creators : creation'[c].phase = "checked" =>
           \/ creation'[c] = creation[c]
           \/ \A e \in Of(creation'[c].video) : evaluation[e].status # "processing"
  PROVE  LatestInv'
<1>1. Created' = Created /\ \A w : Of(w)' = Of(w) /\ Latest(w)' = Latest(w)
  BY DEF Created, Of, Latest
<1>2. CheckedHasNoneLive'
  <2> SUFFICES ASSUME NEW c \in Creators, creation'[c].phase = "checked",
                      NEW e, e \in Of(creation[c].video)'
               PROVE  evaluation'[e].status # "processing"
    BY DEF CheckedHasNoneLive
  <2>1. e \in Of(creation'[c].video)
    BY DEF Of, Created
  <2> QED
    BY <2>1 DEF LatestInv, CheckedHasNoneLive
<1> QED
  BY <1>1, <1>2 DEF LatestInv, LatestIsLast, OnlyLatestIsLive, AIColumnsMirrorLatest

LEMMA CreateFollows ==
  ASSUME OneCreationPerVideo, AIInv, LatestInv, NEW c \in Creators, CreateAndMarkVideoProcessing(c)
  PROVE  LatestInv'
<1> PICK v \in Videos : v = creation[c].video
  BY DEF CreateAndMarkVideoProcessing, AIInv, HandlersOwnTheirEvaluation
<1>1. /\ creation \in [Creators -> Creation] /\ evaluation \in [EvalId -> Evaluation]
      /\ video \in [Videos -> VideoRecord]
  BY DEF AIInv, TypeOK, AITypeOK, VideoTypeOK
<1>2. PICK e \in EvalId \ Created :
        /\ \A f \in 1..(e - 1) : f \in Created
        /\ evaluation' = [evaluation EXCEPT ![e] =
             [video |-> v, status |-> "processing", hasJob |-> FALSE, score |-> 0]]
        /\ creation' = [creation EXCEPT ![c].phase = "created", ![c].eval = e]
  BY DEF CreateAndMarkVideoProcessing
<1>3. /\ creation[c].phase = "checked"
      /\ video' = [video EXCEPT ![v] = WithAI(@, "processing", @.aiScore, creation[c].manualSeen)]
  BY DEF CreateAndMarkVideoProcessing
<1>4. /\ video'[v].ai = "processing"
      /\ \A w \in Videos : w # v => video'[w] = video[w]
  <2>1. video[v] \in VideoRecord
    BY <1>1, <1>3
  <2> QED
    BY <1>1, <1>3, <2>1, WithAIColumns
<1>5. /\ evaluation'[e].status = "processing" /\ evaluation'[e].video = v
      /\ \A f \in EvalId : f # e => evaluation'[f] = evaluation[f]
  BY <1>1, <1>2
<1>6. \A d \in Creators : creation'[d].phase = "checked" =>
                            creation'[d] = creation[d] /\ creation[d].video # v
  <2>1. creation'[c].phase = "created" /\ \A d \in Creators : d # c => creation'[d] = creation[d]
    BY <1>1, <1>2 DEF Creation
  <2>2. \A d \in Creators : d # c /\ creation[d].phase = "checked" => creation[d].video # v
    BY <1>3 DEF OneCreationPerVideo
  <2> QED
    BY <2>1, <2>2
<1>7. Created' = Created \cup {e}
  BY <1>2, <1>5 DEF Created
<1>8. Of(v)' = Of(v) \cup {e} /\ \A w \in Videos : w # v => Of(w)' = Of(w)
  <2>1. \A f \in Created : evaluation'[f].video = evaluation[f].video
    BY <1>2, <1>5 DEF Created
  <2>2. \A w \in Videos : Of(w)' = {f \in Created \cup {e} : evaluation'[f].video = w}
    BY <1>7 DEF Of
  <2> QED
    BY <2>1, <2>2, <1>5 DEF Of
<1>9. \A w \in Videos : w # v => Latest(w)' = Latest(w)
  BY <1>8, LatestStays
<1>10. e \in Nat /\ Created \subseteq Nat /\ \A f \in Created : f < e
  BY <1>2, VideoRowAssumption DEF LatestInv, Created, EvalId
<1>11. Latest(v)' = e
  <2>1. Of(v)' \in SUBSET Nat /\ e \in Of(v)' /\ \A f \in Of(v)' : f <= e
    <3>1. Of(v) \subseteq Created
      BY DEF Of
    <3> QED
      BY <1>8, <1>10, <3>1, NewIsLast
  <2>2. (CHOOSE x \in Of(v)' : \A f \in Of(v)' : f <= x) = e
    BY <2>1, LastIs
  <2> QED
    BY <2>1, <2>2, <1>5, <1>3 DEF Latest
<1>12. (\A f \in Created : 1..(f - 1) \subseteq Created)'
  BY <1>2, <1>7 DEF LatestInv
<1>13. LatestIsLast'
  <2> SUFFICES ASSUME NEW w \in Videos, Of(w)' # {}
               PROVE  Latest(w)' \in Of(w)' /\ \A f \in Of(w)' : f <= Latest(w)'
    BY DEF LatestIsLast
  <2>1. CASE w = v
    <3>1. Of(v) \subseteq Created
      BY DEF Of
    <3>2. \A f \in Of(v) \cup {e} : f <= e
      BY <1>10, <3>1, NewIsLast
    <3> QED
      BY <1>8, <1>11, <2>1, <3>2
  <2>2. CASE w # v
    BY <1>8, <1>9, <2>2 DEF LatestInv, LatestIsLast
  <2> QED
    BY <2>1, <2>2
<1>14. OnlyLatestIsLive'
  <2> SUFFICES ASSUME NEW w \in Videos, NEW f, f \in Of(w)', evaluation'[f].status = "processing"
               PROVE  f = Latest(w)'
    BY DEF OnlyLatestIsLive
  <2>1. CASE w = v
    <3>1. CASE f = e
      BY <1>11, <2>1, <3>1
    <3>2. CASE f # e
      <4>1. f \in Of(v) /\ evaluation[f].status = "processing"
        BY <1>5, <1>8, <2>1, <3>2 DEF Of, Created
      <4> QED
        BY <1>3, <4>1 DEF LatestInv, CheckedHasNoneLive
    <3> QED
      BY <3>1, <3>2
  <2>2. CASE w # v
    <3>1. f \in Of(w) /\ f # e
      BY <1>2, <1>8, <2>2 DEF Of
    <3> QED
      BY <1>5, <1>9, <2>2, <3>1 DEF LatestInv, OnlyLatestIsLive, Of, Created
  <2> QED
    BY <2>1, <2>2
<1>15. CheckedHasNoneLive'
  <2> SUFFICES ASSUME NEW d \in Creators, creation'[d].phase = "checked",
                      NEW f, f \in Of(creation[d].video)'
               PROVE  evaluation'[f].status # "processing"
    BY DEF CheckedHasNoneLive
  <2>1. creation'[d] = creation[d] /\ creation[d].video # v
    BY <1>6
  <2>2. creation[d].video \in Videos
    BY <2>1 DEF AIInv, HandlersOwnTheirEvaluation
  <2>3. f \in Of(creation[d].video) /\ f # e
    <3>1. f \in Created' /\ evaluation'[f].video = creation[d].video
      BY <2>1 DEF Of
    <3>2. f # e
      BY <1>5, <2>1, <3>1
    <3>3. f \in Created /\ evaluation'[f] = evaluation[f]
      BY <1>5, <1>7, <3>1, <3>2 DEF Created
    <3> QED
      BY <3>1, <3>2, <3>3 DEF Of
  <2>4. evaluation[f].status # "processing"
    BY <2>1, <2>3 DEF LatestInv, CheckedHasNoneLive
  <2> QED
    BY <1>5, <2>3, <2>4 DEF Of, Created
<1>16. AIColumnsMirrorLatest'
  <2> SUFFICES ASSUME NEW w \in Videos
               PROVE  IF Latest(w)' = 0
                      THEN video'[w].ai = "pending"
                      ELSE /\ video'[w].ai = evaluation'[Latest(w)'].status
                           /\ video'[w].ai = "completed" =>
                                video'[w].aiScore = evaluation'[Latest(w)'].score
    BY DEF AIColumnsMirrorLatest
  <2>1. CASE w = v
    BY <1>2, <1>4, <1>5, <1>11, <2>1 DEF EvalId
  <2>2. CASE w # v
    <3>1. video'[w] = video[w] /\ Latest(w)' = Latest(w)
      BY <1>4, <1>9, <2>2
    <3>2. Latest(w) # 0 => Latest(w) \in EvalId /\ Latest(w) # e
      BY <1>2, LatestIsNone DEF LatestInv, LatestIsLast, Of, Created
    <3>3. Latest(w) # 0 => evaluation'[Latest(w)] = evaluation[Latest(w)]
      BY <1>5, <3>2
    <3> QED
      BY <3>1, <3>3 DEF LatestInv, AIColumnsMirrorLatest
  <2> QED
    BY <2>1, <2>2
<1> QED
  BY <1>12, <1>13, <1>14, <1>15, <1>16 DEF LatestInv

LEMMA CreationFollows ==
  ASSUME OneCreationPerVideo, AIInv, LatestInv, NEW c \in Creators, CreationStep(c)
  PROVE  LatestInv'
<1>1. /\ creation \in [Creators -> Creation] /\ evaluation \in [EvalId -> Evaluation]
      /\ video \in [Videos -> VideoRecord]
  BY DEF AIInv, TypeOK, AITypeOK, VideoTypeOK
<1>2. CASE \/ \E v \in Videos, force \in BOOLEAN : LoadVideo(c, v, force)
           \/ DispatchFails(c) \/ CreationStops(c)
  <2>1. UNCHANGED <<evaluation, video>> /\ creation'[c].phase # "checked"
    BY <1>1, <1>2 DEF LoadVideo, DispatchFails, CreationStops, NoCreation, Creation
  <2>2. \A d \in Creators : d # c => creation'[d] = creation[d]
    BY <1>1, <1>2 DEF LoadVideo, DispatchFails, CreationStops
  <2> QED
    BY <2>1, <2>2, NothingLiveFollows
<1>3. CASE CheckLatest(c)
  <2>1. UNCHANGED <<evaluation, video>> /\ creation[c].phase = "loaded"
    BY <1>3 DEF CheckLatest
  <2>2. CASE ~ MayCreate(c)
    <3>1. creation'[c].phase # "checked"
      BY <1>1, <1>3, <2>2 DEF CheckLatest, NoCreation
    <3>2. \A d \in Creators : d # c => creation'[d] = creation[d]
      BY <1>1, <1>3 DEF CheckLatest
    <3> QED
      BY <2>1, <3>1, <3>2, NothingLiveFollows
  <2>3. CASE MayCreate(c)
    <3>1. creation'[c].video = creation[c].video
      BY <1>1, <1>3, <2>3 DEF CheckLatest, Creation
    <3>2. creation[c].video \in Videos
      BY <2>1 DEF AIInv, HandlersOwnTheirEvaluation
    <3>3. \A e \in Of(creation[c].video) : evaluation[e].status # "processing"
      BY <2>3, <3>2, LatestIsNone DEF MayCreate, LatestInv, OnlyLatestIsLive
    <3>4. \A d \in Creators : d # c => creation'[d] = creation[d]
      BY <1>1, <1>3 DEF CheckLatest
    <3> QED
      BY <2>1, <3>1, <3>3, <3>4, NothingLiveFollows
  <2> QED
    BY <2>2, <2>3
<1>4. CASE CreateAndMarkVideoProcessing(c)
  BY <1>4, CreateFollows
<1>5. CASE DispatchCreateJob(c)
  <2> DEFINE e == creation[c].eval
  <2>1. /\ e \in Created /\ evaluation[e].status = "processing"
        /\ evaluation[e].video \in Videos
    BY <1>5 DEF DispatchCreateJob, AIInv, HandlersOwnTheirEvaluation
  <2>2. /\ evaluation' = [evaluation EXCEPT ![e].hasJob = TRUE] /\ video' = video
        /\ creation' = [creation EXCEPT ![c] = NoCreation]
    BY <1>5 DEF DispatchCreateJob
  <2> HIDE DEF e
  <2>3. /\ evaluation'[e].status = "processing"
        /\ evaluation'[e].video = evaluation[e].video
        /\ \A f \in EvalId : f # e => evaluation'[f] = evaluation[f]
    BY <1>1, <2>1, <2>2 DEF Created, Evaluation
  <2>4. e = Latest(evaluation[e].video) /\ e # 0
    BY <2>1 DEF LatestInv, OnlyLatestIsLive, Of, Created, EvalId
  <2>5. video'[evaluation[e].video].ai = "processing"
    BY <2>1, <2>2, <2>4 DEF LatestInv, AIColumnsMirrorLatest
  <2>6. \A d \in Creators : creation'[d].phase = "checked" => creation'[d] = creation[d]
    BY <1>1, <2>2 DEF NoCreation
  <2> QED
    BY <2>1, <2>2, <2>3, <2>5, <2>6, LiveWriteFollows
<1>6. CASE FailDispatched(c)
  <2> DEFINE e == creation[c].eval
             v == creation[c].video
  <2>1. /\ e \in Created /\ evaluation[e].status = "processing"
        /\ evaluation[e].video = v /\ v \in Videos
    BY <1>6 DEF FailDispatched, AIInv, HandlersOwnTheirEvaluation
  <2>2. /\ evaluation' = [evaluation EXCEPT ![e].status = "failed"]
        /\ video' = [video EXCEPT
             ![v] = WithAI(@, "failed", @.aiScore, creation[c].manualSeen)]
        /\ creation' = [creation EXCEPT ![c] = NoCreation]
    BY <1>6 DEF FailDispatched
  <2> HIDE DEF e, v
  <2>3. /\ evaluation'[e].status = "failed"
        /\ evaluation'[e].video = v
        /\ \A f \in EvalId : f # e => evaluation'[f] = evaluation[f]
    BY <1>1, <2>1, <2>2 DEF Created, Evaluation
  <2>4. video'[v].ai = "failed" /\ \A w \in Videos : w # v => video'[w] = video[w]
    <3>1. video[v] \in VideoRecord
      BY <1>1, <2>1
    <3> QED
      BY <1>1, <2>1, <2>2, <3>1, WithAIColumns
  <2>5. \A d \in Creators : creation'[d].phase = "checked" => creation'[d] = creation[d]
    BY <1>1, <2>2 DEF NoCreation
  <2> QED
    BY <2>1, <2>3, <2>4, <2>5, LiveWriteFollows
<1> QED
  BY <1>2, <1>3, <1>4, <1>5, <1>6 DEF CreationStep

LEMMA PollFollows ==
  ASSUME AIInv, LatestInv, NEW e \in EvalId, PollWrites(e)
  PROVE  LatestInv'
<1> DEFINE v == evaluation[e].video
<1>1. /\ evaluation \in [EvalId -> Evaluation] /\ video \in [Videos -> VideoRecord]
      /\ creation' = creation
  BY DEF AIInv, TypeOK, AITypeOK, VideoTypeOK, PollWrites, MarkEvaluationProcessing,
     CompleteEvaluation, FailEvaluation
<1>2. e \in Created /\ evaluation[e].status = "processing" /\ v \in Videos
  BY DEF PollWrites, MarkEvaluationProcessing, CompleteEvaluation, FailEvaluation,
     AIInv, HandlersOwnTheirEvaluation, Created
<1>3. /\ evaluation'[e].status \in {"processing", "completed", "failed"}
      /\ evaluation'[e].video = v
      /\ \A f \in EvalId : f # e => evaluation'[f] = evaluation[f]
  BY <1>1, <1>2 DEF PollWrites, MarkEvaluationProcessing, CompleteEvaluation,
     FailEvaluation, Evaluation
<1>4. \E score, manualSeen :
        /\ video' = [video EXCEPT
             ![v] = WithAI(video[v], evaluation'[e].status, score, manualSeen)]
        /\ evaluation'[e].status = "completed" => score = evaluation'[e].score
  <2>1. CASE MarkEvaluationProcessing(e)
    BY <1>2, <2>1 DEF MarkEvaluationProcessing
  <2>2. CASE CompleteEvaluation(e)
    <3>1. PICK score \in {0, e} :
            /\ evaluation' = [evaluation EXCEPT ![e].status = "completed",
                                                ![e].score = score]
            /\ video' = [video EXCEPT
                 ![v] = WithAI(@, "completed", score, poll[e].manualSeen)]
      BY <2>2 DEF CompleteEvaluation
    <3>2. evaluation'[e].status = "completed" /\ evaluation'[e].score = score
      BY <1>1, <3>1 DEF Evaluation
    <3> QED
      BY <3>1, <3>2
  <2>3. CASE FailEvaluation(e)
    <3>1. evaluation'[e].status = "failed"
      BY <1>1, <2>3 DEF FailEvaluation, Evaluation
    <3> QED
      BY <2>3, <3>1 DEF FailEvaluation
  <2> QED
    BY <2>1, <2>2, <2>3 DEF PollWrites
<1>5. /\ video'[v].ai = evaluation'[e].status
      /\ evaluation'[e].status = "completed" => video'[v].aiScore = evaluation'[e].score
      /\ \A w \in Videos : w # v => video'[w] = video[w]
  <2>1. video[v] \in VideoRecord
    BY <1>1, <1>2
  <2> HIDE DEF v
  <2> QED
    BY <1>1, <1>2, <1>4, <2>1, WithAIColumns, ScoreColumns
<1> QED
  BY <1>1, <1>2, <1>3, <1>5, LiveWriteFollows

\* The review handlers never write the columns of the AI.
LEMMA ReviewKeepsAI ==
  ASSUME TypeOK, ReviewNext
  PROVE  \A v \in Videos : /\ video'[v].ai = video[v].ai
                           /\ video'[v].aiScore = video[v].aiScore
<1> TAKE v \in Videos
<1>1. video[v] \in VideoRecord
  BY DEF TypeOK, ReviewTypeOK, VideoTypeOK
<1>2. \/ video'[v] = video[v]
      \/ \E manual, score, seen : video'[v] = WithReview(video[v], manual, score, seen)
  <2>1. ASSUME NEW r \in Requests, NEW op, NEW status, WriteReview(r, op, status)
        PROVE  \/ video'[v] = video[v]
               \/ \E manual, score, seen : video'[v] = WithReview(video[v], manual, score, seen)
    BY <2>1 DEF WriteReview
  <2>2. ASSUME NEW r \in Requests, SubmitSavedDrafts(r) \/ AssignScorers(r)
        PROVE  \/ video'[v] = video[v]
               \/ \E manual, score, seen : video'[v] = WithReview(video[v], manual, score, seen)
    BY <2>2 DEF SubmitSavedDrafts, AssignScorers
  <2> QED
    BY <2>1, <2>2 DEF ReviewNext, RequestStarts, RequestGoesOn, LoadScoringTask,
       LoadSavedDrafts, LoadAssignment, LoadReassignment, AcceptInvitation, RemoveTaskScorer,
       FindAssignments, RequestFails, SaveManualEvaluationDraft, SubmitManualEvaluation
<1> QED
  BY <1>1, <1>2, ScoreColumns

LEMMA LatestInvStep == OneCreationPerVideo /\ AIInv /\ LatestInv /\ [Next]_vars => LatestInv'
<1> SUFFICES ASSUME OneCreationPerVideo, AIInv, LatestInv, [Next]_vars PROVE LatestInv'
  OBVIOUS
<1>1. CASE ReviewNext /\ UNCHANGED aiVars
  <2>1. evaluation' = evaluation /\ creation' = creation
    BY <1>1 DEF aiVars
  <2> QED
    BY <1>1, <2>1, ReviewKeepsAI, NothingLiveFollows DEF AIInv
<1>2. CASE UNCHANGED <<evaluation, creation, video>>
  BY <1>2, NothingLiveFollows
<1>3. CASE AINext
  BY <1>2, <1>3, CreationFollows, PollFollows
  DEF AINext, PollStep, PollEvaluation, PollStops, PollOnce, ProviderFinishes,
      ProviderForgets, GracePeriodEnds
<1> QED
  BY <1>1, <1>2, <1>3 DEF Next, vars, aiVars

LEMMA LatestInvInit == Init => LatestInv
<1> SUFFICES ASSUME Init PROVE LatestInv
  OBVIOUS
<1>1. Created = {} /\ \A v : Of(v) = {}
  BY DEF Init, AIInit, Created, Of, NoEvaluationYet
<1>2. CheckedHasNoneLive
  BY DEF Init, AIInit, CheckedHasNoneLive, NoCreation
<1> QED
  BY <1>1, <1>2 DEF LatestInv, LatestIsLast, OnlyLatestIsLive, AIColumnsMirrorLatest,
     Latest, Init, NewVideo

LEMMA LatestInvariance == Spec /\ []OneCreationPerVideo => []LatestInv
BY InitAIInv, LatestInvInit, NextAIInv, LatestInvStep, PTL DEF Spec

\* With one creation at a time, whatever reviews and rounds of polling overlap with
\* it, a video has at most one evaluation being processed.
THEOREM OneCreationOneLive == Spec /\ []OneCreationPerVideo => []OneLiveEvaluation
<1>1. LatestInv => OneLiveEvaluation
  BY DEF LatestInv, OnlyLatestIsLive, OneLiveEvaluation
<1> QED
  BY <1>1, LatestInvariance, PTL

\* And its row has the status and the score of the latest one.
THEOREM OneCreationMirrors == Spec /\ []OneCreationPerVideo => []AIColumnsMirrorLatest
<1>1. LatestInv => AIColumnsMirrorLatest
  BY DEF LatestInv
<1> QED
  BY <1>1, LatestInvariance, PTL

\* A system with one creator creates one at a time.
THEOREM OneCreatorOneLive ==
  ASSUME \A c, d \in Creators : c = d PROVE Spec => []OneLiveEvaluation
<1>1. OneCreationPerVideo
  BY DEF OneCreationPerVideo
<1> QED
  BY <1>1, OneCreationOneLive, PTL

THEOREM OneCreatorMirrors ==
  ASSUME \A c, d \in Creators : c = d PROVE Spec => []AIColumnsMirrorLatest
<1>1. OneCreationPerVideo
  BY DEF OneCreationPerVideo
<1> QED
  BY <1>1, OneCreationMirrors, PTL

(***************************************************************************)
(* Handlers that do not overlap, with any number of creators: the rows     *)
(* follow the lifecycle of an evaluation.                                  *)
(***************************************************************************)

\* A draft or a submission is about one video and has a score.
OneScored ==
  \A r \in Requests : request[r].phase # "idle" /\ request[r].op \in {"draft", "submit"} =>
    request[r].score \in Scores /\ \E v \in Videos : Chosen(request[r].plan) = {v}

LifeInv == SerialInv /\ ReviewInv /\ LatestInv /\ OneScored

LEMMA OneScoredStep == TypeOK /\ OneScored /\ [Next]_vars => OneScored'
<1> SUFFICES ASSUME TypeOK, OneScored, [Next]_vars PROVE OneScored'
  OBVIOUS
<1> USE DEF TypeOK, ReviewTypeOK
<1>1. CASE UNCHANGED request
  BY <1>1 DEF OneScored, Chosen
<1>2. ASSUME NEW r \in Requests, NEW op, NEW plan, NEW score, Load(r, op, plan, score),
             op \in {"draft", "submit"} =>
               score \in Scores /\ \E v \in Videos : Chosen(plan) = {v}
      PROVE  OneScored'
  <2>1. /\ \A q \in Requests : q # r => request'[q] = request[q]
        /\ request'[r].op = op /\ request'[r].plan = plan /\ request'[r].score = score
    BY <1>2 DEF Load
  <2> QED
    BY <1>2, <2>1 DEF OneScored, Chosen
<1>3. ASSUME NEW r \in Requests, RequestStarts(r) PROVE OneScored'
  <2>1. ASSUME NEW op \in {"draft", "submit"}, NEW v \in Videos, NEW s \in Scorers,
               NEW score \in Scores, LoadScoringTask(r, op, v, s, score)
        PROVE  OneScored'
    <3> DEFINE plan == [w \in Videos |-> IF w = v THEN s ELSE NoScorer]
    <3>1. Chosen(plan) = {v}
      BY ManualReviewAssumption DEF Chosen
    <3>2. Load(r, op, plan, score)
      BY <2>1 DEF LoadScoringTask
    <3> HIDE DEF plan
    <3> QED
      BY <1>2, <3>1, <3>2
  <2>2. ASSUME NEW s \in Scorers, LoadSavedDrafts(r, s) PROVE OneScored'
    BY <1>2, <2>2 DEF LoadSavedDrafts
  <2>3. ASSUME NEW plan \in [Videos -> Scorers \cup {NoScorer}],
               LoadAssignment(r, plan) \/ LoadReassignment(r, plan)
        PROVE  OneScored'
    BY <1>2, <2>3 DEF LoadAssignment, LoadReassignment
  <2> QED
    BY <1>3, <2>1, <2>2, <2>3 DEF RequestStarts
<1>4. ASSUME NEW r \in Requests, Finish(r) PROVE OneScored'
  <2>1. /\ \A q \in Requests : q # r => request'[q] = request[q]
        /\ request'[r].phase = "idle"
    BY <1>4 DEF Finish, NoRequest
  <2> QED
    BY <2>1 DEF OneScored, Chosen
<1>5. ASSUME NEW r \in Requests, FindAssignments(r) PROVE OneScored'
  <2> DEFINE plan == request[r].plan
             found == [v \in Videos |-> IF assignment[v].scorer = plan[v]
                                        THEN plan[v] ELSE NoScorer]
  <2>1. \A q \in Requests : q # r => request'[q] = request[q]
    BY <1>5 DEF FindAssignments
  <2>2. CASE request'[r] = NoRequest
    BY <2>1, <2>2 DEF OneScored, Chosen, NoRequest
  <2>3. CASE request'[r] # NoRequest
    <3>1. /\ Chosen(found) # {} /\ request[r].phase = "loaded"
          /\ request'[r] = [request[r] EXCEPT !.phase = "found", !.plan = found]
      BY <1>5, <2>3 DEF FindAssignments
    <3>2. /\ request'[r].plan = found /\ request'[r].op = request[r].op
          /\ request'[r].score = request[r].score
      BY <3>1 DEF Request
    <3>3. Chosen(found) \subseteq Chosen(plan)
      BY DEF Chosen
    <3>4. request[r].op \in {"draft", "submit"} =>
            request[r].score \in Scores /\ \E v \in Videos : Chosen(found) = {v}
      <4> HIDE DEF found
      <4>1. \A v : Chosen(plan) = {v} => Chosen(found) = {v}
        BY <3>1, <3>3
      <4> QED
        BY <3>1, <4>1 DEF OneScored
    <3> HIDE DEF found
    <3> QED
      BY <2>1, <3>2, <3>4 DEF OneScored, Chosen
  <2> QED
    BY <2>2, <2>3
<1> QED
  BY <1>1, <1>3, <1>4, <1>5 DEF Next, ReviewNext, RequestGoesOn, vars, reviewVars,
     SaveManualEvaluationDraft, SubmitManualEvaluation, WriteReview, SubmitSavedDrafts,
     AssignScorers, RequestFails, AcceptInvitation, RemoveTaskScorer

LEMMA LifeInvariance == Serial => []LifeInv
<1>1. Init => OneScored
  BY DEF Init, ReviewInit, OneScored, NoRequest
<1>2. Serial => Spec
  <2>1. [OneAtATime]_vars => [Next]_vars
    BY DEF OneAtATime
  <2> QED
    BY <2>1, PTL DEF Serial, Spec
<1>3. SerialInv => OneCreationPerVideo
  BY AloneMeans DEF SerialInv, OneCreationPerVideo
<1>4. AIInv /\ ReviewInv /\ OneScored /\ [Next]_vars => (AIInv /\ ReviewInv /\ OneScored)'
  BY NextAIInv, NextReviewInv, OneScoredStep DEF AIInv
<1>5. Spec => [](AIInv /\ ReviewInv /\ OneScored)
  BY <1>1, <1>4, InitAIInv, InitReviewInv, PTL DEF Spec
<1> QED
  BY <1>2, <1>3, <1>5, SerialInvariance, LatestInvariance, PTL DEF LifeInv

\* A write that leaves exact rows leaves the summary the rule gives.
LEMMA RowsAreSummarised ==
  ASSUME TypeOK', EvaluationIsExact', CompletedAtMeansCompleted'
  PROVE  Life!Summarised
<1>1. \A v \in Videos : /\ video'[v].evaluation = ResolveOverallStatus(video'[v].manual, video'[v].ai)
                        /\ video'[v].completedAt \in BOOLEAN
                        /\ video'[v].completedAt <=> video'[v].evaluation = "completed"
  BY DEF EvaluationIsExact, Exact, CompletedAtMeansCompleted, TypeOK, AITypeOK, VideoTypeOK,
         VideoRecord
<1>2. \A v \in Videos : video'[v].completedAt = (video'[v].evaluation = "completed")
  BY <1>1
<1> QED
  BY <1>1, <1>2 DEF Life!Summarised, Life!ResolveOverallStatus, ResolveOverallStatus

\* A transaction of the review side is one operation on the videos it writes.
LEMMA ReviewWriteIsLife ==
  ASSUME TypeOK, TypeOK', EvaluationIsExact', CompletedAtMeansCompleted',
         NEW V \in SUBSET Videos, NEW status, NEW markOf, NEW seenOf,
         \A v \in V : video[v].manual # "submitted",
         \A v \in V : video'[v] = WithReview(video[v], status, markOf[v], seenOf[v]),
         \A v \in Videos : v \notin V => video'[v] = video[v]
  PROVE  Life!Reviewing(V, status, markOf) /\ Life!Summarised
<1>1. \A v \in V : /\ video'[v].manual = status /\ video'[v].manualScore = markOf[v]
                   /\ video'[v].ai = video[v].ai
  <2> TAKE v \in V
  <2>1. video[v] \in VideoRecord
    BY DEF TypeOK, AITypeOK, VideoTypeOK
  <2> QED
    BY <2>1, WithReviewColumns, ScoreColumns
<1> QED
  BY <1>1, RowsAreSummarised DEF Life!Reviewing

\* And so is one of the side of the provider.
LEMMA AIWriteIsLife ==
  ASSUME TypeOK, TypeOK', EvaluationIsExact', CompletedAtMeansCompleted',
         NEW v \in Videos, NEW status, NEW score, NEW seen,
         video' = [video EXCEPT ![v] = WithAI(video[v], status, score, seen)]
  PROVE  Life!Evaluating(v, status) /\ Life!Summarised
<1>1. video \in [Videos -> VideoRecord]
  BY DEF TypeOK, AITypeOK, VideoTypeOK
<1>2. /\ video'[v].ai = status /\ video'[v].manual = video[v].manual
      /\ video'[v].manualScore = video[v].manualScore
      /\ \A w \in Videos : w # v => video'[w] = video[w]
  <2>1. video[v] \in VideoRecord
    BY <1>1
  <2> QED
    BY <1>1, <2>1, WithAIColumns, ScoreColumns
<1> QED
  BY <1>2, RowsAreSummarised DEF Life!Evaluating

\* Nothing is seen of a write that leaves the two sides' statuses and the score alone.
LEMMA NothingOfLife ==
  ASSUME TypeOK, TypeOK', EvaluationIsExact, CompletedAtMeansCompleted,
         EvaluationIsExact', CompletedAtMeansCompleted',
         \A v \in Videos : /\ video'[v].manual = video[v].manual
                           /\ video'[v].manualScore = video[v].manualScore
                           /\ video'[v].ai = video[v].ai
  PROVE  UNCHANGED Life!lifecycleVars
<1>1. \A v \in Videos : /\ video'[v].evaluation = video[v].evaluation
                        /\ video[v].completedAt \in BOOLEAN
                        /\ video'[v].completedAt \in BOOLEAN
  BY DEF EvaluationIsExact, Exact, TypeOK, AITypeOK, VideoTypeOK, VideoRecord
<1>2. \A v \in Videos : video'[v].completedAt = video[v].completedAt
  BY <1>1 DEF CompletedAtMeansCompleted
<1> QED
  BY <1>1, <1>2 DEF Life!lifecycleVars

LEMMA GoesOnIsLife ==
  ASSUME LifeInv, LifeInv', NEW r \in Requests, RequestGoesOn(r)
  PROVE  [Life!Next]_(Life!lifecycleVars)
<1>1. /\ TypeOK /\ TypeOK' /\ EvaluationIsExact /\ EvaluationIsExact'
      /\ CompletedAtMeansCompleted /\ CompletedAtMeansCompleted'
  BY DEF LifeInv, SerialInv, AIInv, ReviewInv
<1>2. ASSUME NEW v \in Videos, request[r].phase # "idle", request[r].plan[v] # NoScorer
      PROVE  /\ video[v].manual # "submitted"
             /\ request[r].op = "submitSaved" => video[v].manual = "in_progress"
  BY <1>2 DEF LifeInv, SerialInv, SeenByRequests, ReviewInv, AssignmentMirrorsVideo
<1>3. ASSUME NEW op \in {"draft", "submit"}, NEW status, WriteReview(r, op, status)
      PROVE  \E v \in Videos, m \in Scores :
               Life!Reviewing({v}, status, [w \in Videos |-> m]) /\ Life!Summarised
  <2>1. PICK v \in Videos : Chosen(request[r].plan) = {v} /\ request[r].score \in Scores
    BY <1>3 DEF WriteReview, LifeInv, OneScored
  <2>2. /\ request[r].phase # "idle" /\ request[r].plan[v] # NoScorer
        /\ video'[v] = WithReview(video[v], status, request[r].score, request[r].aiSeen[v])
        /\ \A w \in Videos : w \notin {v} => video'[w] = video[w]
    BY <1>3, <2>1 DEF WriteReview, Chosen
  <2>3. PICK marks, seenOf : marks = [w \in Videos |-> request[r].score] /\ seenOf = request[r].aiSeen
    OBVIOUS
  <2>4. Life!Reviewing({v}, status, marks) /\ Life!Summarised
    <3>1. \A w \in {v} : video[w].manual # "submitted"
      BY <1>2, <2>2
    <3>2. marks[v] = request[r].score /\ seenOf[v] = request[r].aiSeen[v]
      BY <2>3
    <3>3. \A w \in {v} : video'[w] = WithReview(video[w], status, marks[w], seenOf[w])
      BY <2>2, <3>2
    <3> QED
      BY <1>1, <2>2, <3>1, <3>3, ReviewWriteIsLife
  <2> QED
    BY <2>1, <2>3, <2>4
<1>4. CASE SaveManualEvaluationDraft(r)
  BY <1>3, <1>4 DEF SaveManualEvaluationDraft, Life!Next, Life!Draft
<1>5. CASE SubmitManualEvaluation(r)
  BY <1>3, <1>5 DEF SubmitManualEvaluation, Life!Next, Life!Submit
<1>6. CASE SubmitSavedDrafts(r)
  <2>1. PICK V \in SUBSET Videos :
          V = {v \in Chosen(request[r].plan) : manualEval[v].status = "in_progress"}
    BY DEF Chosen
  <2>2. /\ request[r].phase # "idle" /\ request[r].op = "submitSaved"
        /\ \A v \in V : request[r].plan[v] # NoScorer
        /\ video' = [v \in Videos |->
             IF v \in V THEN WithReview(video[v], "submitted", video[v].manualScore,
                                        request[r].aiSeen[v])
                        ELSE video[v]]
    BY <1>6, <2>1 DEF SubmitSavedDrafts, Chosen
  <2>3. PICK marks, seenOf : marks = [v \in Videos |-> video[v].manualScore] /\ seenOf = request[r].aiSeen
    OBVIOUS
  <2>4. Life!Reviewing(V, "submitted", marks) /\ Life!Summarised
    <3>1. /\ \A v \in V : video'[v] = WithReview(video[v], "submitted", marks[v], seenOf[v])
          /\ \A v \in Videos : v \notin V => video'[v] = video[v]
      BY <2>2, <2>3
    <3>2. \A v \in V : video[v].manual # "submitted"
      BY <1>2, <2>2
    <3> QED
      BY <1>1, <3>1, <3>2, ReviewWriteIsLife
  <2>5. \A v \in V : video[v].manual = "in_progress"
    BY <1>2, <2>2
  <2>6. Life!SubmitDrafts(V)
    <3>1. Life!Reviewing(V, "submitted", [v \in Videos |-> video[v].manualScore])
      BY <2>3, <2>4 DEF Life!Reviewing
    <3>2. \A v \in V : [w \in Videos |-> video[w].manual][v] = "in_progress"
      BY <2>1, <2>5
    <3> QED
      BY <3>1, <3>2, Zenon DEF Life!SubmitDrafts
  <2> QED
    BY <2>4, <2>6 DEF Life!Next
<1>7. CASE AssignScorers(r)
  <2>1. PICK V \in SUBSET Videos : V = Chosen(request[r].plan)
    BY DEF Chosen
  <2>2. /\ request[r].phase # "idle" /\ \A v \in V : request[r].plan[v] # NoScorer
        /\ video' = [v \in Videos |->
             IF v \in V THEN WithReview(video[v], "pending", NoScore, request[r].aiSeen[v])
                        ELSE video[v]]
    BY <1>7, <2>1 DEF AssignScorers, Chosen
  <2>3. PICK marks, seenOf : marks = [v \in Videos |-> NoScore] /\ seenOf = request[r].aiSeen
    OBVIOUS
  <2>4. Life!Reviewing(V, "pending", marks) /\ Life!Summarised
    <3>1. /\ \A v \in V : video'[v] = WithReview(video[v], "pending", marks[v], seenOf[v])
          /\ \A v \in Videos : v \notin V => video'[v] = video[v]
      BY <2>2, <2>3
    <3>2. \A v \in V : video[v].manual # "submitted"
      BY <1>2, <2>2
    <3> QED
      BY <1>1, <3>1, <3>2, ReviewWriteIsLife
  <2>5. Life!Assign(V)
    BY <2>3, <2>4 DEF Life!Assign
  <2> QED
    BY <2>4, <2>5 DEF Life!Next
<1>8. CASE FindAssignments(r) \/ RequestFails(r)
  BY <1>8, NothingOfLife, <1>1 DEF FindAssignments, RequestFails
<1> QED
  BY <1>4, <1>5, <1>6, <1>7, <1>8 DEF RequestGoesOn

LEMMA AIIsLife ==
  ASSUME LifeInv, LifeInv', AINext
  PROVE  [Life!Next]_(Life!lifecycleVars)
<1>1. /\ TypeOK /\ TypeOK' /\ EvaluationIsExact /\ EvaluationIsExact'
      /\ CompletedAtMeansCompleted /\ CompletedAtMeansCompleted'
      /\ HandlersOwnTheirEvaluation
  BY DEF LifeInv, SerialInv, AIInv, ReviewInv
<1>2. ASSUME NEW e \in Created, evaluation[e].status = "processing"
      PROVE  evaluation[e].video \in Videos /\ video[evaluation[e].video].ai = "processing"
  <2>1. evaluation[e].video \in Videos
    BY <1>1 DEF HandlersOwnTheirEvaluation
  <2>2. e = Latest(evaluation[e].video) /\ e # 0
    BY <1>2, <2>1 DEF LifeInv, LatestInv, OnlyLatestIsLive, Of, Created, EvalId
  <2> QED
    BY <1>2, <2>1, <2>2 DEF LifeInv, LatestInv, AIColumnsMirrorLatest
<1>3. ASSUME NEW v \in Videos, video[v].ai = "processing",
             NEW status \in {"completed", "failed"}, NEW score, NEW seen,
             video' = [video EXCEPT ![v] = WithAI(video[v], status, score, seen)]
      PROVE  Life!Next
  <2>1. Life!Evaluating(v, status) /\ Life!Summarised
    BY <1>1, <1>3, AIWriteIsLife
  <2> QED
    BY <1>3, <2>1 DEF Life!Next, Life!Conclude
<1>4. ASSUME NEW c \in Creators, CreateAndMarkVideoProcessing(c) PROVE Life!Next
  <2>1. PICK v \in Videos : v = creation[c].video
    BY <1>1, <1>4 DEF CreateAndMarkVideoProcessing, HandlersOwnTheirEvaluation
  <2>2. video[v].ai # "processing"
    <3>1. \A e \in Of(v) : evaluation[e].status # "processing"
      BY <1>4, <2>1 DEF CreateAndMarkVideoProcessing, LifeInv, LatestInv, CheckedHasNoneLive
    <3>2. Latest(v) # 0 => Latest(v) \in Of(v)
      BY LatestIsNone DEF LifeInv, LatestInv, LatestIsLast
    <3> QED
      BY <3>1, <3>2 DEF LifeInv, LatestInv, AIColumnsMirrorLatest
  <2>3. Life!Evaluating(v, "processing") /\ Life!Summarised
    BY <1>1, <1>4, <2>1, AIWriteIsLife DEF CreateAndMarkVideoProcessing
  <2> QED
    BY <2>2, <2>3 DEF Life!Next, Life!Begin
<1>5. ASSUME NEW c \in Creators, FailDispatched(c) PROVE Life!Next
  <2>1. PICK v \in Videos : v = creation[c].video
    BY <1>1, <1>5 DEF FailDispatched, HandlersOwnTheirEvaluation
  <2>2. video[v].ai = "processing"
    BY <1>1, <1>2, <1>5, <2>1 DEF FailDispatched, HandlersOwnTheirEvaluation
  <2> QED
    BY <1>3, <1>5, <2>1, <2>2 DEF FailDispatched
<1>6. ASSUME NEW e \in EvalId, PollWrites(e) PROVE [Life!Next]_(Life!lifecycleVars)
  <2>1. PICK v \in Videos : v = evaluation[e].video /\ video[v].ai = "processing"
    BY <1>1, <1>2, <1>6 DEF PollWrites, MarkEvaluationProcessing, CompleteEvaluation,
       FailEvaluation, HandlersOwnTheirEvaluation, Created
  <2>2. CASE MarkEvaluationProcessing(e)
    <3>1. Life!Evaluating(v, "processing") /\ Life!Summarised
      BY <1>1, <2>1, <2>2, AIWriteIsLife DEF MarkEvaluationProcessing
    <3>2. video \in [Videos -> VideoRecord]
      BY <1>1 DEF TypeOK, AITypeOK, VideoTypeOK
    <3>3. video' = [video EXCEPT ![v] =
            WithAI(video[v], "processing", video[v].aiScore, poll[e].manualSeen)]
      BY <2>1, <2>2 DEF MarkEvaluationProcessing
    <3>4. \A w \in Videos : /\ video'[w].manual = video[w].manual
                            /\ video'[w].manualScore = video[w].manualScore
                            /\ video'[w].ai = video[w].ai
      BY <2>1, <3>2, <3>3, WithAIColumns, ScoreColumns
    <3> QED
      BY <1>1, <3>4, NothingOfLife
  <2>3. CASE CompleteEvaluation(e)
    <3>1. \E score : video' = [video EXCEPT
            ![v] = WithAI(video[v], "completed", score, poll[e].manualSeen)]
      BY <2>1, <2>3 DEF CompleteEvaluation
    <3> QED
      BY ZenonT(30), <1>3, <2>1, <3>1
  <2>4. CASE FailEvaluation(e)
    <3>1. video' = [video EXCEPT
            ![v] = WithAI(video[v], "failed", video[v].aiScore, poll[e].manualSeen)]
      BY <2>1, <2>4 DEF FailEvaluation
    <3> QED
      BY <1>3, <2>1, <3>1
  <2> QED
    BY <1>6, <2>2, <2>3, <2>4 DEF PollWrites
<1>7. CASE UNCHANGED video
  BY <1>1, <1>7, NothingOfLife
<1> QED
  BY <1>4, <1>5, <1>6, <1>7 DEF AINext, CreationStep, PollStep, LoadVideo, CheckLatest,
     DispatchCreateJob, DispatchFails, CreationStops, ProviderFinishes, ProviderForgets,
     GracePeriodEnds, PollOnce, PollEvaluation, PollStops

\* Handlers that do not overlap add up to whole operations, for any number of
\* videos, scorers, creators and evaluations.
THEOREM SerialRefinesLifecycle == Serial => FollowsEvaluationLifecycle
<1>1. Init => Life!Init
  BY DEF Init, NewVideo, Life!Init
<1>2. LifeInv /\ LifeInv' /\ [OneAtATime]_vars => [Life!Next]_(Life!lifecycleVars)
  <2> SUFFICES ASSUME LifeInv, LifeInv', [OneAtATime]_vars
               PROVE  [Life!Next]_(Life!lifecycleVars)
    OBVIOUS
  <2>1. CASE AINext
    BY <2>1, AIIsLife
  <2>2. ASSUME NEW r \in Requests, RequestGoesOn(r)
        PROVE  [Life!Next]_(Life!lifecycleVars)
    BY <2>2, GoesOnIsLife
  <2>3. CASE UNCHANGED video
    BY <2>3 DEF Life!lifecycleVars
  <2> QED
    BY <2>1, <2>2, <2>3 DEF OneAtATime, Next, ReviewNext, RequestStarts, LoadScoringTask,
       LoadSavedDrafts, LoadAssignment, LoadReassignment, AcceptInvitation,
       RemoveTaskScorer, vars
<1> QED
  BY <1>1, <1>2, LifeInvariance, PTL DEF Serial, FollowsEvaluationLifecycle, Life!Lifecycle
=============================================================================
