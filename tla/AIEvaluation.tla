---------------------------- MODULE AIEvaluation ----------------------------
(***************************************************************************)
(* The AI side of a task (internal/modules/ai): a request creates an       *)
(* evaluation of a video and hands it to the external provider, and one    *)
(* background poller carries the provider's verdict back.                  *)
(*                                                                         *)
(* A creation is a chain of round trips (createForResolvedVideo): read the *)
(* video, look at its latest evaluation, insert the new one and mark the   *)
(* video, call the provider, store the job id.  Nothing is locked between  *)
(* them, a batch runs several creations at once, and the chain may break   *)
(* off anywhere (CreationStops: the client's context is cancelled, the     *)
(* refresh of the counters fails, the process crashes).                    *)
(*                                                                         *)
(* The poller works in rounds (pollOnce): it lists a batch, polls every    *)
(* member in a goroutine of its own and waits for all of them.  A crash of *)
(* the process loses the round: PollStops for each member.                 *)
(***************************************************************************)
EXTENDS VideoRow, FiniteSets

CONSTANTS
  Creators,    \* creations in flight: requests, and goroutines of a batch
  BatchSize,   \* PollBatchSize
  NoVideo

ASSUME AIEvaluationAssumption ==
  /\ BatchSize \in Nat \ {0}
  /\ NoVideo \notin Videos

VARIABLES
  evaluation,  \* ai_evaluations, numbered in the order of created_at
  rank,        \* their places in the order of updated_at, the latest last
  job,         \* the provider's job of an evaluation
  overdue,     \* evaluations started longer than JobNotFoundGrace ago
  creation,    \* what each creation in flight has read
  poll         \* the goroutines of the poller's round

aiVars == <<evaluation, rank, job, overdue, creation, poll>>

EvalId == 1..MaxEvals

\* status "none": not created yet.
Evaluation == [video  : Videos \cup {NoVideo},
               status : {"none", "processing", "completed", "failed"},
               hasJob : BOOLEAN,              \* job_id is stored
               score  : 0..MaxEvals]          \* total_score; 0: NULL

NoEvaluationYet == [video |-> NoVideo, status |-> "none",
                    hasJob |-> FALSE, score |-> 0]

\* manualSeen: the reviewer's status the creation read in the video's row.
Creation == [phase      : {"idle", "loaded", "checked", "created", "failing"},
             video      : Videos \cup {NoVideo},
             manualSeen : ManualStatus,
             force      : BOOLEAN,
             eval       : 0..MaxEvals]

NoCreation == [phase |-> "idle", video |-> NoVideo, manualSeen |-> "pending",
               force |-> FALSE, eval |-> 0]

Poll == [phase      : {"idle", "listed", "resolved"},
         outcome    : {"none", "processing", "completed", "failed"},
         manualSeen : ManualStatus]

NoPoll == [phase |-> "idle", outcome |-> "none", manualSeen |-> "pending"]

AITypeOK ==
  /\ VideoTypeOK
  /\ evaluation \in [EvalId -> Evaluation]
  /\ rank \in [EvalId -> EvalId]
  /\ job \in [EvalId -> {"none", "running", "completed", "failed", "gone"}]
  /\ overdue \subseteq EvalId
  /\ creation \in [Creators -> Creation]
  /\ poll \in [EvalId -> Poll]

AIInit ==
  /\ evaluation = [e \in EvalId |-> NoEvaluationYet]
  /\ rank = [e \in EvalId |-> e]
  /\ job = [e \in EvalId |-> "none"]
  /\ overdue = {}
  /\ creation = [c \in Creators |-> NoCreation]
  /\ poll = [e \in EvalId |-> NoPoll]

Created == {e \in EvalId : evaluation[e].status # "none"}

Of(v) == {e \in Created : evaluation[e].video = v}

\* FindLatestByVideoID: the last one created, 0 if there is none.
Latest(v) == IF Of(v) = {} THEN 0 ELSE CHOOSE e \in Of(v) : \A f \in Of(v) : f <= e

\* updated_at = now: e becomes the last in the order.
Touch(e) ==
  rank' = [f \in EvalId |-> IF f = e THEN MaxEvals
                            ELSE IF rank[f] > rank[e] THEN rank[f] - 1
                            ELSE rank[f]]
-----------------------------------------------------------------------------
(***************************************************************************)
(* Creating an evaluation.                                                 *)
(***************************************************************************)

\* Create and BatchCreateForTask read the video before anything else.
LoadVideo(c, v, force) ==
  /\ creation[c].phase = "idle"
  /\ creation' = [creation EXCEPT ![c] =
       [phase |-> "loaded", video |-> v, manualSeen |-> video[v].manual,
        force |-> force, eval |-> 0]]
  /\ UNCHANGED <<evaluation, rank, job, poll, overdue, video>>

\* Mutated: force overrides an evaluation that is being processed, too.
MayCreateByForce(c) == Latest(creation[c].video) = 0 \/ creation[c].force

\* A processing evaluation always stops the creation, a finished one does
\* unless the caller forces a new run.
MayCreate(c) ==
  LET latest == Latest(creation[c].video)
  IN  latest # 0 =>
        evaluation[latest].status # "processing" /\ creation[c].force

CheckLatest(c) ==
  /\ creation[c].phase = "loaded"
  /\ creation' = [creation EXCEPT
       ![c] = IF MayCreate(c) THEN [@ EXCEPT !.phase = "checked"]
                              ELSE NoCreation]
  /\ UNCHANGED <<evaluation, rank, job, poll, overdue, video>>

\* CreateAndMarkVideoProcessing, one transaction.
CreateAndMarkVideoProcessing(c) ==
  LET v == creation[c].video
  IN  /\ creation[c].phase = "checked"
      /\ \E e \in EvalId \ Created :
           /\ \A f \in 1..(e - 1) : f \in Created
           /\ evaluation' = [evaluation EXCEPT ![e] =
                [video |-> v, status |-> "processing", hasJob |-> FALSE,
                 score |-> 0]]
           /\ Touch(e)
           /\ creation' = [creation EXCEPT ![c].phase = "created", ![c].eval = e]
      /\ video' = [video EXCEPT
           ![v] = WithAI(@, "processing", @.aiScore, creation[c].manualSeen)]
      /\ UNCHANGED <<job, poll, overdue>>

\* Mutated: the job id is stored and the dispatch still reports an error.
DispatchCreateJobThenFail(c) ==
  LET e == creation[c].eval
  IN  /\ creation[c].phase = "created"
      /\ job' = [job EXCEPT ![e] = "running"]
      /\ evaluation' = [evaluation EXCEPT ![e].hasJob = TRUE]
      /\ Touch(e)
      /\ creation' = [creation EXCEPT ![c].phase = "failing"]
      /\ UNCHANGED <<poll, overdue, video>>

\* dispatchCreateJob: the provider takes the job and its id is stored.
DispatchCreateJob(c) ==
  LET e == creation[c].eval
  IN  /\ creation[c].phase = "created"
      /\ job' = [job EXCEPT ![e] = "running"]
      /\ evaluation' = [evaluation EXCEPT ![e].hasJob = TRUE]
      /\ Touch(e)
      /\ creation' = [creation EXCEPT ![c] = NoCreation]
      /\ UNCHANGED <<poll, overdue, video>>

\* dispatchCreateJob returns an error: no provider, no rubric, no answer.
DispatchFails(c) ==
  /\ creation[c].phase = "created"
  /\ creation' = [creation EXCEPT ![c].phase = "failing"]
  /\ UNCHANGED <<evaluation, rank, job, poll, overdue, video>>

\* The transaction that records the failed dispatch, with the manual status
\* read when the creation began; its own error is ignored (CreationStops).
FailDispatched(c) ==
  LET e == creation[c].eval
      v == creation[c].video
  IN  /\ creation[c].phase = "failing"
      /\ evaluation' = [evaluation EXCEPT ![e].status = "failed"]
      /\ Touch(e)
      /\ video' = [video EXCEPT
           ![v] = WithAI(@, "failed", @.aiScore, creation[c].manualSeen)]
      /\ creation' = [creation EXCEPT ![c] = NoCreation]
      /\ UNCHANGED <<job, poll, overdue>>

CreationStops(c) ==
  /\ creation[c].phase # "idle"
  /\ creation' = [creation EXCEPT ![c] = NoCreation]
  /\ UNCHANGED <<evaluation, rank, job, poll, overdue, video>>
-----------------------------------------------------------------------------
(***************************************************************************)
(* The provider, seen through its job API.                                 *)
(***************************************************************************)

ProviderFinishes(e) ==
  /\ job[e] = "running"
  /\ \E verdict \in {"completed", "failed"} : job' = [job EXCEPT ![e] = verdict]
  /\ UNCHANGED <<evaluation, rank, creation, poll, overdue, video>>

\* The job is unknown from now on: its record expired or was lost.
ProviderForgets(e) ==
  /\ job[e] \in {"running", "completed", "failed"}
  /\ job' = [job EXCEPT ![e] = "gone"]
  /\ UNCHANGED <<evaluation, rank, creation, poll, overdue, video>>

\* Time passes: matters only for an evaluation whose job is not found.
GracePeriodEnds(e) ==
  /\ job[e] = "gone"
  /\ e \notin overdue
  /\ overdue' = overdue \cup {e}
  /\ UNCHANGED <<evaluation, rank, job, creation, poll, video>>
-----------------------------------------------------------------------------
(***************************************************************************)
(* Polling.                                                                *)
(***************************************************************************)

Idle == \A e \in EvalId : poll[e].phase = "idle"

\* Mutated: whatever has a job is polled.
ListAllWithJobs == {e \in Created : evaluation[e].hasJob}

\* The evaluations that wait for the provider.
Waiting == {e \in Created : evaluation[e].status = "processing" /\ evaluation[e].hasJob}

\* Those of them that were updated before e.
Ahead(e) == {f \in Waiting : rank[f] < rank[e]}

\* Mutated: the first ones created.
ListFirstCreated ==
  {e \in Waiting : Cardinality({f \in Waiting : f < e}) < BatchSize}

\* ListPollingCandidates: the BatchSize least recently updated of them.
ListPollingCandidates == {e \in Waiting : Cardinality(Ahead(e)) < BatchSize}

PollOnce ==
  /\ Idle
  /\ ListPollingCandidates # {}
  /\ poll' = [e \in EvalId |-> IF e \in ListPollingCandidates
                               THEN [NoPoll EXCEPT !.phase = "listed"]
                               ELSE poll[e]]
  /\ UNCHANGED <<evaluation, rank, job, creation, overdue, video>>

\* Mutated: the provider's word is taken as it comes.
RawOutcomesOf(e) == {job[e]}

\* Mutated: the grace period never ends.
OutcomesWithinGrace(e) ==
  CASE job[e] \in {"running", "gone"} -> {"processing"}
    [] OTHER                         -> {job[e]}

\* What a goroutine makes of the provider's answers: a job that is not found
\* counts as processing until the grace period ends, but one that is completed
\* and gone when its result is fetched has failed.
OutcomesOf(e) ==
  CASE job[e] = "running"   -> {"processing"}
    [] job[e] = "gone"      -> {IF e \in overdue THEN "failed" ELSE "processing"}
    [] job[e] = "completed" -> {"completed", "failed"}
    [] job[e] = "failed"    -> {"failed"}

\* pollEvaluation asks the provider, then resolveManualStatus reads the row.
PollEvaluation(e) ==
  /\ poll[e].phase = "listed"
  /\ \E outcome \in OutcomesOf(e) :
       poll' = [poll EXCEPT ![e] =
         [phase |-> "resolved", outcome |-> outcome,
          manualSeen |-> video[evaluation[e].video].manual]]
  /\ UNCHANGED <<evaluation, rank, job, creation, overdue, video>>

\* UpdateEvaluationAndVideo, one transaction: no row is checked again.
MarkEvaluationProcessing(e) ==
  LET v == evaluation[e].video
  IN  /\ poll[e].phase = "resolved"
      /\ poll[e].outcome = "processing"
      /\ Touch(e)
      /\ video' = [video EXCEPT
           ![v] = WithAI(@, "processing", @.aiScore, poll[e].manualSeen)]
      /\ poll' = [poll EXCEPT ![e] = NoPoll]
      /\ UNCHANGED <<evaluation, job, creation, overdue>>

\* The result carries a score, or none (extractTotalScore).
CompleteEvaluation(e) ==
  LET v == evaluation[e].video
  IN  /\ poll[e].phase = "resolved"
      /\ poll[e].outcome = "completed"
      /\ \E score \in {0, e} :
           /\ evaluation' = [evaluation EXCEPT ![e].status = "completed",
                                               ![e].score = score]
           /\ video' = [video EXCEPT
                ![v] = WithAI(@, "completed", score, poll[e].manualSeen)]
      /\ Touch(e)
      /\ poll' = [poll EXCEPT ![e] = NoPoll]
      /\ UNCHANGED <<job, creation, overdue>>

FailEvaluation(e) ==
  LET v == evaluation[e].video
  IN  /\ poll[e].phase = "resolved"
      /\ poll[e].outcome = "failed"
      /\ evaluation' = [evaluation EXCEPT ![e].status = "failed"]
      /\ Touch(e)
      /\ video' = [video EXCEPT
           ![v] = WithAI(@, "failed", @.aiScore, poll[e].manualSeen)]
      /\ poll' = [poll EXCEPT ![e] = NoPoll]
      /\ UNCHANGED <<job, creation, overdue>>

\* The goroutine gives up for this round: the provider does not answer, the
\* answer is invalid, a query fails, the process stops.
PollStops(e) ==
  /\ poll[e].phase # "idle"
  /\ poll' = [poll EXCEPT ![e] = NoPoll]
  /\ UNCHANGED <<evaluation, rank, job, creation, overdue, video>>
-----------------------------------------------------------------------------
CreationStep(c) ==
  \/ \E v \in Videos, force \in BOOLEAN : LoadVideo(c, v, force)
  \/ CheckLatest(c)
  \/ CreateAndMarkVideoProcessing(c)
  \/ DispatchCreateJob(c)
  \/ DispatchFails(c)
  \/ FailDispatched(c)
  \/ CreationStops(c)

PollWrites(e) ==
  MarkEvaluationProcessing(e) \/ CompleteEvaluation(e) \/ FailEvaluation(e)

PollStep(e) == PollEvaluation(e) \/ PollWrites(e) \/ PollStops(e)

AINext ==
  \/ \E c \in Creators : CreationStep(c)
  \/ \E e \in EvalId :
       \/ ProviderFinishes(e) \/ ProviderForgets(e) \/ GracePeriodEnds(e)
       \/ PollStep(e)
  \/ PollOnce
-----------------------------------------------------------------------------
(***************************************************************************)
(* The AI side alone: the reviews of the videos stay as they are.          *)
(***************************************************************************)
AIAloneInit ==
  /\ AIInit
  /\ \E manual \in ManualStatus :
       video = [v \in Videos |->
                  [NewVideo EXCEPT !.manual = manual,
                     !.evaluation = ResolveOverallStatus(manual, "pending")]]

aiAloneVars == <<aiVars, video>>

AIAlone == AIAloneInit /\ [][AINext]_aiAloneVars

\* The poller's loop and its goroutines run, a goroutine does not fail every
\* time it gets as far as the write, and the provider answers each job.
PollerFairness ==
  /\ WF_aiAloneVars(PollOnce)
  /\ \A e \in EvalId : /\ WF_aiAloneVars(ProviderFinishes(e))
                       /\ WF_aiAloneVars(GracePeriodEnds(e))
                       /\ SF_aiAloneVars(PollEvaluation(e))
                       /\ SF_aiAloneVars(PollWrites(e))

FairAIAlone == AIAlone /\ PollerFairness
-----------------------------------------------------------------------------
(***************************************************************************)
(* Properties.                                                             *)
(***************************************************************************)

\* Once completed or failed, an evaluation keeps its verdict and its score:
\* rounds do not overlap, and an evaluation without a job is never polled
\* (api_for_AI_accessment.md 11.2).
VerdictIsFinal ==
  [][\A e \in Created :
       evaluation[e].status # "processing" => evaluation'[e] = evaluation[e]
    ]_aiAloneVars

\* Whoever is about to write an evaluation is the only one: a creation past its
\* insert and the poller never work on the same evaluation, nor do two
\* creations, and the evaluation is still being processed, on a known video.
\* Nothing in the code checks this at the write.  A stored job id is one that
\* the provider gave.
HandlersOwnTheirEvaluation ==
  /\ \A e \in Created : evaluation[e].video \in Videos
  /\ \A e \in EvalId : evaluation[e].hasJob => job[e] # "none"
  /\ \A e \in EvalId : poll[e].phase # "idle" =>
       evaluation[e].status = "processing" /\ evaluation[e].hasJob
  /\ \A c \in Creators : creation[c].phase # "idle" =>
       creation[c].video \in Videos
  /\ \A c \in Creators : creation[c].phase \in {"created", "failing"} =>
       /\ creation[c].eval \in Created
       /\ evaluation[creation[c].eval].video = creation[c].video
       /\ evaluation[creation[c].eval].status = "processing"
       /\ ~ evaluation[creation[c].eval].hasJob
  /\ \A c, d \in Creators :
       /\ creation[c].phase \in {"created", "failing"}
       /\ creation[d].phase \in {"created", "failing"}
       /\ creation[c].eval = creation[d].eval
       => c = d

\* A video has at most one evaluation being processed
\* (api_for_AI_accessment.md 7.1 and 11.1).
OneLiveEvaluation ==
  \A v \in Videos :
    \A e, f \in {g \in Of(v) : evaluation[g].status = "processing"} : e = f

\* The row speaks of the latest evaluation: its status, and its score once it
\* is completed.
AIColumnsMirrorLatest ==
  \A v \in Videos :
    LET latest == Latest(v)
    IN  IF latest = 0
        THEN video[v].ai = "pending"
        ELSE /\ video[v].ai = evaluation[latest].status
             /\ video[v].ai = "completed" =>
                  video[v].aiScore = evaluation[latest].score

\* An evaluation whose job reached the provider gets a verdict in the end.
EveryJobGetsAVerdict ==
  \A e \in EvalId :
    evaluation[e].hasJob ~> evaluation[e].status \in {"completed", "failed"}
=============================================================================
