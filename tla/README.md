# SkillJudge backend: TLA+ models and proofs

SkillJudge scores videos of practical exams. A teacher uploads the videos of a task, an external
service scores each by AI, and human scorers review them. The backend is a stateless Go server over
Postgres (READ COMMITTED), Redis and an object storage, with two background loops; the AI service is a
Python process of its own. Their correctness is a matter of what overlapping requests, goroutines, loops
and failures do to the rows, keys and objects they share. That is what is modelled here, together with
the few computations whose results everything else relies on.

## 1. Inventory

| component | state | operations | interacts with |
| --- | --- | --- | --- |
| status rules (`internal/domain/evaluation`) | none | `ResolveOverallStatus`, `ResolveScorerTaskStatus`, `ResolveCompletedAt` | called by scoring, ai, task |
| scoring (`internal/modules/scoring`) | `video_review_assignments`, `manual_evaluations`, columns of `videos` | assign, reassign, save draft, submit, submit all drafts; dealing videos to scorers | task statistics, task scorers |
| AI evaluation (`internal/modules/ai`) | `ai_evaluations`, columns of `videos` | create (single, batch, on upload), poller rounds | provider (HTTP), task statistics |
| task statistics (`task.RefreshVideoStats`) | `total_videos`, `completed_videos` of `tasks` and `projects` | refresh after writes of a video | called by scoring, ai, video |
| analysis report (`task/analysis_service.go`) | `task_analysis_reports` | request a report; worker: list, claim, build, finish or fail | reads the cached task statistics |
| task scorers (`internal/modules/taskscorer`) | `task_scorers`, `task_scorer_invitations`, users' `metadata` | provision, invite, notify, resend, accept, read, remove, expire | mail; called by reassignment |
| videos (`internal/modules/video`) | `videos`, object storage | upload credential, confirm, delete, lists, AI report metadata | AI evaluation, task statistics |
| provider (`ai_eval_mock`, Python) | Redis job records and results, queue in memory, files | submit, status, result; workers, recovery, cleanup | polled by AI evaluation |
| sessions (`internal/modules/auth`, `internal/platform/jwt`) | Redis sessions, one per login | login, refresh, logout, expiry, token check | reads users |
| users (`internal/modules/user`) | `users.role`, `user_roles` | create, update, delete, lists, import, profile | sessions, access rules |
| projects, rubrics (`internal/modules/project`) | `projects`, `rubrics` | create, change, delete, lists; reading a rubric from a sheet | access rules of tasks and videos |
| tasks (`internal/modules/task`) | `tasks` | create, change, lists, scoreboard | projects, videos |
| bootstrap (`internal/bootstrap`) | `roles`, `permissions`, `role_permissions`, the first admin | seed at every start of an instance | the permission check of the middleware |
| platform (`internal/platform`) | none of its own | multipart uploads, mails, cache, database, tokens | called by all |
| import script (`scripts/import_ai_results.py`) | `ai_evaluations` | offline, one-off data import | none |

Hard behaviours. (1) `videos` carries one derived column, `evaluation_status`, which both sides compute
from a column of the other side that they read earlier, in another statement. (2) Every check of a
request ("already completed", "already processing", "still pending", "already accepted") happens before
the statement that relies on it, and nothing is locked or compared at the write. (3) Creating an evaluation,
inviting a scorer, uploading a video, making a report are chains of round trips that may break off anywhere
(cancelled client, failed mail, crash). (4) The poller and the report worker work in rounds over the
longest waiting rows. (5) Cached totals gate the analysis report. (6) The provider keeps its queue in memory
and its jobs in Redis, where it reads, changes and writes a record back without a check. (7) A fact is often
kept twice: a role in two tables, a relation beside its invitations, a row beside its object, access rules
in Go and again in SQL. Each is listed with its line under `hazards` in `PROJECT.json`.

What makes the components correct: rows written together stay together; the summary agrees with its
inputs; a submission and a verdict are final; one live AI evaluation per video; every dispatched job
gets a verdict; the cached totals agree with the rows; one active report per task; who takes part in a task
has answered an invitation; a ready video has its file and a deleted one none; a provider job is worked on
once, ends, and looks to its client as the client takes it to; a user has one role and a login one session;
what the lists show can be opened.

## 2. Modules

| module | models |
| --- | --- |
| `EvaluationStatus` | `internal/domain/evaluation/status.go` |
| `VideoRow` | the summary columns of `videos`, and what a review write and an AI write put there |
| `ManualReview` | scoring: requests, their reads, their lookup inside the transaction, their writes |
| `AIEvaluation` | AI evaluation: creations, dispatch, the poller's rounds; the provider as its answers show it |
| `VideoScoring` | the two sides on the rows they share (`Spec`), and the same without overlap (`Serial`) |
| `PollingTurns` | how long an evaluation waits for the poller: a history variable beside `VideoScoring` |
| `TaskTotals` | the counted state of videos, the cached totals of tasks and of their project, the gate `isTaskAnalysisReady` |
| `TaskStats` | `RefreshVideoStats` statement by statement, and the changes of videos with and without a refresh |
| `ReportLifecycle` | abstract: a task has one report at a time and gets one document |
| `AnalysisReport` | report requests, the queue, the workers and their goroutines |
| `TaskDelivery` | reports on the totals that refreshes maintain (`TaskStats` and `AnalysisReport` composed) |
| `InvitationLifecycle` | abstract: a scorer is asked, answers, takes part, leaves |
| `TaskScorer` | the scorers of a task: accounts, relations, invitations, mails, and the end of a reassignment |
| `ProviderJobs` | abstract: a provider job as its client sees it |
| `AnalysisJobs` | the provider: records, queue, workers, recovery, crashes, video files and their cleanup |
| `VideoAssets` | the objects of a video: upload, confirmation, deletion, the two documents of its AI report |
| `Accounts` | users, the two places of their role, their sessions |
| `Bootstrap` | what an instance does before it serves |
| `Catalog` | projects, rubrics, tasks, videos as the access rules and lists see them |
| `EvaluationLifecycle` | abstract: a video is assigned, reviewed, evaluated, and its summary says so |
| `Listing` | the paged lists, read page by page while their rows change |
| `UserBatches` | the creation of many users in one request |
| `Sums` | running sums of sequences |
| `Dealing` | who reviews which video: the four strategies |
| `ScoreSheets` | how the provider turns a model's answer into scores |
| `RubricTemplate` | how a rubric is read from an Excel sheet |
| `...Proofs` | theorems about the module of that name, proved with TLAPS |
| `AccessProofs` | theorems about `Accounts`, `UserBatches`, `Bootstrap`, `Catalog`, `Listing` and `VideoAssets` |
| `SideBySideProofs` | that `MCSideBySide` is made of these components: its types |
| `ComputationProofs` | theorems about `Sums`, `ScoreSheets`, `RubricTemplate` and `Dealing` |
| `MCSideBySide` | the components that share no state, one at work in each behaviour |
| `MCLifecycles` | `VideoScoring` without overlap, or `TaskDelivery`, chosen by the initial state |
| `MCTaskTotals` | `TaskDelivery` with two tasks: its totals under overlapping refreshes, or its reports with one handler at a time |
| other `MC...` | symmetry sets, functions and constraints for the TLC runs |

How they fit together. `VideoScoring` composes `ManualReview` and `AIEvaluation` on `VideoRow`. `TaskDelivery` composes
`TaskStats` and `AnalysisReport` on `TaskTotals`; `EvaluateVideo` of `TaskStats` stands for any write of `VideoScoring` that may
change `evaluation_status`. A reassignment is in two modules: `ManualReview` has its transaction on the reviews and
`TaskScorer` what follows it; the removal of a relation, which `TaskScorer` details, is `RemoveTaskScorer` in
`ManualReview`. `AIEvaluation` asks a provider of which it assumes what `ProviderJobs` states, and `AnalysisJobs` implements
`ProviderJobs` (`JobsLookAsPromised`); `ProviderFinishes` and `ProviderForgets` of `AIEvaluation` are its `End` and `Forget`.
`VideoScoring` without overlap implements `EvaluationLifecycle` (`FollowsEvaluationLifecycle`: reviews, creations, polls and their
transactions are then whole operations on status, score and summary). `AnalysisReport` implements `ReportLifecycle`, and
`TaskScorer` implements `InvitationLifecycle` but for stale writes.

Operators whose comment starts with "Mutated" are deliberately wrong variants of the definition that
follows them; they are used by no specification. They show that each property can fail: with the variant
in place of the definition the property is violated.

### How the code maps to actions

*Requests* (`ManualReview`). A request is a record: its operation, its phase, the videos it works on and
what it read. `Load...` is everything up to the transaction (one action: validation and the reads).
`FindAssignments` is the unlocked lookup of the assignment inside the transaction. The last action is
the transaction's writes. They are one step because all the transactions lock the rows they write in the
order manual_evaluations, video_review_assignments, videos, so a second writer waits for the first and its
updates, which name constant values, apply to the committed row. The evaluation looked up by assignment in
between is read with the write: such rows are never deleted, and two requests that both insert one are
separated by the unique index on `assignment_id` (the loser ends in `RequestFails`). `RequestFails` stands
for every error, rollback, deadlock victim, cancelled client and crash.

*AI* (`AIEvaluation`). A creation goes loaded, checked, created, then dispatched or failing; each arrow is
an action. The poller lists a batch only when the last round is over (`wg.Wait`), and each member reads the
provider and the row, then writes. `CreationStops` and `PollStops` are errors and crashes at any point.
A provider that finished the job may lose it before the result is fetched: then the evaluation fails at once,
without a grace period (`OutcomesOf`). The evaluations that wait for the provider are a queue in the order of `updated_at`
(`Waiting`, `Ahead`), from the front of which a round takes a batch: storing the job id and an answer "still at work" put an
evaluation at its end, a poll that fails leaves it where it is. `PollingTurns` takes these steps as they are and counts, for each
evaluation in the queue, how many were there before it, the rounds that passed it over, and the failed polls ahead of it.

*Refresh* (`TaskStats`). A handler that changed a video calls the refresh afterwards, in a transaction of its own.
Under READ COMMITTED each of its four counts sees what is committed at that moment, so each is an action
(`CountTaskTotal`, `CountTaskCompleted`, `CountProjectTotal`, `CountProjectCompleted`). `UpdateTask` is the UPDATE that
takes the row lock of the task: it waits while another refresh of that task is past its own (`HoldersOf`).
`CommitRefresh` is the UPDATE of the project and the commit, which makes both rows visible. `RefreshFails` rolls
back. `DeleteVideo` and `OverwriteReview` (a draft or an assignment written after a submission that its check did not
see) change what is counted and call no refresh.

*Reports* (`AnalysisReport`). `GenerateAnalysisReport` is the check of the cached totals, `EnsureQueuedAnalysisReport` the
transaction under the lock of the task's row. A round of a worker (`ProcessQueuedReports`) lists the oldest queued
reports and starts a goroutine for each; the round is over when all have ended (`wg.Wait`). A goroutine goes
listed, claimed, latest, checked, built, put, each arrow an action, or failing, from where `FailAnalysisReport` writes
"failed". `RunStops` ends a goroutine at any point: a crash, a shutdown (every statement then has a cancelled
context), or an error of the last update itself. Several workers are several server processes.

*Scorers* (`TaskScorer`). A handler is a record of what it read (the status of the relation and of the invitation), which is
never compared at the write; `Stale` says that it is not so any more. Provisioning and inviting run in one
transaction that includes the mail and appear at their commit (`CommitProvision`, `CommitInvite`); what they do before
it only they see. A resend commits each statement: new password, relation, mail, "delivered". An answer is two
statements, invitation first. A reassignment works through the new scorers (`EnsureNotification`), then through those
that lost a video: count what is left, read the relation, cancel invitations, expire the relation. `CallFails` ends a
handler anywhere and tells the scorer nothing. `account.state` is the `credentialReady` of the user's metadata;
`known` is what mails have told.

*Provider* (`AnalysisJobs`). The process is one asyncio loop, so what lies between two awaits is one action. `SubmitJob` stores
the record, `EnqueueJob` queues it. A worker takes a job, starts it, downloads, preprocesses, waits for a model slot, makes
and saves the result, writes "completed", plans the deletion of the file, disposes of it; an exception goes to `RunFails`
and `HandleFailure`. `ProcessEnds` is a crash or shutdown: the queue and the workers are gone, Redis and the files
stay. `StartProcess` and `RecoverJob` put unfinished jobs back before `BeginServing`. A Redis error outside a job's `try`
ends a worker (`WorkerDies`) or the cleanup (`CleanerDies`) for good. `setup.faulty` says whether a behaviour meets
faults of Redis and of the download.

*Objects* (`VideoAssets`). Each call to the storage and each statement is an action, `RequestFails` ends a handler between any
two. *Accounts*: changes of a user are one transaction; a refresh reads the session, checks the user, deletes the session, opens
the next, each an action. *Bootstrap*: each statement of the seed is an action, one permission standing for all of them; `InstanceEnds` is a crash. *Catalog*: a
handler is one action, since the property is about what the stored rows let whom do. A rule is written once for each place
that decides it: the permissions the seed grants a role (`Granted`) and the route asks for (`Passes`), the check of the
service, and the conditions of the list's query. The middleware reads permissions from the database, the services the role from the
claims of the token.

*Lists* (`Listing`). The seven paged lists are one model: a request counts the rows of its query, then fetches a page with OFFSET and
LIMIT, in two statements outside a transaction (`CountRows`, `FetchPage`; the scoreboard with `scope=all` has neither, `FetchAll`).
What differs is what happens to the rows meanwhile (`ListOf`): nothing takes a task away, a scoreboard row moves with
its score. Rows that share a place in the order (a score) come in any order, from one request to the next
(`Arrangements`). The client asks for page after page until an answer names no further one, and asks again when a request
breaks off. *Batches* (`UserBatches`): rows are checked for duplicates within the request, then each is looked up, stored in a
transaction of its own and read back, each an action. A row that is refused is noted; every other error ends the request, with
the users before it stored: a name taken between look-up and insertion (the unique index), a password bcrypt does not
take (`unhashable`), a user deleted before it is read back (a nil dereference).

*Dealing*, *ScoreSheets*,
*RubricTemplate*: a computation is one step from an input to an outcome; the initial states enumerate the inputs.

The variables `overlap` (`TaskScorer`), `alone` (`Accounts`) and `solo` (`VideoAssets`) are chosen in the initial state and say
whether handlers overlap in a behaviour. A property that holds only one by one names them, so that one specification
has both kinds of behaviours.

### Abstractions

* `VideoScoring`: every video is ready and of one task; scores are members of a small set; times are reduced to the
  order of `updated_at` (`rank`), `completed_at IS NOT NULL`, and "older than the grace period" (`overdue`).
  The preload of a video that goes with an assignment is read together with it. With several videos,
  `SubmitSavedDrafts` finds all assignments before it writes any (the code alternates); every property is
  about one video at a time. An evaluation's number is the order of `created_at`, taken to be the order of insertion.
  If storing the job id fails, it is taken as not stored. The semaphores limit how many goroutines run at once:
  the model lets any number run. There is one poller (one server process), as the deployment has.
* `TaskStats` has one project; tasks and videos are created beforehand. The lock of the project's row lasts from its
  UPDATE to the commit, with nothing in between, so they are one step. A video is uploaded once, and the confirmation
  of a video that was deleted after it was read (an UPDATE of no row) is left out.
* `TaskDelivery`: reports are numbered in the order of `created_at`. In `ReportsAlone` the totals are whatever a refresh may
  leave. The content of a report (statistics, layout, snapshot) is left out, only that its document is stored.
* `TaskScorer` is about one task. A scorer is a person with one email address; a second account under one address and the
  texts of the mails are left out. Invitations and passwords are numbered in the order they are made.
* `AnalysisJobs` takes `JobStore.update` (read, change, write back) as one step, which is sound because no two writers of one
  record ever meet: `OneWriterPerJob`, proved. A job is known by its rank; stages, points and prompts are left out.
* `VideoAssets` is about one video; an evaluation is known by its rank; the layout of the documents is left out.
* `Accounts` knows a token by its session; signatures and times to live are reduced to "ends some time"; a deleted identity
  is never used again (the unique index also covers deleted rows).
* `Catalog` has one project, one rubric, one task and one video, each made once. The rules compare a user only with the
  creator, the school, the uploader and the student number stored with them, so that more rows add nothing.
* `ScoreSheets` and `RubricTemplate` compute in hundredths of a point, exactly, where the code uses floats. A ratio derived from
  a hash is any ratio of a given set. A shuffle (`DealShuffled`) is any order.
* `Listing` has one reader, whose answers show rows and a count; filters are rows that come and go. `UserBatches` knows a user by
  the username, which the unique index keeps once.

## 3. Runs

| run | question | expected |
| --- | --- | --- |
| `overlap` | both sides of an evaluation interleaved: do the columns of the row and the reviews stay together (`ReviewRowsAgree`), and is a wrong summary always the work of a stale read (`FreshWritesAreExact`)? Re-runs, verdicts and failed polls over batches of one: is an evaluation passed over only for those before it and for their failed polls (`TurnsComeRound`)? | pass |
| `lifecycles` | both sides of an evaluation without overlap: do the summary, the score and a submission hold, and is `EvaluationLifecycle` implemented? Reports, while totals change, go stale and are checked again: one at a time, one worker on it, stored before it is ready, and `ReportLifecycle` implemented? | pass |
| `ai_one_creation` | one creation at a time, re-runs, a forgetful provider: does the row follow the latest evaluation, does nobody write another's evaluation or a verdict again, and does every dispatched job get a verdict? | pass |
| `task_totals` | two tasks of one project, refreshes that overlap as they like: do totals go wrong only by an overlap of two refreshes of one task (`TaskTotalsInTurns`), or of the locks of two tasks (`ProjectTotalsInTurns`)? One handler at a time: is a report accepted only when all videos are evaluated, and is every queued report claimed? | pass |
| `relations` | invitations, answers, removals, resends and reassignments: does a relation follow the invitations but for stale writes, do delivered passwords work, does a reassignment settle with old and new scorers (`ReassignmentSettles`)? | pass |
| `side_by_side` | the components that share no state with the others, each by itself: see the next table | pass |
| `lost_completion` | is a reviewed and evaluated video complete? | violation |
| `reassignment_race` | does a reassignment leave started work alone? | violation |
| `ai_double_creation` | can a second creation slip in while one is processing? | violation |
| `report_abandoned` | does every claimed report become ready or failed? | violation |
| `project_totals_race` | with refreshes of two tasks that overlap, are the totals of the project right when all handlers are done? | violation |
| `delivery_stale_totals` | with overlapping handlers, is a report accepted only when all videos are evaluated? | violation |

What `side_by_side` asks. Its initial state chooses a component, which takes all the steps, while the others rest in one
fixed state: TLC explores the sum of their state spaces, and one run keeps their values and bounds in one place.

| component | properties | what they show |
| --- | --- | --- |
| `AnalysisJobs` | `OneWriterPerJob`, `JobsLookAsPromised`, `EveryJobEnds`, `EveryFileGoes` | through crashes, faults and recovery: one worker on a job; the provider is what `AIEvaluation` takes it to be; accepted jobs end; downloaded files go |
| `Accounts` | `RolePlacesAgree`, `OneSessionPerLogin` | a user has one active role, that of the column; refreshes exchange a session for one |
| `Bootstrap` | `MissingPermissionsHaveACause` | instances that start together do not leave a role without permissions |
| `VideoAssets` | `ReadyMeansStored`, `DeletedVideosLeaveNoFile` | a ready row has its objects, a deleted one no file |
| `Catalog` | `RightsFitTogether` | what the four lists show can be opened, with the permissions the seed grants; an upload can be confirmed and deleted by its uploader |
| `Listing` | `ListsAreReadOnce` | a list read to its end shows each row once, but for those that other rows pushed over the edge of a page |
| `UserBatches` | `BatchesKeepTheirWord` | an answer says of every row what became of it; no request stores a user twice |
| `Dealing` | `DealIsFair` | every video goes to one scorer, with the shares the caller asked for |
| `ScoreSheets` | `SheetAddsUp` | items, groups and total of a result add up |
| `RubricTemplate` | `TemplateIsRead` | a sheet is accepted exactly when it is well formed, and then read as written |

The violations are disagreements between the repository's own documents and the code; `findings` in `PROJECT.json`
quotes the lines. Some belong to properties that hold: `EvaluationIsExact` holds without overlap (`lifecycles`) and fails with it
(`lost_completion`), and `AcceptedOnlyWhenEvaluated` holds in `task_totals` and fails in `delivery_stale_totals`: it is
the interleaving, and no handler's own logic, that breaks them. The counterexample of the last is a lost update of the
task's totals: the refresh that counted first commits last. `project_totals_race` is the same for the project, which has
no lock of its own while it is counted: the refreshes of two tasks hold different locks, and the older count is stored last
and stays. `ProjectTotalsInTurns` says that there is no other way for these totals to go wrong, `TaskTotalsInTurns` the like of
the task's. Three further findings came from reading the code for a
model and have no run: a failed invitation mail rolls everything back although the design keeps it; a user cannot be
given a role they had before (`LostRolesStayLost`, proved, is what follows); a failure to plan the deletion of a file
turns a completed provider job into a failed one (which `JobsLookAsPromised` has to exempt).

Bounds. One video is enough for a review: no handler relates two videos except the poller's batch, and
`ai_one_creation` has two videos with a batch of one, so that the order of polling matters. Two requests give every
pair of overlapping review operations; two scorers (in `lifecycles`) give reassignment. `MaxEvals` (evaluations ever
created) is 2, for a re-run, and 1 in the widest interleaving. `overlap` (`MCPollingTurns`) has two videos, two evaluations, batches of one and up to two failed polls (`MaxErrors`) ahead of
each, so that one evaluation keeps another waiting by failing, by a re-run and by being asked again; its constraint `Focus` keeps
reviews, which never touch the queue, to behaviours with one video and one evaluation. Two creations at once are in `ai_double_creation` and in the
theorems, which hold for any number.

In `lifecycles` two callers and two workers give every race of a request or a
claim, three reports (`MaxReports`) let two fail before the last, and one writer and one video keep the state
space small: the totals still go stale in every way (`RefreshFails`, `DeleteVideo`, `OverwriteReview`). It stops when all
videos are deleted and all callers are done, so deadlock is not checked there. The two parts share no state: TLC explores the
sum of their state spaces.

`task_totals` has two tasks of one project, with a video each (one has a second video for the reports), and two writers, so that two
refreshes of one task overlap as well as two of different tasks, at every statement, again and again. Two callers and
two workers are in `lifecycles`; here one of each, batches of one and two reports let one report stand before the other.
`project_totals_race` has two tasks with a video each and two writers, the least in which it happens; `delivery_stale_totals`
needs two videos of one task.

`relations` has two scorers, two videos and two handlers, the least in which a reassignment has somebody to ask and
somebody to let go; two invitations (`MaxInvitations`) let one be answered or cancelled while the other is open, and one
temporary password beyond the first (`MaxPasswords`) lets a mail be out of date. The constraint `Focus` of `MCTaskScorer` keeps
*overlapping* handlers to one scorer (two scorers share nothing but the videos, which only reassignments touch), and
leaves read marks to behaviours without overlap.

`side_by_side`: two provider jobs, two workers, one model slot and one restart
(`MaxJobs`, `LlmSlots`, `MaxCrashes`), so that jobs wait for each other and are recovered, under three settings (`Setups`:
without faults, with faults and kept files, with remote URLs); one user, two handlers, two sessions (`MaxSessions`); two
instances with two starts each, two roles (`MaxStarts`, `RoleCount`); two requests about one video with two evaluations
(`MaxVerdicts`); a user of every role, some of them in two schools or in none (`OneOfEachRole`); three videos dealt to two
scorers with lists of up to three entries (`MaxListed`), repetitions included; rubrics of up to two groups and two items
whose scores are and are not half steps, with raw scores below, at and above the limits (`RubricSet`, `RawScoreSet`,
`Ratios`); sheets of up to four rows (`MaxRows`) of nine kinds (`RowSet`); three rows at three places with pages of one or
two (`Entries`,
`Places`, `Sizes`, `DefaultSize`; the size 0 asks for the default), the least in which a row before another one goes while a page is
still to come; two batches (`Importers`) of up to three rows (`MaxItems`, `RequestSet`) about two usernames, which others make and
delete. A computation that is done stops, and so does a
component at its bounds: deadlock is not checked.

Fairness (`PollerFairness`). Weak fairness of a round: the ticker fires for ever. Weak fairness of the provider's
answer and of the passing of the grace period. Strong fairness of the two steps of a poll: a poll may fail, but
does not fail every time; the code retries in every round, and what makes a poll fail (timeouts, connection
errors) is outside it. Nothing is assumed of creations or requests.

Fairness (`WorkerFairness`). Weak fairness of the rounds and of every goroutine's steps: the ticker fires for ever and
the database answers. Strong fairness of the claim: it may fail, but not every time, since the next round tries again.
A goroutine may stop after its claim as often as it likes; nothing retries that, which is the finding of
`report_abandoned`. `ReportsFairness` of `MCTaskTotals` is the same, in behaviours with reports.

Fairness (`ProviderFairness`). Weak fairness of the start of the process and of its recovery (the deployment restarts
it), of each worker's steps and of the cleanup loop (both are `while True` loops of the event loop), and of the
enqueueing that follows an accepted submission. Nothing is assumed of clients, of Redis' expiries or of faults.

## 4. Proofs

Eight modules hold the theorems; `theorems` in `PROJECT.json` lists them. They hold for all values of the constants under
the assumptions the modules name (`...Assumption`), and under nothing else except where stated.

`VideoScoringProofs`:

* `TypeCorrectness`, `EvaluationOwnership`. `AITypeOK` is not inductive: a handler touches the evaluation whose
  number it holds and reads the video that evaluation names. The inductive invariant is
  `AIInv == TypeOK /\ HandlersOwnTheirEvaluation`: an evaluation in somebody's hands exists, is processing and has
  a known video; it has a job exactly if the poller holds it, so the poller and a creation never meet.
* `VerdictsAreFinal` follows from `AIInv`: every writer of an evaluation holds one that is processing.
* `ReviewRowsStayTogether`, `CompletionTimesAreRight`: that the reviewer's columns mirror the assignment, that a started review has
  its evaluation row and that the completion time is right are together inductive (`ReviewInv`), with two lemmas on
  what a review write and an AI write put in the row.
* `FreshWritesLeaveExactRows`: by cases on the handler that writes the row; either the column it read is still the
  row's, and the rule gives the exact status, or the step is a stale write. Three theorems draw the conclusion for whole
  behaviours of `Spec`, handlers overlapping as they like: `RowStaysExact` (the summary of a video is exact as long as no stale
  write hits its row, `NoStaleWrite(v)`, whatever happens to the others), `RowCountsAsComplete` (a video with both sides done is
  then completed, which is what `lost_completion` refutes without the hypothesis) and `FreshWritesKeepSummaries` (of all videos).
* `SerialEvaluationIsExact`, `SerialScoreIsTheReviews`, `SubmissionsAreFinal`, `ReassignmentSpares`, for `Serial`.
  `SerialInv` adds to `AIInv` that at most
  one handler has something in hand (`Alone`) and that what it has read is what is there (`SeenByRequests`, `SeenByAI`): a
  reassignment in flight is about
  reviews that have not been started. Then
  no write is stale, and `FreshWritesLeaveExactRows` carries the summary over each step: the summary is wrong
  only through an overlap, which is what `lost_completion` shows to happen.
* `OneCreationOneLive`, `OneCreationMirrors`: for `Spec` in every behaviour where no two creations *of one video* are between their
  check and their insert at once (`OneCreationPerVideo`), with any number of creators, requests and polls: batches over different
  videos may overlap, and of one video creations may overlap everywhere else. `LatestInv` says that evaluations are numbered
  without a gap, that only the latest of a video can be processing, and that a creation past its check has seen none
  processing. The assumption is needed: `ai_double_creation` is the counterexample with two, and `ai_one_creation` its
  instance with one creator.
* `SerialRefinesLifecycle`: `Serial` implements `EvaluationLifecycle`. `LifeInv` puts `SerialInv`, `ReviewInv` and
  `LatestInv` together: a
  transaction of reviews maps to one abstract operation on its videos, the insert of an evaluation to `Evaluate`, a
  verdict to its outcome, everything else to stuttering.

`PollingTurnsProofs`: `NobodyIsOvertaken`, for any number of videos, evaluations, handlers and batch size. `TurnsComeRound` is not
inductive: it must be known where the rounds that passed an evaluation over have gone. The invariant `Accounted` balances them:
`BatchSize` for each such round, and those still ahead, come to at most those that were ahead when it joined, the failed
polls since, and
the polls under way ahead of it. A round that passes it over adds a whole batch to both sides (`PassedOverByABatch`), an answer or a
verdict takes one from both (`OneMoves`), a failure turns a poll under way into a failed one, and whoever joins does so behind it
(`StrangerMoves`). This needs the order of `updated_at` to be one (`RanksDiffer`), and `AIInv` to know whose steps
these are.

`TaskDeliveryProofs`, first for the totals alone (`TaskStats`), for any number of tasks, videos and handlers, when every change is
followed by its refresh (`Refreshed`). `ProjectTotalsFollowTurns` states `ProjectTotalsInTurns`: the totals of the project come out
exact in every behaviour in which no two tasks hold the lock of their row at once (`TasksTakeTurns`), however the refreshes of
one task overlap; it says why the totals of the project survive what those of the task
do not: its counts come after the lock. The inductive invariant (`StatsInv`) says that at most one refresh is past its lock and
that for each of the two totals either the row is exact, or a refresh that has read the exact number is about to store
it, or one has still to count. The hypothesis cannot be dropped: `project_totals_race` is what happens without it.
`TaskTotalsFollowTurns` states `TaskTotalsInTurns`: the totals of the tasks come out exact where no two refreshes of one task overlap
(`OneRefreshPerTask`), whatever those of
other tasks do: a refresh under way has counted what is so (`CountsAreCurrent`), and without one the row is exact. Here
`delivery_stale_totals` shows what two overlapping refreshes do.

Then for `Delivery`, any interleaving of refreshes, failures, callers and workers: types, `OneActive`, `OneWorker`,
`ReadyIsStored`. `ReportInv` adds to the properties that reports are numbered without a gap, that a task with reports
has a last one, and that a run past the upload has stored its document. `DeliveryFollowsLifecycle`: a request that finds
no active report maps to `Request`, a claim to `Begin`, the last update to `Deliver` or `Fail`, all else to stuttering.
`TotalsFollowTurnsInDelivery` and
`AcceptedForEvaluatedTasks` carry the exact totals over to the requests: under `OneRefreshPerTask`, a report is accepted only for a
task of which every ready video is evaluated.

`TaskScorerProofs`:

* types and `TakingPartIsAnswered`, in every interleaving: `ScorerInv` says that a written invitation keeps its scorer and its
  answer, and that a handler about to accept holds an invitation that its scorer has answered.
* `RelationsFollowLifecycle`: `TaskScorer` implements `InvitationLifecycle`, but for the writes of overlapping handlers whose
  relation or invitation changed since they read it. `FreshInv`: without overlap no handler is stale.
* `DeliveredMeansKnown`, `ReassignmentsSettle`, without overlap: `PasswordsInv` says which password a handler has at
  hand between making it and marking it delivered, `ReassignInv` which scorers a reassignment has already asked, and what
  it has counted and cancelled before it lets a scorer go.

`AnalysisJobsProofs`: types and `OneWriter`, for any number of jobs, workers and restarts, with faults. `JobsInv`: a job is in one
place at a time, the list to recover, a submission, the queue or a worker (`Places`), the life of the process says which of
these can be filled (`Phases`), whatever has a place has a record (`Recorded`), and a file is planned for deletion only
after its job ended and was let go (`Planned`). This is what makes `JobStore.update` safe. `ClientsSeeJobs`: the provider implements
`ProviderJobs` (`JobsLookAsPromised`). `ProgressInv` adds what a worker relies on without looking: its record is still
processing until its last write, and the result is stored before the record says completed.

`AccessProofs`:

* `Accounts`: types, `RolesAgree` and `LostRoles` (in any overlap, with `RolesInv`: an identity without a user has no role rows),
  `OneSession` (`SessionsInv`: one by one, a handler between deleting a session and opening the next has left its login
  without one).
* `Bootstrap`: types and `PermissionsAreNotLost`, which is inductive with the types.
* `RightsAgree`, for any actors and schools: by cases on role, school and row. `CatalogInv` says what a rule may rely on without
  looking: where there is a video there is its task, and its uploader has a role that may manage videos and could manage the
  project when the upload began.
* `ReadingsShowRowsOnce`, for lists of any length and pages of any size. `ReadingInv` counts: a row that stayed and has not been seen
  has at least as many rows before it as have been read, one that was seen has fewer, and when the last page is about
  to be read it has fewer than were counted.
* `BatchAnswersHold`: `BatchInv` relates what a request stored, what it refused and how far it is.
* `VideoAssets`: types, `ReadyIsInTheBucket`, `DeletionsLeaveNothing`. `AssetsInv` says what a handler in each step has
  already put into the
  bucket (`Handled`) and what is so when it is the only one (`Alone`).

`SideBySideProofs`: `SideBySideTypeCorrectness`. A step of the composition is a step of the component at work, which has the
state it has by
itself (`OneWorks`), so that the inductive invariants of the components carry over (`SideBySideInv`).

`ComputationProofs` is about the computations for every input, not for those TLC enumerates. Sums and readings are recursive functions;
that they are what their equations say, and what they give, is proved by the least number for which it fails
(`LeastOne`, from the well-foundedness of the natural numbers).

* `SheetsAddUp`: `SheetInv` has the types of rubrics and answers; the lemmas follow a score from the item (`Quantized`,
  `ItemScored`) to its
  group (`GroupScored`) and say when a total of zero means that the model gave nothing (`NothingInTotal`). The proof
  showed that groups worth a quarter of a point or less round to nothing whatever the model gave, which
  `CameToNothing` has to allow for.
* `TemplatesAreRead`: `SoFar` says after each row that the sheet was refused and is not well formed, or that all rows so far are good,
  the items before the last are read (`ItemsRead`), and of the last the rows so far (`OwnReads`). `SharesAddUp` is
  about the shares of an item without scores of its own: they add up, and none is negative if there are few for the score.
* `DealsAreFair`: in turn, the places of one scorer shift into those of another by an injection that misses one at most
  (`TurnsAreFair`); by quantities, every place falls into one entry (`PlacesByQuantity`); and an order of the videos is a
  bijection that carries counts of places to counts of videos (`AsManyPlaces`).

Only model-checked. Liveness under fairness is beyond the prover: `EveryJobGetsAVerdict`, `EveryQueuedReportIsClaimed`,
`EveryJobEnds`, `EveryFileGoes`. `TurnsComeRound`, which is proved, is the part of the first that is a safety property. Every
invariant, action property and refinement of a passing run is stated by a theorem. Of the properties the violation runs refute, each
but one has a theorem that says under which hypothesis it holds: `OneLiveEvaluation` (`OneCreationOneLive`),
`ReassignmentSparesStartedWork` (`ReassignmentSpares`), `ProjectTotalsSettle` (`ProjectTotalsFollowTurns`), `AcceptedOnlyWhenEvaluated` (`AcceptedForEvaluatedTasks`),
`DoneMeansCompleted` (`RowCountsAsComplete`, in the form it has for one video); `EveryClaimedReportSettles` is a liveness property.

## 5. Not modelled

* The import script, an offline one-off.
* Routing, request parsing, response layout, logging, configuration; profiles, password hashing, the reading of users from
  a sheet, descriptive columns of projects, rubrics and tasks: single statements on rows nobody else relies on.
* The averages of the scoreboard, the statistics and the layout (HTML, PDF) of reports: they only read.
* The protocols of the mail server, the object storage and the provider's model, and the prompts and preprocessing of the
  provider: outside, or data that no property tells apart.
* The JSON a model answers and its many spellings (`ScoreSheets` starts from the scores found in it).
* Three ways in which handlers meet that no property states: a review handed to another scorer keeps the first scorer's id in its
  evaluation (`scoring/repository.go:426`), a deletion does not refresh the totals (`video/service.go:404`; `DeleteVideo`
  of `TaskStats` models it), and a confirmation dereferences a video it reads again, which a deletion may have
  removed (`video/service.go:184`).

## 6. Plan

Done: the evaluation core, totals and reports, scorers and invitations, the provider, the objects of a video, accounts and
batches, bootstrap, the access rules, the lists, and the computations; a theorem for every safety property of the runs. Left, in
this order:

1. How far the totals of a project can be off when refreshes of its tasks overlap (`project_totals_race`), as a refinement of an abstract project with a
   bounded error; several projects in `TaskStats`.
2. How many sessions a login can have when its refreshes overlap (`OneSession` is about one handler at a time).
3. The metadata of AI reports against evaluations that are run again while a report is written, in one model with
   `VideoScoring` (today `VideoAssets` only counts verdicts).
4. The averages of the scoreboard as functions of the rows.
