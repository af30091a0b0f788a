--------------------------- MODULE AnalysisReport ---------------------------
(***************************************************************************)
(* The analysis reports of tasks (internal/modules/task,                   *)
(* analysis_service.go): a request queues a report, and a worker in each   *)
(* server process claims queued reports and makes the documents.           *)
(*                                                                         *)
(* EnsureQueuedAnalysisReport locks the task's row, so that two requests   *)
(* are separated; ClaimAnalysisReport is a conditional update, so that two *)
(* workers are.  Every other step of the worker is a statement, or a call, *)
(* of its own, and its last update is unconditional.                       *)
(***************************************************************************)
EXTENDS TaskTotals

CONSTANTS
  Callers,              \* requests in flight
  ReportWorkers,        \* server processes, each with its report worker
  ReportPollBatchSize,  \* taskAnalysisReportPollBatchSize
  MaxReports,           \* bound on the reports ever made
  NoTask

ASSUME AnalysisReportAssumption ==
  /\ ReportPollBatchSize \in Nat \ {0}
  /\ MaxReports \in Nat
  /\ NoTask \notin Tasks

VARIABLES
  report,       \* task_analysis_reports, numbered in the order of created_at
  passed,       \* the task a caller was let through for
  run,          \* the goroutines of the workers' rounds
  stored        \* the reports whose PDF is in the object storage

reportVars == <<report, passed, run, stored>>

ReportId == 1..MaxReports

Report == [task   : Tasks \cup {NoTask},
           status : {"none", "queued", "processing", "ready", "failed"}]

RunPhase == {"idle", "listed", "claimed", "latest", "checked", "built", "put",
             "failing"}

ReportTypeOK ==
  /\ report \in [ReportId -> Report]
  /\ passed \in [Callers -> SUBSET Tasks]
  /\ run \in [ReportWorkers -> [ReportId -> RunPhase]]
  /\ stored \subseteq ReportId

ReportInit ==
  /\ report = [e \in ReportId |-> [task |-> NoTask, status |-> "none"]]
  /\ passed = [c \in Callers |-> {}]
  /\ run = [w \in ReportWorkers |-> [e \in ReportId |-> "idle"]]
  /\ stored = {}

Made == {e \in ReportId : report[e].status # "none"}

ReportsOf(t) == {e \in Made : report[e].task = t}

\* FindLatestAnalysisReportByTaskID: e is the last one made for its task.
IsLatest(e) == \A f \in ReportsOf(report[e].task) : f <= e

Active == {"queued", "processing", "ready"}

\* Mutated: a report that was delivered is made again on request.
HasActiveUndelivered(t) ==
  \E e \in ReportsOf(t) : IsLatest(e) /\ report[e].status \in {"queued", "processing"}

\* Mutated: a report that is being made does not count.
HasActiveUnclaimed(t) ==
  \E e \in ReportsOf(t) : IsLatest(e) /\ report[e].status \in {"queued", "ready"}

\* The latest report stands in for a new one.
HasActive(t) ==
  \E e \in ReportsOf(t) : IsLatest(e) /\ report[e].status \in Active
-----------------------------------------------------------------------------
(***************************************************************************)
(* Requests.                                                               *)
(***************************************************************************)

\* GenerateAnalysisReport, up to the check of the totals.
GenerateAnalysisReport(c, t) ==
  /\ passed[c] = {}
  /\ IsTaskAnalysisReady(t)
  /\ passed' = [passed EXCEPT ![c] = {t}]
  /\ UNCHANGED <<report, run, stored>>

\* The transaction, with the lock of the task's row.
EnsureQueuedAnalysisReport(c, t) ==
  /\ t \in passed[c]
  /\ \/ HasActive(t) /\ UNCHANGED report
     \/ /\ ~ HasActive(t)
        /\ \E e \in ReportId \ Made :
             /\ \A f \in 1..(e - 1) : f \in Made
             /\ report' = [report EXCEPT ![e] = [task |-> t, status |-> "queued"]]
  /\ passed' = [passed EXCEPT ![c] = {}]
  /\ UNCHANGED <<run, stored>>

\* The request ends before its transaction has committed.
GenerateFails(c) ==
  /\ passed[c] # {}
  /\ passed' = [passed EXCEPT ![c] = {}]
  /\ UNCHANGED <<report, run, stored>>
-----------------------------------------------------------------------------
(***************************************************************************)
(* The worker.  A round ends when all its goroutines have (wg.Wait).       *)
(***************************************************************************)

Queued == {e \in ReportId : report[e].status = "queued"}

\* Mutated: the query does not ask for the status.
FirstMade ==
  {e \in Made : Cardinality({f \in Made : f < e}) < ReportPollBatchSize}

\* ListQueuedAnalysisReports: the oldest ones.
FirstQueued ==
  {e \in Queued : Cardinality({f \in Queued : f < e}) < ReportPollBatchSize}

ProcessQueuedReports(w) ==
  /\ \A e \in ReportId : run[w][e] = "idle"
  /\ FirstQueued # {}
  /\ run' = [run EXCEPT ![w] =
       [e \in ReportId |-> IF e \in FirstQueued THEN "listed" ELSE "idle"]]
  /\ UNCHANGED <<report, passed, stored>>

Moves(w, e, from, to) ==
  /\ run[w][e] = from
  /\ run' = [run EXCEPT ![w][e] = to]

\* Mutated: the update does not ask for the status.
ClaimUnconditionally(w, e) ==
  /\ Moves(w, e, "listed", "claimed")
  /\ report' = [report EXCEPT ![e].status = "processing"]
  /\ UNCHANGED <<passed, stored>>

\* Only the update that finds the report queued goes on.
ClaimAnalysisReport(w, e) ==
  /\ \/ /\ Moves(w, e, "listed", "claimed")
        /\ report[e].status = "queued"
        /\ report' = [report EXCEPT ![e].status = "processing"]
     \/ /\ Moves(w, e, "listed", "idle")
        /\ report[e].status # "queued"
        /\ UNCHANGED report
  /\ UNCHANGED <<passed, stored>>

\* FindLatestAnalysisReportByTaskID, otherwise "superseded by a newer record":
\* OneActiveReport says that this never happens to a claimed report.
FindLatest(w, e) ==
  /\ Moves(w, e, "claimed", IF IsLatest(e) THEN "latest" ELSE "failing")
  /\ UNCHANGED <<report, passed, stored>>

\* The task is read again and its totals are checked again.
CheckTask(w, e) ==
  /\ \/ /\ Moves(w, e, "latest", "checked")
        /\ IsTaskAnalysisReady(report[e].task)
     \/ /\ Moves(w, e, "latest", "failing")
        /\ ~ IsTaskAnalysisReady(report[e].task)
  /\ UNCHANGED <<report, passed, stored>>

\* buildAnalysisResult reads the videos; then the PDF is made of it.
BuildAnalysisResult(w, e) ==
  /\ Moves(w, e, "checked", "built")
  /\ UNCHANGED <<report, passed, stored>>

\* Mutated: the upload is not waited for.
PutObjectLater(w, e) ==
  /\ Moves(w, e, "built", "put")
  /\ UNCHANGED <<report, passed, stored>>

PutObject(w, e) ==
  /\ Moves(w, e, "built", "put")
  /\ stored' = stored \cup {e}
  /\ UNCHANGED <<report, passed>>

UpdateAnalysisReport(w, e) ==
  /\ Moves(w, e, "put", "idle")
  /\ report' = [report EXCEPT ![e].status = "ready"]
  /\ UNCHANGED <<passed, stored>>

\* Loading, building or storing returns an error.
ProcessingFails(w, e) ==
  /\ \E phase \in {"claimed", "latest", "checked", "built"} :
       Moves(w, e, phase, "failing")
  /\ UNCHANGED <<report, passed, stored>>

FailAnalysisReport(w, e) ==
  /\ Moves(w, e, "failing", "idle")
  /\ report' = [report EXCEPT ![e].status = "failed"]
  /\ UNCHANGED <<passed, stored>>

\* The goroutine ends without its last update: the process crashes or is shut
\* down (the update has the cancelled context), or the update itself fails.
RunStops(w, e) ==
  /\ run[w][e] # "idle"
  /\ run' = [run EXCEPT ![w][e] = "idle"]
  /\ UNCHANGED <<report, passed, stored>>

ProcessQueuedReport(w, e) ==
  \/ ClaimAnalysisReport(w, e) \/ FindLatest(w, e) \/ CheckTask(w, e)
  \/ BuildAnalysisResult(w, e) \/ PutObject(w, e) \/ UpdateAnalysisReport(w, e)
  \/ FailAnalysisReport(w, e)

ReportNext ==
  \/ \E c \in Callers :
       \/ \E t \in Tasks :
            GenerateAnalysisReport(c, t) \/ EnsureQueuedAnalysisReport(c, t)
       \/ GenerateFails(c)
  \/ \E w \in ReportWorkers :
       \/ ProcessQueuedReports(w)
       \/ \E e \in ReportId :
            ProcessQueuedReport(w, e) \/ ProcessingFails(w, e) \/ RunStops(w, e)
-----------------------------------------------------------------------------
(***************************************************************************)
(* Reports while the totals of the tasks come and go: what the cached      *)
(* totals say has nothing to do with the videos here.                      *)
(***************************************************************************)

\* Some refresh of the totals of t (module TaskStats).
RefreshVideoStats(t) ==
  /\ \E n \in {NoTotals, [total |-> 1, completed |-> 0],
               [total |-> 1, completed |-> 1]} :
       taskTotals' = [taskTotals EXCEPT ![t] = n]
  /\ UNCHANGED <<clip, projectTotals, reportVars>>

reportAloneVars == <<totalsVars, reportVars>>

ReportsAloneInit == TotalsInit /\ ReportInit

ReportsAlone ==
  /\ ReportsAloneInit
  /\ [][\/ ReportNext /\ UNCHANGED totalsVars
        \/ \E t \in Tasks : RefreshVideoStats(t)]_reportAloneVars

\* The worker's loop and its goroutines run; the claim of a report does not
\* fail, or get cut off, every time.
WorkerFairness ==
  \A w \in ReportWorkers :
    /\ WF_reportAloneVars(ProcessQueuedReports(w) /\ UNCHANGED totalsVars)
    /\ \A e \in ReportId :
         /\ SF_reportAloneVars(ClaimAnalysisReport(w, e) /\ UNCHANGED totalsVars)
         /\ WF_reportAloneVars(ProcessQueuedReport(w, e) /\ UNCHANGED totalsVars)

FairReportsAlone == ReportsAlone /\ WorkerFairness
-----------------------------------------------------------------------------
(***************************************************************************)
(* Properties.                                                             *)
(***************************************************************************)

\* A task has at most one report that has not failed, and no later one.
OneActiveReport ==
  \A e \in Made : report[e].status \in Active => IsLatest(e)

Working == RunPhase \ {"idle", "listed"}

\* Between the claim and its last update a report is in the hands of one
\* goroutine: nobody else claims it, or changes it (the draft, "Worker 侧幂等").
OneWorkerPerReport ==
  /\ \A w \in ReportWorkers, e \in ReportId :
       run[w][e] \in Working => report[e].status = "processing"
  /\ \A v, w \in ReportWorkers, e \in ReportId :
       run[v][e] \in Working /\ run[w][e] \in Working => v = w

\* A report that is said to be ready has its document in the storage.
ReadyReportsAreStored ==
  \A e \in ReportId : report[e].status = "ready" => e \in stored

\* The latest report of a task, and the delivered ones, follow the lifecycle.
StatusOf(t) ==
  IF ReportsOf(t) = {} THEN "none"
  ELSE report[CHOOSE e \in ReportsOf(t) : IsLatest(e)].status

DeliveredFor(t) == {e \in ReportsOf(t) : report[e].status = "ready"}

Abstract == INSTANCE ReportLifecycle WITH
  Reports <- ReportId,
  status <- [t \in Tasks |-> StatusOf(t)],
  documents <- [t \in Tasks |-> DeliveredFor(t)]

\* Many callers and many workers look like one report per task.
FollowsLifecycle == Abstract!Lifecycle

\* A queued report is claimed in the end, however many wait before it.
EveryQueuedReportIsClaimed ==
  \A e \in ReportId :
    report[e].status = "queued" ~> report[e].status # "queued"

\* A report that is being made is ready or failed in the end: the client that
\* polls gets an answer (the draft, line 21).
EveryClaimedReportSettles ==
  \A e \in ReportId :
    report[e].status = "processing" ~> report[e].status \in {"ready", "failed"}
=============================================================================
