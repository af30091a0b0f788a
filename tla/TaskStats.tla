----------------------------- MODULE TaskStats -----------------------------
(***************************************************************************)
(* RefreshVideoStats (internal/modules/task/repository.go), which every    *)
(* handler calls after it has committed a change of a video.               *)
(*                                                                         *)
(* The refresh is one transaction under READ COMMITTED: each of its four   *)
(* counts sees what is committed when it runs.  The task's counts come     *)
(* before its UPDATE, which takes the lock of the task's row until the     *)
(* commit; the project's counts come after it.  A change and the refresh   *)
(* that follows it are separate transactions.                              *)
(***************************************************************************)
EXTENDS TaskTotals

CONSTANT Writers   \* handlers that change videos and then refresh

VARIABLE refresh   \* what the refresh of a handler has read

statsVars == <<totalsVars, refresh>>

Refresh ==
  [phase   : {"idle", "written", "totalled", "counted", "locked",
              "projectTotalled", "projectCounted"},
   task    : Tasks,
   own     : Totals,      \* the task's counts
   project : Totals]      \* the project's counts

StatsTypeOK ==
  /\ TotalsTypeOK
  /\ refresh \in [Writers -> Refresh]

StatsInit ==
  /\ TotalsInit
  /\ \E t \in Tasks :
       refresh = [r \in Writers |-> [phase |-> "idle", task |-> t,
                                     own |-> NoTotals, project |-> NoTotals]]

\* r's change of v is committed: next comes the refresh of v's task.
Starts(r, v) ==
  /\ refresh[r].phase = "idle"
  /\ refresh' = [refresh EXCEPT ![r].phase = "written", ![r].task = TaskOf[v]]
-----------------------------------------------------------------------------
(***************************************************************************)
(* The changes of a video that are followed by a refresh.                  *)
(***************************************************************************)

ConfirmUpload(r, v) ==
  /\ Starts(r, v)
  /\ clip[v] = "uploading"
  /\ clip' = [clip EXCEPT ![v] = "ready"]
  /\ UNCHANGED <<taskTotals, projectTotals>>

\* A submission, or a write of the AI side: it may complete the video, take
\* the completion back (a new AI run), or leave it as it is.
EvaluateVideo(r, v) ==
  /\ Starts(r, v)
  /\ clip[v] \in {"ready", "completed"}
  /\ \E evaluated \in {"ready", "completed"} :
       clip' = [clip EXCEPT ![v] = evaluated]
  /\ UNCHANGED <<taskTotals, projectTotals>>
-----------------------------------------------------------------------------
(***************************************************************************)
(* The transaction.                                                        *)
(***************************************************************************)

CountTaskTotal(r) ==
  /\ refresh[r].phase = "written"
  /\ refresh' = [refresh EXCEPT
       ![r].phase = "totalled",
       ![r].own.total = Cardinality(ReadyOf(refresh[r].task))]
  /\ UNCHANGED totalsVars

CountTaskCompleted(r) ==
  /\ refresh[r].phase = "totalled"
  /\ refresh' = [refresh EXCEPT
       ![r].phase = "counted",
       ![r].own.completed = Cardinality(CompletedOf(refresh[r].task))]
  /\ UNCHANGED totalsVars

\* r holds the lock of its task's row.
HoldsLock(r) ==
  refresh[r].phase \in {"locked", "projectTotalled", "projectCounted"}

HoldersOf(t) == {r \in Writers : HoldsLock(r) /\ refresh[r].task = t}

\* Mutated: the update does not wait for a refresh that has updated the row.
UpdateTaskUnlocked(r) ==
  /\ refresh[r].phase = "counted"
  /\ refresh' = [refresh EXCEPT ![r].phase = "locked"]
  /\ UNCHANGED totalsVars

\* The update of the task's row, which others see when it is committed.
UpdateTask(r) ==
  /\ refresh[r].phase = "counted"
  /\ HoldersOf(refresh[r].task) = {}
  /\ refresh' = [refresh EXCEPT ![r].phase = "locked"]
  /\ UNCHANGED totalsVars

CountProjectTotal(r) ==
  /\ refresh[r].phase = "locked"
  /\ refresh' = [refresh EXCEPT
       ![r].phase = "projectTotalled",
       ![r].project.total = Cardinality(ReadyInProject)]
  /\ UNCHANGED totalsVars

CountProjectCompleted(r) ==
  /\ refresh[r].phase = "projectTotalled"
  /\ refresh' = [refresh EXCEPT
       ![r].phase = "projectCounted",
       ![r].project.completed = Cardinality(CompletedInProject)]
  /\ UNCHANGED totalsVars

Ends(r) ==
  refresh' = [refresh EXCEPT ![r] = [@ EXCEPT !.phase = "idle",
                                              !.own = NoTotals,
                                              !.project = NoTotals]]

\* Mutated: the task's totals are left as they were.
CommitProjectOnly(r) ==
  /\ refresh[r].phase = "projectCounted"
  /\ projectTotals' = refresh[r].project
  /\ Ends(r)
  /\ UNCHANGED <<clip, taskTotals>>

\* The update of the project's row, and the commit of both.
CommitRefresh(r) ==
  /\ refresh[r].phase = "projectCounted"
  /\ taskTotals' = [taskTotals EXCEPT ![refresh[r].task] = refresh[r].own]
  /\ projectTotals' = refresh[r].project
  /\ Ends(r)
  /\ UNCHANGED clip

RefreshStep(r) ==
  \/ CountTaskTotal(r) \/ CountTaskCompleted(r) \/ UpdateTask(r)
  \/ CountProjectTotal(r) \/ CountProjectCompleted(r) \/ CommitRefresh(r)
-----------------------------------------------------------------------------
(***************************************************************************)
(* Changes that no refresh follows.                                        *)
(***************************************************************************)

\* The refresh fails or is cut off: the change stays, the totals too.
RefreshFails(r) ==
  /\ refresh[r].phase # "idle"
  /\ Ends(r)
  /\ UNCHANGED totalsVars

\* VideoService.Delete.
DeleteVideo(v) ==
  /\ clip[v] # "deleted"
  /\ clip' = [clip EXCEPT ![v] = "deleted"]
  /\ UNCHANGED <<taskTotals, projectTotals, refresh>>

\* SaveTaskDraft and AssignScorers do not refresh either: they check that the
\* video is not submitted, but a submission may have committed in between.
OverwriteReview(v) ==
  /\ clip[v] = "completed"
  /\ clip' = [clip EXCEPT ![v] = "ready"]
  /\ UNCHANGED <<taskTotals, projectTotals, refresh>>

\* Every change is followed by a refresh that commits.
RefreshedNext ==
  \E r \in Writers :
    \/ \E v \in Clips : ConfirmUpload(r, v) \/ EvaluateVideo(r, v)
    \/ RefreshStep(r)

UnrefreshedNext ==
  \/ \E r \in Writers : RefreshFails(r)
  \/ \E v \in Clips : DeleteVideo(v) \/ OverwriteReview(v)

StatsNext == RefreshedNext \/ UnrefreshedNext

Refreshed == StatsInit /\ [][RefreshedNext]_statsVars
-----------------------------------------------------------------------------
(***************************************************************************)
(* Properties.                                                             *)
(***************************************************************************)

Quiet == \A r \in Writers : refresh[r].phase = "idle"

\* When no handler is at work, the totals of every task are those of its videos.
TaskTotalsSettle ==
  Quiet => \A t \in Tasks :
    taskTotals[t] = [total |-> Cardinality(ReadyOf(t)),
                     completed |-> Cardinality(CompletedOf(t))]

\* The same of the project: "任务 / 项目 `completedVideos` 与整体完成态保持一致"
\* (plans.md, line 240).
ProjectTotalsSettle ==
  Quiet => projectTotals = [total |-> Cardinality(ReadyInProject),
                            completed |-> Cardinality(CompletedInProject)]

\* r is between a change of t's videos and the commit of its totals.
Refreshes(r, t) == refresh[r].phase # "idle" /\ refresh[r].task = t

OneRefreshPerTask ==
  \A t \in Tasks, r, s \in Writers : Refreshes(r, t) /\ Refreshes(s, t) => r = s

\* No two refreshes of different tasks are past their locks: those of one task
\* wait for each other anyway.
TasksTakeTurns ==
  \A r, s \in Writers :
    HoldsLock(r) /\ HoldsLock(s) => refresh[r].task = refresh[s].task

\* The totals of the tasks come out exact if no two refreshes of one task overlap,
\* however those of different tasks do.
TaskTotalsInTurns == []OneRefreshPerTask => []TaskTotalsSettle

\* Those of the project come out exact if no two tasks hold their locks at once,
\* however the refreshes of one task overlap: its lock also orders the counts of the
\* project.
ProjectTotalsInTurns == []TasksTakeTurns => []ProjectTotalsSettle
=============================================================================
