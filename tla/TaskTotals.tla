----------------------------- MODULE TaskTotals -----------------------------
(***************************************************************************)
(* What the totals of a task are about: the videos of one project, as the  *)
(* two counting queries and the analysis query of internal/modules/task    *)
(* see them, and the totals cached in the rows of `tasks` and `projects`.  *)
(***************************************************************************)
EXTENDS Naturals, FiniteSets

CONSTANTS
  Tasks,      \* the tasks of one project
  Clips,      \* its videos
  TaskOf      \* the task of a video

ASSUME TaskTotalsAssumption ==
  /\ IsFiniteSet(Clips)
  /\ TaskOf \in [Clips -> Tasks]

VARIABLES
  clip,           \* status and evaluation_status of a video, as far as counted
  taskTotals,     \* total_videos and completed_videos of a task
  projectTotals   \* the same of the project

totalsVars == <<clip, taskTotals, projectTotals>>

\* "ready" and "completed" are both of status "ready", the second one with
\* evaluation_status "completed".
ClipState == {"uploading", "ready", "completed", "deleted"}

Totals == [total : 0..Cardinality(Clips), completed : 0..Cardinality(Clips)]

NoTotals == [total |-> 0, completed |-> 0]

TotalsTypeOK ==
  /\ clip \in [Clips -> ClipState]
  /\ taskTotals \in [Tasks -> Totals]
  /\ projectTotals \in Totals

TotalsInit ==
  /\ clip = [v \in Clips |-> "uploading"]
  /\ taskTotals = [t \in Tasks |-> NoTotals]
  /\ projectTotals = NoTotals

\* The ready videos of a task (ListAnalysisVideos, countTaskVideoStats).
ReadyOf(t) == {v \in Clips : TaskOf[v] = t /\ clip[v] \in {"ready", "completed"}}

CompletedOf(t) == {v \in Clips : TaskOf[v] = t /\ clip[v] = "completed"}

\* countProjectVideoStats, which joins the tasks of the project.
ReadyInProject == {v \in Clips : clip[v] \in {"ready", "completed"}}

CompletedInProject == {v \in Clips : clip[v] = "completed"}

\* Mutated: a task without videos is ready.
IsTaskAnalysisReadyIfEmpty(t) == taskTotals[t].total = taskTotals[t].completed

\* isTaskAnalysisReady, on the cached totals.
IsTaskAnalysisReady(t) ==
  /\ taskTotals[t].total > 0
  /\ taskTotals[t].total = taskTotals[t].completed

\* What the cached totals stand for: there are videos, and all are evaluated.
AllEvaluated(t) == ReadyOf(t) # {} /\ ReadyOf(t) = CompletedOf(t)
=============================================================================
