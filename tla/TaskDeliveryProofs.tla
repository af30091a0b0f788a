------------------------- MODULE TaskDeliveryProofs -------------------------
(***************************************************************************)
(* Theorems of TaskStats and of TaskDelivery, for any tasks, videos,       *)
(* handlers, callers, workers and batch size: first the totals that the    *)
(* refreshes maintain, then the reports, whatever happens to the totals,   *)
(* and last the reports on exact totals.                                   *)
(***************************************************************************)
EXTENDS TaskDelivery, FiniteSetTheorems, TLAPS

\* A count of videos is a total.
LEMMA CountType ==
  ASSUME NEW S \in SUBSET Clips
  PROVE  Cardinality(S) \in 0..Cardinality(Clips)
<1>1. IsFiniteSet(Clips)
  BY TaskTotalsAssumption
<1>2. /\ IsFiniteSet(S)
      /\ Cardinality(S) <= Cardinality(Clips)
  BY <1>1, FS_Subset
<1>3. Cardinality(S) \in Nat /\ Cardinality(Clips) \in Nat
  BY <1>1, <1>2, FS_CardinalityType
<1> QED
  BY <1>2, <1>3

LEMMA StatsInitType == StatsInit => StatsTypeOK
<1>1. NoTotals \in Totals
  BY CountType, FS_CardinalityType, TaskTotalsAssumption DEF NoTotals, Totals
<1> QED
  BY <1>1 DEF StatsInit, TotalsInit, StatsTypeOK, TotalsTypeOK, Refresh, ClipState

\* A change of a video, or of no video, leaves well-typed variables.
LEMMA ChangeType ==
  ASSUME StatsTypeOK, NEW r \in Writers, NEW v \in Clips,
         ConfirmUpload(r, v) \/ EvaluateVideo(r, v)
  PROVE  StatsTypeOK'
<1>1. TaskOf[v] \in Tasks
  BY TaskTotalsAssumption
<1> QED
  BY <1>1
  DEF StatsTypeOK, TotalsTypeOK, ConfirmUpload, EvaluateVideo, Starts, Refresh,
      ClipState

\* Every statement of a refresh leaves well-typed variables.
LEMMA RefreshStepType ==
  ASSUME StatsTypeOK, NEW r \in Writers, RefreshStep(r) \/ RefreshFails(r)
  PROVE  StatsTypeOK'
<1> USE DEF StatsTypeOK, TotalsTypeOK, totalsVars
<1>1. refresh[r] \in Refresh
  OBVIOUS
<1>2. CASE CountTaskTotal(r)
  <2>1. Cardinality(ReadyOf(refresh[r].task)) \in 0..Cardinality(Clips)
    BY CountType DEF ReadyOf
  <2> QED
    BY <1>1, <1>2, <2>1 DEF CountTaskTotal, Refresh, Totals
<1>3. CASE CountTaskCompleted(r)
  <2>1. Cardinality(CompletedOf(refresh[r].task)) \in 0..Cardinality(Clips)
    BY CountType DEF CompletedOf
  <2> QED
    BY <1>1, <1>3, <2>1 DEF CountTaskCompleted, Refresh, Totals
<1>4. CASE UpdateTask(r)
  BY <1>1, <1>4 DEF UpdateTask, Refresh
<1>5. CASE CountProjectTotal(r)
  <2>1. Cardinality(ReadyInProject) \in 0..Cardinality(Clips)
    BY CountType DEF ReadyInProject
  <2> QED
    BY <1>1, <1>5, <2>1 DEF CountProjectTotal, Refresh, Totals
<1>6. CASE CountProjectCompleted(r)
  <2>1. Cardinality(CompletedInProject) \in 0..Cardinality(Clips)
    BY CountType DEF CompletedInProject
  <2> QED
    BY <1>1, <1>6, <2>1 DEF CountProjectCompleted, Refresh, Totals
<1>7. NoTotals \in Totals
  BY CountType, FS_CardinalityType, TaskTotalsAssumption DEF NoTotals, Totals
<1>8. CASE CommitRefresh(r) \/ RefreshFails(r)
  <2>1. refresh' \in [Writers -> Refresh]
    <3> DEFINE rest == [refresh[r] EXCEPT !.phase = "idle", !.own = NoTotals,
                                          !.project = NoTotals]
    <3>1. rest \in Refresh
      BY <1>1, <1>7 DEF Refresh
    <3>2. refresh' = [refresh EXCEPT ![r] = rest]
      BY <1>8 DEF CommitRefresh, RefreshFails, Ends
    <3> HIDE DEF rest
    <3> QED
      BY <3>1, <3>2
  <2>2. refresh[r].own \in Totals /\ refresh[r].project \in Totals
    BY <1>1 DEF Refresh
  <2> QED
    BY <1>8, <2>1, <2>2 DEF CommitRefresh, RefreshFails
<1> QED
  BY <1>2, <1>3, <1>4, <1>5, <1>6, <1>8 DEF RefreshStep

LEMMA StatsNextType ==
  ASSUME StatsTypeOK, [StatsNext]_statsVars
  PROVE  StatsTypeOK'
<1>1. CASE RefreshedNext
  BY <1>1, ChangeType, RefreshStepType DEF RefreshedNext
<1>2. CASE UnrefreshedNext
  <2>1. ASSUME NEW r \in Writers, RefreshFails(r)
        PROVE  StatsTypeOK'
    BY <2>1, RefreshStepType
  <2>2. ASSUME NEW v \in Clips, DeleteVideo(v) \/ OverwriteReview(v)
        PROVE  StatsTypeOK'
    BY <2>2 DEF DeleteVideo, OverwriteReview, StatsTypeOK, TotalsTypeOK, ClipState
  <2> QED
    BY <1>2, <2>1, <2>2 DEF UnrefreshedNext
<1>3. CASE UNCHANGED statsVars
  BY <1>3 DEF statsVars, totalsVars, StatsTypeOK, TotalsTypeOK
<1> QED
  BY <1>1, <1>2, <1>3 DEF StatsNext

\* The variables keep their types while every change is followed by a refresh.
THEOREM StatsTypeCorrectness == Refreshed => []StatsTypeOK
<1>1. StatsTypeOK /\ [RefreshedNext]_statsVars => StatsTypeOK'
  BY StatsNextType DEF StatsNext
<1> QED
  BY <1>1, StatsInitType, PTL DEF Refreshed
-----------------------------------------------------------------------------
(***************************************************************************)
(* The totals of the project.  The lock of a task's row covers the         *)
(* project's counts and their update, so of two refreshes of one task the  *)
(* one that counts last also writes last; and each change has its own      *)
(* refresh.                                                                *)
(***************************************************************************)

Phase(r) == refresh[r].phase

\* r will still count the ready videos of the project.
ToTotal(r) == Phase(r) \in {"written", "totalled", "counted", "locked"}

Totalled(r) == Phase(r) \in {"projectTotalled", "projectCounted"}

ToCount(r) == ToTotal(r) \/ Phase(r) = "projectTotalled"

Counted(r) == Phase(r) = "projectCounted"

OneHolder ==
  \A r, s \in Writers : HoldsLock(r) /\ HoldsLock(s) => r = s

TotalIsUnderWay ==
  \/ \E r \in Writers : ToTotal(r)
  \/ \E r \in Writers :
       Totalled(r) /\ refresh[r].project.total = Cardinality(ReadyInProject)
  \/ /\ \A r \in Writers : ~ Totalled(r)
     /\ projectTotals.total = Cardinality(ReadyInProject)

CompletedIsUnderWay ==
  \/ \E r \in Writers : ToCount(r)
  \/ \E r \in Writers :
       Counted(r) /\ refresh[r].project.completed = Cardinality(CompletedInProject)
  \/ /\ \A r \in Writers : ~ Counted(r)
     /\ projectTotals.completed = Cardinality(CompletedInProject)

StatsInv == StatsTypeOK /\ OneHolder /\ TotalIsUnderWay /\ CompletedIsUnderWay

LEMMA StatsInvInit == StatsInit => StatsInv
<1> SUFFICES ASSUME StatsInit PROVE StatsInv
  OBVIOUS
<1>1. ReadyInProject = {} /\ CompletedInProject = {}
  BY DEF StatsInit, TotalsInit, ReadyInProject, CompletedInProject
<1>2. Cardinality(ReadyInProject) = 0 /\ Cardinality(CompletedInProject) = 0
  BY <1>1, FS_EmptySet
<1>3. projectTotals.total = 0 /\ projectTotals.completed = 0
  BY DEF StatsInit, TotalsInit, NoTotals
<1>4. \A r \in Writers : Phase(r) = "idle"
  BY DEF StatsInit, Phase
<1> QED
  BY <1>2, <1>3, <1>4, StatsInitType
  DEF StatsInv, OneHolder, HoldsLock, Phase, TotalIsUnderWay, CompletedIsUnderWay, Totalled,
      Counted

\* The lock of a task admits one refresh at a time, so one refresh is past its lock
\* while the tasks take turns.
LEMMA OneHolderStep ==
  ASSUME StatsInv, TasksTakeTurns', RefreshedNext
  PROVE  OneHolder'
<1> USE DEF StatsInv, StatsTypeOK, OneHolder, HoldsLock, Phase
<1>1. ASSUME NEW r \in Writers, UpdateTask(r)
      PROVE  OneHolder'
  <2>1. /\ refresh'[r].task = refresh[r].task
        /\ Phase(r)' = "locked"
        /\ \A s \in Writers : s # r => refresh'[s] = refresh[s]
    BY <1>1 DEF UpdateTask, Refresh
  <2>2. ASSUME NEW s \in Writers, s # r, HoldsLock(s)
        PROVE  FALSE
    <3>1. HoldsLock(s)' /\ HoldsLock(r)'
      BY <2>1, <2>2 DEF HoldsLock, Phase
    <3>2. refresh[s].task = refresh[r].task
      BY <2>1, <2>2, <3>1 DEF TasksTakeTurns
    <3> QED
      BY <1>1, <2>2, <3>2 DEF UpdateTask, HoldersOf, HoldsLock, Phase
  <2> QED
    BY <2>1, <2>2 DEF HoldsLock, Phase
<1>2. ASSUME NEW r \in Writers, NEW v \in Clips,
             ConfirmUpload(r, v) \/ EvaluateVideo(r, v)
      PROVE  OneHolder'
  <2>1. /\ Phase(r)' = "written"
        /\ \A s \in Writers : s # r => refresh'[s] = refresh[s]
    BY <1>2 DEF ConfirmUpload, EvaluateVideo, Starts, Refresh
  <2> QED
    BY <2>1
<1>3. ASSUME NEW r \in Writers,
             \/ CountTaskTotal(r) \/ CountTaskCompleted(r)
             \/ CountProjectTotal(r) \/ CountProjectCompleted(r)
             \/ CommitRefresh(r)
      PROVE  OneHolder'
  <2> DEFINE holders == {"locked", "projectTotalled", "projectCounted"}
  <2>1. Phase(r)' \in holders => Phase(r) \in holders
    BY <1>3 DEF CountTaskTotal, CountTaskCompleted, CountProjectTotal,
                CountProjectCompleted, CommitRefresh, Ends, Refresh
  <2>2. \A s \in Writers : s # r => refresh'[s] = refresh[s]
    BY <1>3 DEF CountTaskTotal, CountTaskCompleted, CountProjectTotal,
                CountProjectCompleted, CommitRefresh, Ends
  <2> QED
    BY <2>1, <2>2
<1> QED
  BY <1>1, <1>2, <1>3 DEF RefreshedNext, RefreshStep

\* A change, or a refresh that still has to count the project, is under way.
LEMMA PendingStep ==
  ASSUME StatsTypeOK, NEW r \in Writers,
         \/ \E v \in Clips : ConfirmUpload(r, v) \/ EvaluateVideo(r, v)
         \/ CountTaskTotal(r) \/ CountTaskCompleted(r) \/ UpdateTask(r)
  PROVE  TotalIsUnderWay' /\ CompletedIsUnderWay'
<1>1. ToTotal(r)'
  BY DEF StatsTypeOK, ToTotal, Phase, ConfirmUpload, EvaluateVideo, Starts,
         CountTaskTotal, CountTaskCompleted, UpdateTask, Refresh
<1> QED
  BY <1>1 DEF TotalIsUnderWay, CompletedIsUnderWay, ToCount

LEMMA CountProjectTotalStep ==
  ASSUME StatsInv, NEW r \in Writers, CountProjectTotal(r)
  PROVE  TotalIsUnderWay' /\ CompletedIsUnderWay'
<1>1. /\ Phase(r)' = "projectTotalled"
      /\ refresh'[r].project.total = Cardinality(ReadyInProject)
  BY DEF StatsInv, StatsTypeOK, Phase, CountProjectTotal, Refresh, Totals
<1>2. ReadyInProject' = ReadyInProject
  BY DEF CountProjectTotal, totalsVars, ReadyInProject
<1> QED
  BY <1>1, <1>2 DEF TotalIsUnderWay, CompletedIsUnderWay, Totalled, ToCount

LEMMA CountProjectCompletedStep ==
  ASSUME StatsInv, NEW r \in Writers, CountProjectCompleted(r)
  PROVE  TotalIsUnderWay' /\ CompletedIsUnderWay'
<1>1. /\ Phase(r) = "projectTotalled"
      /\ Phase(r)' = "projectCounted"
      /\ refresh'[r].project.completed = Cardinality(CompletedInProject)
      /\ refresh'[r].project.total = refresh[r].project.total
      /\ \A s \in Writers : s # r => refresh'[s] = refresh[s]
  BY DEF StatsInv, StatsTypeOK, Phase, CountProjectCompleted, Refresh, Totals
<1>2. /\ ReadyInProject' = ReadyInProject
      /\ CompletedInProject' = CompletedInProject
  BY DEF CountProjectCompleted, totalsVars, ReadyInProject, CompletedInProject
<1>3. CompletedIsUnderWay'
  BY <1>1, <1>2 DEF CompletedIsUnderWay, Counted
<1>4. CASE \E s \in Writers : ToTotal(s)
  <2>1. PICK s \in Writers : ToTotal(s)
    BY <1>4
  <2>2. s # r
    BY <1>1, <2>1 DEF ToTotal
  <2>3. ToTotal(s)'
    BY <1>1, <2>1, <2>2 DEF ToTotal, Phase
  <2> QED
    BY <1>3, <2>3 DEF TotalIsUnderWay
<1>5. CASE \E s \in Writers : /\ Totalled(s)
                              /\ refresh[s].project.total = Cardinality(ReadyInProject)
  <2>1. PICK s \in Writers : /\ Totalled(s)
                             /\ refresh[s].project.total = Cardinality(ReadyInProject)
    BY <1>5
  <2>2. Totalled(s)' /\ refresh'[s].project.total = Cardinality(ReadyInProject)'
    BY <1>1, <1>2, <2>1 DEF Totalled, Phase
  <2> QED
    BY <1>3, <2>2 DEF TotalIsUnderWay
<1> QED
  BY <1>1, <1>4, <1>5 DEF StatsInv, TotalIsUnderWay, Totalled

LEMMA CommitStep ==
  ASSUME StatsInv, NEW r \in Writers, CommitRefresh(r)
  PROVE  TotalIsUnderWay' /\ CompletedIsUnderWay'
<1>1. /\ Phase(r) = "projectCounted"
      /\ Phase(r)' = "idle"
      /\ projectTotals' = refresh[r].project
      /\ \A s \in Writers : s # r => refresh'[s] = refresh[s]
  BY DEF StatsInv, StatsTypeOK, Phase, CommitRefresh, Ends, Refresh
<1>2. /\ ReadyInProject' = ReadyInProject
      /\ CompletedInProject' = CompletedInProject
  BY DEF CommitRefresh, ReadyInProject, CompletedInProject
<1>3. \A s \in Writers : s # r => ~ Totalled(s) /\ ~ Counted(s)
  BY <1>1 DEF StatsInv, OneHolder, HoldsLock, Phase, Totalled, Counted
<1>4. \A s \in Writers : ~ Totalled(s)' /\ ~ Counted(s)'
  BY <1>1, <1>3 DEF Totalled, Counted, Phase
<1>5. \A s \in Writers : ToCount(s) => ToCount(s)' /\ (ToTotal(s) => ToTotal(s)')
  BY <1>1 DEF ToCount, ToTotal, Phase
<1>6. TotalIsUnderWay'
  BY <1>1, <1>2, <1>3, <1>4, <1>5
  DEF StatsInv, TotalIsUnderWay, ToCount, Totalled
<1>7. CompletedIsUnderWay'
  BY <1>1, <1>2, <1>3, <1>4, <1>5
  DEF StatsInv, CompletedIsUnderWay, Counted
<1> QED
  BY <1>6, <1>7

\* When no handler is at work, the totals of the project are those of its videos,
\* however the refreshes of one task overlapped, and whatever those of the others
\* did before they took their locks.
THEOREM ProjectTotalsFollowTurns == Refreshed => ProjectTotalsInTurns
<1>1. StatsInv /\ TasksTakeTurns' /\ [RefreshedNext]_statsVars => StatsInv'
  <2> SUFFICES ASSUME StatsInv, TasksTakeTurns', [RefreshedNext]_statsVars PROVE StatsInv'
    OBVIOUS
  <2>1. StatsTypeOK'
    BY StatsNextType DEF StatsInv, StatsNext
  <2>2. CASE RefreshedNext
    <3>1. OneHolder'
      BY <2>2, OneHolderStep
    <3>2. TotalIsUnderWay' /\ CompletedIsUnderWay'
      <4>1. PICK r \in Writers :
              \/ \E v \in Clips : ConfirmUpload(r, v) \/ EvaluateVideo(r, v)
              \/ RefreshStep(r)
        BY <2>2 DEF RefreshedNext
      <4> QED
        BY <4>1, PendingStep, CountProjectTotalStep, CountProjectCompletedStep,
           CommitStep
        DEF RefreshStep, StatsInv
    <3> QED
      BY <2>1, <3>1, <3>2 DEF StatsInv
  <2>3. CASE UNCHANGED statsVars
    BY <2>1, <2>3
    DEF statsVars, totalsVars, StatsInv, OneHolder, HoldsLock, TotalIsUnderWay,
        CompletedIsUnderWay, ToTotal, ToCount, Totalled, Counted, Phase,
        ReadyInProject, CompletedInProject
  <2> QED
    BY <2>2, <2>3
<1>2. StatsInv => ProjectTotalsSettle
  <2> SUFFICES ASSUME StatsInv, Quiet
               PROVE  projectTotals = [total |-> Cardinality(ReadyInProject),
                                       completed |-> Cardinality(CompletedInProject)]
    BY DEF ProjectTotalsSettle
  <2>1. \A r \in Writers : Phase(r) = "idle"
    BY DEF Quiet, Phase
  <2>2. /\ projectTotals.total = Cardinality(ReadyInProject)
        /\ projectTotals.completed = Cardinality(CompletedInProject)
    BY <2>1
    DEF StatsInv, TotalIsUnderWay, CompletedIsUnderWay, ToTotal, ToCount,
        Totalled, Counted
  <2>3. projectTotals \in Totals
    BY DEF StatsInv, StatsTypeOK, TotalsTypeOK
  <2> QED
    BY <2>2, <2>3 DEF Totals
<1> QED
  BY <1>1, <1>2, StatsInvInit, PTL DEF Refreshed, ProjectTotalsInTurns
-----------------------------------------------------------------------------
(***************************************************************************)
(* The totals of a task.  Its counts are read before its row is locked, so *)
(* two refreshes of one task may lose a change (AnalysisReport's run of    *)
(* stale totals); the refreshes of different tasks may overlap freely.     *)
(***************************************************************************)

TotalsOf(t) == [total |-> Cardinality(ReadyOf(t)),
                completed |-> Cardinality(CompletedOf(t))]

\* What r has counted of its task is still so.
CountsAreCurrent(r) ==
  \/ Phase(r) = "written"
  \/ /\ Phase(r) = "totalled"
     /\ refresh[r].own.total = Cardinality(ReadyOf(refresh[r].task))
  \/ /\ Phase(r) \in {"counted", "locked", "projectTotalled", "projectCounted"}
     /\ refresh[r].own = TotalsOf(refresh[r].task)

TotalsAreExact(t) ==
  IF \E r \in Writers : Refreshes(r, t)
    THEN \A r \in Writers : Refreshes(r, t) => CountsAreCurrent(r)
    ELSE taskTotals[t] = TotalsOf(t)

TaskTotalsInv ==
  /\ StatsTypeOK
  /\ \A t \in Tasks : TotalsAreExact(t)

LEMMA TaskTotalsInit == StatsInit => TaskTotalsInv
<1> SUFFICES ASSUME StatsInit PROVE TaskTotalsInv
  OBVIOUS
<1>1. ASSUME NEW t \in Tasks
      PROVE  TotalsAreExact(t)
  <2>1. ReadyOf(t) = {} /\ CompletedOf(t) = {}
    BY DEF StatsInit, TotalsInit, ReadyOf, CompletedOf
  <2>2. taskTotals[t] = TotalsOf(t)
    BY <2>1, FS_EmptySet DEF StatsInit, TotalsInit, NoTotals, TotalsOf
  <2> QED
    BY <2>2 DEF StatsInit, TotalsAreExact, Refreshes, Phase
<1> QED
  BY <1>1, StatsInitType DEF TaskTotalsInv

\* A change makes the refresh of its task pending, and no other task's totals
\* are touched by it.
LEMMA TotalsAfterChange ==
  ASSUME TaskTotalsInv, OneRefreshPerTask', NEW r \in Writers, NEW v \in Clips,
         ConfirmUpload(r, v) \/ EvaluateVideo(r, v)
  PROVE  \A t \in Tasks : TotalsAreExact(t)'
<1> USE DEF TaskTotalsInv, StatsTypeOK, TotalsTypeOK
<1>1. /\ Phase(r) = "idle"
      /\ Phase(r)' = "written"
      /\ refresh'[r].task = TaskOf[v]
      /\ \A s \in Writers : s # r => refresh'[s] = refresh[s]
      /\ taskTotals' = taskTotals
      /\ \A w \in Clips : w # v => clip'[w] = clip[w]
  BY DEF ConfirmUpload, EvaluateVideo, Starts, Refresh, Phase
<1> SUFFICES ASSUME NEW t \in Tasks
             PROVE  TotalsAreExact(t)'
  OBVIOUS
<1>2. CASE t = TaskOf[v]
  <2>1. Refreshes(r, t)'
    BY <1>1, <1>2 DEF Refreshes, Phase
  <2>2. \A s \in Writers : Refreshes(s, t)' => s = r
    BY <2>1 DEF OneRefreshPerTask
  <2>3. CountsAreCurrent(r)'
    BY <1>1 DEF CountsAreCurrent, Phase
  <2> QED
    BY <2>1, <2>2, <2>3 DEF TotalsAreExact
<1>3. CASE t # TaskOf[v]
  <2>1. ReadyOf(t)' = ReadyOf(t) /\ CompletedOf(t)' = CompletedOf(t)
    BY <1>1, <1>3 DEF ReadyOf, CompletedOf
  <2>2. ~ Refreshes(r, t) /\ ~ Refreshes(r, t)'
    BY <1>1, <1>3 DEF Refreshes, Phase
  <2>3. ASSUME NEW s \in Writers, s # r
        PROVE  /\ Refreshes(s, t)' = Refreshes(s, t)
               /\ Refreshes(s, t) => CountsAreCurrent(s)' = CountsAreCurrent(s)
    BY <1>1, <2>1, <2>3 DEF Refreshes, CountsAreCurrent, TotalsOf, Phase
  <2> QED
    BY <1>1, <2>1, <2>2, <2>3 DEF TotalsAreExact, TotalsOf
<1> QED
  BY <1>2, <1>3

\* A statement of a refresh keeps what it has counted current; the commit
\* makes it the totals of its task.
LEMMA TotalsAfterStatement ==
  ASSUME TaskTotalsInv, OneRefreshPerTask, NEW r \in Writers, RefreshStep(r)
  PROVE  \A t \in Tasks : TotalsAreExact(t)'
<1> USE DEF TaskTotalsInv, StatsTypeOK, TotalsTypeOK
<1>0. PICK own \in Tasks : own = refresh[r].task
  BY DEF Refresh
<1>1. /\ refresh[r] \in Refresh
      /\ Phase(r) # "idle"
      /\ \A s \in Writers : s # r => refresh'[s] = refresh[s]
      /\ refresh'[r].task = own
      /\ clip' = clip
  <2> USE <1>0 DEF Phase
  <2>1. refresh[r] \in Refresh
    OBVIOUS
  <2>2. CASE CommitRefresh(r)
    BY <2>1, <2>2 DEF CommitRefresh, Ends, Refresh
  <2>3. CASE CountTaskTotal(r) \/ CountTaskCompleted(r) \/ UpdateTask(r)
    BY <2>1, <2>3 DEF CountTaskTotal, CountTaskCompleted, UpdateTask, totalsVars, Refresh
  <2>4. CASE CountProjectTotal(r) \/ CountProjectCompleted(r)
    BY <2>1, <2>4 DEF CountProjectTotal, CountProjectCompleted, totalsVars, Refresh
  <2> QED
    BY <2>2, <2>3, <2>4 DEF RefreshStep
<1>2. /\ \A t : ReadyOf(t)' = ReadyOf(t) /\ CompletedOf(t)' = CompletedOf(t)
      /\ \A t : TotalsOf(t)' = TotalsOf(t)
  BY <1>1 DEF ReadyOf, CompletedOf, TotalsOf
<1>3. CountsAreCurrent(r)
  BY <1>0, <1>1 DEF TotalsAreExact, Refreshes, Phase
<1>4. \A s \in Writers : Refreshes(s, own) => s = r
  BY <1>0, <1>1 DEF OneRefreshPerTask, Refreshes, Phase
<1>5. \A s \in Writers : Refreshes(s, own)' => s = r
  BY <1>0, <1>1, <1>4 DEF Refreshes, Phase
<1>6. CASE CommitRefresh(r)
  <2>1. /\ taskTotals' = [taskTotals EXCEPT ![own] = refresh[r].own]
        /\ refresh[r].own = TotalsOf(own)
        /\ Phase(r)' = "idle"
    BY <1>0, <1>1, <1>3, <1>6 DEF CommitRefresh, CountsAreCurrent, Ends, Phase
  <2>2. ~ \E s \in Writers : Refreshes(s, own)'
    BY <1>5, <2>1 DEF Refreshes, Phase
  <2>3. TotalsAreExact(own)'
    BY <1>0, <1>1, <1>2, <2>1, <2>2 DEF TotalsAreExact
  <2>4. \A t \in Tasks : t # own => taskTotals'[t] = taskTotals[t]
    BY <2>1
  <2>5. ASSUME NEW t \in Tasks, t # own
        PROVE  TotalsAreExact(t)'
    <3>1. \A s \in Writers : Refreshes(s, t)' = Refreshes(s, t)
      BY <1>0, <1>1, <2>5 DEF Refreshes, Phase
    <3>2. \A s \in Writers : Refreshes(s, t) => s # r
      BY <1>0, <2>5 DEF Refreshes, Phase
    <3>3. \A s \in Writers : Refreshes(s, t) => CountsAreCurrent(s)' = CountsAreCurrent(s)
      BY <1>1, <1>2, <3>2 DEF CountsAreCurrent, Phase
    <3> QED
      BY <1>2, <2>4, <2>5, <3>1, <3>3 DEF TotalsAreExact
  <2> QED
    BY <1>0, <2>3, <2>5
<1>7. CASE ~ CommitRefresh(r)
  <2>1. Phase(r)' # "idle" /\ taskTotals' = taskTotals
    <3>1. CASE CountTaskTotal(r) \/ CountTaskCompleted(r) \/ UpdateTask(r)
      BY <1>1, <3>1
      DEF CountTaskTotal, CountTaskCompleted, UpdateTask, totalsVars, Phase, Refresh
    <3>2. CASE CountProjectTotal(r) \/ CountProjectCompleted(r)
      BY <1>1, <3>2
      DEF CountProjectTotal, CountProjectCompleted, totalsVars, Phase, Refresh
    <3> QED
      BY <1>7, <3>1, <3>2 DEF RefreshStep
  <2>2. CountsAreCurrent(r)'
    <3>1. CASE CountTaskTotal(r)
      BY <1>0, <1>1, <1>2, <3>1 DEF CountTaskTotal, CountsAreCurrent, Phase, Refresh, Totals
    <3>2. CASE CountTaskCompleted(r)
      <4>1. /\ Phase(r) = "totalled"
            /\ Phase(r)' = "counted"
            /\ refresh[r].own \in Totals
            /\ refresh'[r].own = [refresh[r].own EXCEPT
                                    !.completed = Cardinality(CompletedOf(own))]
        BY <1>0, <1>1, <3>2 DEF CountTaskCompleted, Phase, Refresh
      <4>2. refresh[r].own.total = Cardinality(ReadyOf(own))
        BY <1>0, <1>3, <4>1 DEF CountsAreCurrent
      <4>3. refresh'[r].own = TotalsOf(own)
        BY <4>1, <4>2 DEF Totals, TotalsOf
      <4> QED
        BY <1>0, <1>1, <1>2, <4>1, <4>3 DEF CountsAreCurrent
    <3>3. CASE UpdateTask(r) \/ CountProjectTotal(r) \/ CountProjectCompleted(r)
      <4>1. /\ Phase(r) \in {"counted", "locked", "projectTotalled"}
            /\ Phase(r)' \in {"locked", "projectTotalled", "projectCounted"}
            /\ refresh'[r].own = refresh[r].own
        BY <1>0, <1>1, <3>3
        DEF UpdateTask, CountProjectTotal, CountProjectCompleted, Phase, Refresh
      <4> QED
        BY <1>0, <1>1, <1>2, <1>3, <4>1 DEF CountsAreCurrent
    <3> QED
      BY <1>7, <3>1, <3>2, <3>3 DEF RefreshStep
  <2> SUFFICES ASSUME NEW t \in Tasks
               PROVE  TotalsAreExact(t)'
    OBVIOUS
  <2>3. CASE t = own
    <3>1. Refreshes(r, t)'
      BY <1>0, <1>1, <2>1, <2>3 DEF Refreshes, Phase
    <3> QED
      BY <1>5, <2>2, <2>3, <3>1 DEF TotalsAreExact
  <2>4. CASE t # own
    <3>1. \A s \in Writers : /\ Refreshes(s, t)' = Refreshes(s, t)
                             /\ Refreshes(s, t) => CountsAreCurrent(s)' = CountsAreCurrent(s)
      BY <1>0, <1>1, <1>2, <2>4 DEF Refreshes, CountsAreCurrent, Phase
    <3> QED
      BY <1>0, <1>2, <2>1, <3>1 DEF TotalsAreExact
  <2> QED
    BY <2>3, <2>4
<1> QED
  BY <1>6, <1>7

LEMMA TaskTotalsStep ==
  ASSUME TaskTotalsInv, OneRefreshPerTask, OneRefreshPerTask',
         [RefreshedNext]_statsVars
  PROVE  TaskTotalsInv'
<1>1. StatsTypeOK'
  BY StatsNextType DEF TaskTotalsInv, StatsNext
<1>2. CASE RefreshedNext
  <2>1. \A t \in Tasks : TotalsAreExact(t)'
    BY <1>2, TotalsAfterChange, TotalsAfterStatement DEF RefreshedNext
  <2> QED
    BY <1>1, <2>1 DEF TaskTotalsInv
<1>3. CASE UNCHANGED statsVars
  BY <1>1, <1>3
  DEF statsVars, totalsVars, TaskTotalsInv, TotalsAreExact, Refreshes,
      CountsAreCurrent, TotalsOf, Phase, ReadyOf, CompletedOf
<1> QED
  BY <1>2, <1>3

LEMMA TaskTotalsSettled == TaskTotalsInv => TaskTotalsSettle
BY DEF TaskTotalsInv, TotalsAreExact, TotalsOf, Refreshes, Phase, TaskTotalsSettle,
       Quiet

\* The totals of every task are those of its videos whenever no handler is at
\* work, if no two refreshes of one task ever overlap: what other tasks'
\* refreshes do meanwhile, the lock and the order of commits do not matter.
THEOREM TaskTotalsFollowTurns == Refreshed => TaskTotalsInTurns
<1>1. TaskTotalsInv /\ OneRefreshPerTask /\ OneRefreshPerTask'
      /\ [RefreshedNext]_statsVars => TaskTotalsInv'
  BY TaskTotalsStep
<1> QED
  BY <1>1, TaskTotalsInit, TaskTotalsSettled, PTL DEF Refreshed, TaskTotalsInTurns
-----------------------------------------------------------------------------
(***************************************************************************)
(* The reports: their inductive invariant.                                 *)
(***************************************************************************)

\* Reports are numbered without a gap, and are reports of tasks.
MadeInOrder ==
  /\ \A e \in Made : report[e].task \in Tasks
  /\ \A e \in Made : \A f \in ReportId : f < e => f \in Made

\* A task with reports has a last one.
LastExists ==
  \A t \in Tasks : ReportsOf(t) # {} => \E e \in ReportsOf(t) : IsLatest(e)

\* A document is stored before its report is called ready.
StoredFirst ==
  \A w \in ReportWorkers, e \in ReportId : run[w][e] = "put" => e \in stored

ReportInv ==
  /\ ReportTypeOK
  /\ MadeInOrder
  /\ LastExists
  /\ OneActiveReport
  /\ OneWorkerPerReport
  /\ StoredFirst
  /\ ReadyReportsAreStored

LEMMA ReportInvInit == ReportInit => ReportInv
BY DEF ReportInit, ReportInv, ReportTypeOK, Report, RunPhase, MadeInOrder,
       LastExists, OneActiveReport, OneWorkerPerReport, StoredFirst,
       ReadyReportsAreStored, Made, ReportsOf, Working
-----------------------------------------------------------------------------
(***************************************************************************)
(* What happens to the records.                                            *)
(***************************************************************************)

\* A change of a report's status leaves the order of the reports alone.
LEMMA StatusChange ==
  ASSUME ReportTypeOK, NEW e \in Made,
         NEW status \in {"queued", "processing", "ready", "failed"},
         report' = [report EXCEPT ![e].status = status]
  PROVE  /\ report' \in [ReportId -> Report]
         /\ Made' = Made
         /\ \A f \in ReportId : report'[f].task = report[f].task
         /\ \A f \in ReportId : f # e => report'[f] = report[f]
         /\ report'[e].status = status
         /\ \A t : ReportsOf(t)' = ReportsOf(t)
         /\ \A f \in ReportId : IsLatest(f)' = IsLatest(f)
<1>1. e \in ReportId
  BY DEF Made
<1>2. /\ report' \in [ReportId -> Report]
      /\ \A f \in ReportId : report'[f].task = report[f].task
      /\ \A f \in ReportId : f # e => report'[f] = report[f]
      /\ report'[e].status = status
  BY <1>1 DEF ReportTypeOK, Report
<1>3. Made' = Made
  BY <1>2 DEF Made
<1>4. \A t : ReportsOf(t)' = ReportsOf(t)
  BY <1>2, <1>3 DEF ReportsOf, Made
<1>5. \A f \in ReportId : IsLatest(f)' = IsLatest(f)
  BY <1>2, <1>4 DEF IsLatest
<1> QED
  BY <1>2, <1>3, <1>4, <1>5

\* A new report is the last one of its task, and the first that counts.
LEMMA NewReport ==
  ASSUME ReportInv, NEW t \in Tasks, ~ HasActive(t), NEW e \in ReportId \ Made,
         \A f \in 1..(e - 1) : f \in Made,
         report' = [report EXCEPT ![e] = [task |-> t, status |-> "queued"]]
  PROVE  /\ report' \in [ReportId -> Report]
         /\ MadeInOrder'
         /\ LastExists'
         /\ OneActiveReport'
         /\ ReportsOf(t)' = ReportsOf(t) \cup {e}
         /\ IsLatest(e)'
         /\ \A s \in Tasks : s # t => ReportsOf(s)' = ReportsOf(s)
         /\ \A f \in Made : report[f].task # t => IsLatest(f)' = IsLatest(f)
         /\ \A f \in ReportId : f # e => report'[f] = report[f]
         /\ report'[e] = [task |-> t, status |-> "queued"]
<1> USE DEF ReportInv
<1>1. /\ report' \in [ReportId -> Report]
      /\ \A f \in ReportId : f # e => report'[f] = report[f]
      /\ report'[e] = [task |-> t, status |-> "queued"]
  BY DEF ReportTypeOK, Report
<1>2. Made' = Made \cup {e}
  BY <1>1 DEF Made
<1>3. \A f \in Made : f < e
  <2> SUFFICES ASSUME NEW f \in Made, ~ (f < e) PROVE FALSE
    OBVIOUS
  <2>1. f \in ReportId /\ e \in ReportId /\ f # e
    BY DEF Made
  <2>2. e < f
    BY <2>1, AnalysisReportAssumption DEF ReportId
  <2> QED
    BY <2>1, <2>2 DEF MadeInOrder
<1>4. MadeInOrder'
  BY <1>1, <1>2, <1>3, AnalysisReportAssumption DEF MadeInOrder, Made, ReportId
<1>5. ReportsOf(t)' = ReportsOf(t) \cup {e}
  BY <1>1, <1>2 DEF ReportsOf, Made
<1>6. \A s \in Tasks : s # t => ReportsOf(s)' = ReportsOf(s)
  BY <1>1, <1>2 DEF ReportsOf, Made
<1>7. IsLatest(e)'
  <2>1. \A f \in ReportsOf(t)' : f <= e
    BY <1>3, <1>5, AnalysisReportAssumption DEF ReportsOf, Made, ReportId
  <2> QED
    BY <1>1, <2>1 DEF IsLatest
<1>8. \A f \in Made : report[f].task # t => IsLatest(f)' = IsLatest(f)
  <2> SUFFICES ASSUME NEW f \in Made, report[f].task # t
               PROVE  IsLatest(f)' = IsLatest(f)
    OBVIOUS
  <2>1. f \in ReportId /\ f # e /\ report[f].task \in Tasks
    BY DEF Made, MadeInOrder
  <2>2. report'[f] = report[f]
    BY <1>1, <2>1
  <2>3. ReportsOf(report[f].task)' = ReportsOf(report[f].task)
    BY <1>1, <1>2, <2>1, <2>2 DEF ReportsOf, Made
  <2> QED
    BY <2>3 DEF IsLatest
<1>9. LastExists'
  <2> SUFFICES ASSUME NEW s \in Tasks, ReportsOf(s)' # {}
               PROVE  \E f \in ReportsOf(s)' : IsLatest(f)'
    BY DEF LastExists
  <2>1. CASE s = t
    BY <1>5, <1>7, <2>1
  <2>2. CASE s # t
    <3>1. PICK f \in ReportsOf(s) : IsLatest(f)
      BY <1>6, <2>2 DEF LastExists
    <3> QED
      BY <1>6, <1>8, <2>2, <3>1 DEF ReportsOf
  <2> QED
    BY <2>1, <2>2
<1>10. OneActiveReport'
  <2> SUFFICES ASSUME NEW f \in Made', report'[f].status \in Active
               PROVE  IsLatest(f)'
    BY DEF OneActiveReport
  <2>1. CASE f = e
    BY <1>7, <2>1
  <2>2. CASE f # e
    <3>1. f \in Made /\ report'[f] = report[f] /\ f \in ReportId
      BY <1>1, <1>2, <2>2 DEF Made
    <3>2. IsLatest(f)
      BY <3>1 DEF OneActiveReport
    <3>3. report[f].task # t
      BY <3>1, <3>2 DEF HasActive, ReportsOf
    <3> QED
      BY <1>8, <3>1, <3>2, <3>3
  <2> QED
    BY <2>1, <2>2
<1> QED
  BY <1>1, <1>4, <1>5, <1>6, <1>7, <1>8, <1>9, <1>10
-----------------------------------------------------------------------------
(***************************************************************************)
(* Every step keeps the invariant.                                         *)
(***************************************************************************)

\* A step that changes no report keeps what is said of reports alone.
LEMMA SameReports ==
  ASSUME ReportInv, UNCHANGED report
  PROVE  MadeInOrder' /\ LastExists' /\ OneActiveReport'
BY DEF ReportInv, MadeInOrder, LastExists, OneActiveReport, Made, ReportsOf, IsLatest

\* A status that changes without becoming active again keeps it, too.
LEMMA StatusKeepsOrder ==
  ASSUME ReportInv, NEW e \in Made,
         NEW status \in {"queued", "processing", "ready", "failed"},
         status \in Active => report[e].status \in Active,
         report' = [report EXCEPT ![e].status = status]
  PROVE  MadeInOrder' /\ LastExists' /\ OneActiveReport'
<1> USE DEF ReportInv
<1>1. /\ Made' = Made
      /\ \A f \in ReportId : report'[f].task = report[f].task
      /\ \A f \in ReportId : f # e => report'[f] = report[f]
      /\ report'[e].status = status
      /\ \A t : ReportsOf(t)' = ReportsOf(t)
      /\ \A f \in ReportId : IsLatest(f)' = IsLatest(f)
  BY StatusChange
<1>2. Made \subseteq ReportId /\ \A t : ReportsOf(t) \subseteq ReportId
  BY DEF Made, ReportsOf
<1>3. MadeInOrder'
  BY <1>1, <1>2 DEF MadeInOrder
<1>4. LastExists'
  <2> SUFFICES ASSUME NEW t \in Tasks, ReportsOf(t)' # {}
               PROVE  \E f \in ReportsOf(t)' : IsLatest(f)'
    BY DEF LastExists
  <2>1. ReportsOf(t)' = ReportsOf(t)
    BY <1>1
  <2>2. PICK f \in ReportsOf(t) : IsLatest(f)
    BY <2>1 DEF LastExists
  <2>3. f \in ReportId /\ IsLatest(f)' = IsLatest(f)
    BY <1>1, <1>2
  <2> QED
    BY <2>1, <2>2, <2>3
<1>5. OneActiveReport'
  <2> SUFFICES ASSUME NEW f \in Made', report'[f].status \in Active
               PROVE  IsLatest(f)'
    BY DEF OneActiveReport
  <2>1. f \in Made /\ f \in ReportId /\ IsLatest(f)' = IsLatest(f)
    BY <1>1, <1>2
  <2>2. report[f].status \in Active
    BY <1>1, <2>1
  <2> QED
    BY <2>1, <2>2 DEF OneActiveReport
<1> QED
  BY <1>3, <1>4, <1>5

LEMMA RequestKeepsReportInv ==
  ASSUME ReportInv, NEW c \in Callers,
         \/ \E t \in Tasks :
              GenerateAnalysisReport(c, t) \/ EnsureQueuedAnalysisReport(c, t)
         \/ GenerateFails(c)
  PROVE  ReportInv'
<1> USE DEF ReportInv
<1>1. CASE \/ \E t \in Tasks : GenerateAnalysisReport(c, t)
           \/ GenerateFails(c)
  <2>1. UNCHANGED <<report, run, stored>> /\ passed' \in [Callers -> SUBSET Tasks]
    BY <1>1 DEF GenerateAnalysisReport, GenerateFails, ReportTypeOK
  <2> QED
    BY <2>1, SameReports
    DEF ReportTypeOK, OneWorkerPerReport, StoredFirst, ReadyReportsAreStored
<1>2. ASSUME NEW t \in Tasks, EnsureQueuedAnalysisReport(c, t)
      PROVE  ReportInv'
  <2>1. UNCHANGED <<run, stored>> /\ passed' \in [Callers -> SUBSET Tasks]
    BY <1>2 DEF EnsureQueuedAnalysisReport, ReportTypeOK
  <2>2. CASE UNCHANGED report
    BY <2>1, <2>2, SameReports
    DEF ReportTypeOK, OneWorkerPerReport, StoredFirst, ReadyReportsAreStored
  <2>3. ASSUME ~ HasActive(t), NEW e \in ReportId \ Made,
               \A f \in 1..(e - 1) : f \in Made,
               report' = [report EXCEPT ![e] = [task |-> t, status |-> "queued"]]
        PROVE  ReportInv'
    <3>1. /\ report' \in [ReportId -> Report]
          /\ MadeInOrder' /\ LastExists' /\ OneActiveReport'
          /\ \A f \in ReportId : f # e => report'[f] = report[f]
          /\ report'[e].status = "queued"
      BY <2>3, NewReport
    <3>2. ReportTypeOK'
      BY <2>1, <3>1 DEF ReportTypeOK
    <3>3. OneWorkerPerReport'
      <4>1. \A w \in ReportWorkers : run[w][e] \notin Working
        BY <2>3 DEF OneWorkerPerReport, Made
      <4> QED
        BY <2>1, <3>1, <4>1 DEF OneWorkerPerReport
    <3>4. StoredFirst' /\ ReadyReportsAreStored'
      BY <2>1, <3>1 DEF StoredFirst, ReadyReportsAreStored
    <3> QED
      BY <3>1, <3>2, <3>3, <3>4
  <2> QED
    BY <1>2, <2>2, <2>3 DEF EnsureQueuedAnalysisReport
<1> QED
  BY <1>1, <1>2

\* A goroutine changes its own phase only.
LEMMA MovesAlone ==
  ASSUME ReportTypeOK, NEW w \in ReportWorkers, NEW e \in ReportId,
         NEW from, NEW to \in RunPhase, Moves(w, e, from, to)
  PROVE  /\ run[w][e] = from
         /\ run'[w][e] = to
         /\ run' \in [ReportWorkers -> [ReportId -> RunPhase]]
         /\ \A v \in ReportWorkers, f \in ReportId :
              v # w \/ f # e => run'[v][f] = run[v][f]
BY DEF ReportTypeOK, Moves

LEMMA ListKeepsReportInv ==
  ASSUME ReportInv, NEW w \in ReportWorkers, ProcessQueuedReports(w)
  PROVE  ReportInv'
<1> USE DEF ReportInv
<1>1. /\ UNCHANGED <<report, passed, stored>>
      /\ run' \in [ReportWorkers -> [ReportId -> RunPhase]]
      /\ \A v \in ReportWorkers, f \in ReportId :
           run'[v][f] = run[v][f] \/ run'[v][f] \in {"idle", "listed"}
  BY DEF ProcessQueuedReports, ReportTypeOK, RunPhase
<1> QED
  BY <1>1, SameReports
  DEF ReportTypeOK, OneWorkerPerReport, StoredFirst, ReadyReportsAreStored, Working

\* A goroutine that goes on, or ends, without touching a report.
LEMMA QuietMoveKeepsReportInv ==
  ASSUME ReportInv, NEW w \in ReportWorkers, NEW e \in ReportId,
         NEW from, NEW to \in RunPhase, Moves(w, e, from, to),
         to \in Working => from \in Working,
         UNCHANGED <<report, passed>>,
         \/ stored' = stored /\ to # "put"
         \/ stored' = stored \cup {e}
  PROVE  ReportInv'
<1> USE DEF ReportInv
<1>1. /\ run[w][e] = from
      /\ run'[w][e] = to
      /\ run' \in [ReportWorkers -> [ReportId -> RunPhase]]
      /\ \A v \in ReportWorkers, f \in ReportId :
           v # w \/ f # e => run'[v][f] = run[v][f]
  BY MovesAlone
<1>2. ReportTypeOK'
  BY <1>1 DEF ReportTypeOK
<1>3. OneWorkerPerReport'
  BY <1>1 DEF OneWorkerPerReport
<1>4. StoredFirst' /\ ReadyReportsAreStored'
  BY <1>1 DEF StoredFirst, ReadyReportsAreStored
<1> QED
  BY <1>2, <1>3, <1>4, SameReports

LEMMA ClaimKeepsReportInv ==
  ASSUME ReportInv, NEW w \in ReportWorkers, NEW e \in ReportId,
         ClaimAnalysisReport(w, e)
  PROVE  ReportInv'
<1> USE DEF ReportInv
<1>1. CASE Moves(w, e, "listed", "idle") /\ UNCHANGED report
  <2>1. UNCHANGED <<passed, stored>>
    BY DEF ClaimAnalysisReport
  <2>2. "idle" \in RunPhase /\ "idle" \notin Working
    BY DEF RunPhase, Working
  <2> QED
    BY <1>1, <2>1, <2>2, QuietMoveKeepsReportInv
<1>2. CASE /\ Moves(w, e, "listed", "claimed")
           /\ report[e].status = "queued"
           /\ report' = [report EXCEPT ![e].status = "processing"]
  <2>1. UNCHANGED <<passed, stored>>
    BY DEF ClaimAnalysisReport
  <2>2. "claimed" \in RunPhase
    BY DEF RunPhase
  <2>3. /\ run[w][e] = "listed" /\ run'[w][e] = "claimed"
        /\ run' \in [ReportWorkers -> [ReportId -> RunPhase]]
        /\ \A v \in ReportWorkers, f \in ReportId :
             v # w \/ f # e => run'[v][f] = run[v][f]
    BY <1>2, <2>2, MovesAlone
  <2>4. e \in Made
    BY <1>2 DEF Made
  <2>5. /\ report' \in [ReportId -> Report]
        /\ \A f \in ReportId : f # e => report'[f] = report[f]
        /\ report'[e].status = "processing"
    BY <1>2, <2>4, StatusChange
  <2>6. MadeInOrder' /\ LastExists' /\ OneActiveReport'
    BY <1>2, <2>4, StatusKeepsOrder DEF Active
  <2>7. ReportTypeOK'
    BY <2>1, <2>3, <2>5 DEF ReportTypeOK
  <2>8. OneWorkerPerReport'
    <3>1. \A v \in ReportWorkers : run[v][e] \notin Working
      BY <1>2 DEF OneWorkerPerReport
    <3>2. \A v \in ReportWorkers : v # w => run'[v][e] \notin Working
      BY <2>3, <3>1
    <3> QED
      BY <2>3, <2>5, <3>2 DEF OneWorkerPerReport
  <2>9. StoredFirst' /\ ReadyReportsAreStored'
    BY <2>1, <2>3, <2>5 DEF StoredFirst, ReadyReportsAreStored
  <2> QED
    BY <2>6, <2>7, <2>8, <2>9
<1> QED
  BY <1>1, <1>2 DEF ClaimAnalysisReport

\* The last update of a goroutine: the report is still its own.
LEMMA EndKeepsReportInv ==
  ASSUME ReportInv, NEW w \in ReportWorkers, NEW e \in ReportId,
         NEW from \in Working, NEW status \in {"ready", "failed"},
         status = "ready" => from = "put",
         Moves(w, e, from, "idle"),
         report' = [report EXCEPT ![e].status = status],
         UNCHANGED <<passed, stored>>
  PROVE  ReportInv'
<1> USE DEF ReportInv
<1>1. "idle" \in RunPhase /\ "idle" \notin Working
  BY DEF RunPhase, Working
<1>2. /\ run[w][e] = from /\ run'[w][e] = "idle"
      /\ run' \in [ReportWorkers -> [ReportId -> RunPhase]]
      /\ \A v \in ReportWorkers, f \in ReportId :
           v # w \/ f # e => run'[v][f] = run[v][f]
  BY <1>1, MovesAlone
<1>3. report[e].status = "processing" /\ e \in Made
  BY <1>2 DEF OneWorkerPerReport, Made
<1>4. /\ report' \in [ReportId -> Report]
      /\ \A f \in ReportId : f # e => report'[f] = report[f]
      /\ report'[e].status = status
  BY <1>3, StatusChange
<1>5. MadeInOrder' /\ LastExists' /\ OneActiveReport'
  BY <1>3, StatusKeepsOrder DEF Active
<1>6. ReportTypeOK'
  BY <1>2, <1>4 DEF ReportTypeOK
<1>7. \A v \in ReportWorkers : run'[v][e] \notin Working
  BY <1>1, <1>2 DEF OneWorkerPerReport
<1>8. OneWorkerPerReport'
  BY <1>2, <1>4, <1>7 DEF OneWorkerPerReport
<1>9. StoredFirst'
  BY <1>2 DEF StoredFirst
<1>10. status = "ready" => e \in stored
  BY <1>2 DEF StoredFirst
<1>11. ReadyReportsAreStored'
  BY <1>4, <1>10 DEF ReadyReportsAreStored
<1> QED
  BY <1>5, <1>6, <1>8, <1>9, <1>11

LEMMA GoroutineKeepsReportInv ==
  ASSUME ReportInv, NEW w \in ReportWorkers, NEW e \in ReportId,
         ProcessQueuedReport(w, e) \/ ProcessingFails(w, e) \/ RunStops(w, e)
  PROVE  ReportInv'
<1> USE DEF RunPhase, Working
<1>1. CASE ClaimAnalysisReport(w, e)
  BY <1>1, ClaimKeepsReportInv
<1>2. CASE FindLatest(w, e) \/ CheckTask(w, e) \/ BuildAnalysisResult(w, e)
  BY <1>2, QuietMoveKeepsReportInv DEF FindLatest, CheckTask, BuildAnalysisResult
<1>3. CASE PutObject(w, e)
  BY <1>3, QuietMoveKeepsReportInv DEF PutObject
<1>4. CASE UpdateAnalysisReport(w, e)
  BY <1>4, EndKeepsReportInv DEF UpdateAnalysisReport
<1>5. CASE FailAnalysisReport(w, e)
  BY <1>5, EndKeepsReportInv DEF FailAnalysisReport
<1>6. CASE ProcessingFails(w, e)
  BY <1>6, QuietMoveKeepsReportInv DEF ProcessingFails
<1>7. CASE RunStops(w, e)
  <2>1. Moves(w, e, run[w][e], "idle")
    BY <1>7 DEF RunStops, Moves
  <2> QED
    BY <1>7, <2>1, QuietMoveKeepsReportInv DEF RunStops
<1> QED
  BY <1>1, <1>2, <1>3, <1>4, <1>5, <1>6, <1>7 DEF ProcessQueuedReport

LEMMA StepKeepsReportInv ==
  ASSUME ReportInv, [DeliveryNext]_deliveryVars
  PROVE  ReportInv'
<1>1. CASE ReportNext
  BY <1>1, RequestKeepsReportInv, ListKeepsReportInv, GoroutineKeepsReportInv
  DEF ReportNext
<1>2. CASE UNCHANGED reportVars
  BY <1>2, SameReports
  DEF reportVars, ReportInv, ReportTypeOK, OneWorkerPerReport, StoredFirst,
      ReadyReportsAreStored
<1> QED
  BY <1>1, <1>2 DEF DeliveryNext, deliveryVars

\* The inductive invariant holds throughout.
THEOREM ReportInvariant == Delivery => []ReportInv
<1>1. DeliveryInit => ReportInv
  BY ReportInvInit DEF DeliveryInit
<1> QED
  BY <1>1, StepKeepsReportInv, PTL DEF Delivery

\* Totals, refreshes and reports keep their types, whatever fails.
THEOREM DeliveryTypeCorrectness == Delivery => []DeliveryTypeOK
<1>1. DeliveryInit => StatsTypeOK
  BY StatsInitType DEF DeliveryInit
<1>2. StatsTypeOK /\ [DeliveryNext]_deliveryVars => StatsTypeOK'
  BY StatsNextType DEF DeliveryNext, deliveryVars
<1>3. StatsTypeOK /\ ReportInv => DeliveryTypeOK
  BY DEF ReportInv, DeliveryTypeOK
<1> QED
  BY <1>1, <1>2, <1>3, ReportInvariant, PTL DEF Delivery

\* A task never has two reports that have not failed, and none after one.
THEOREM OneActive == Delivery => []OneActiveReport
<1>1. ReportInv => OneActiveReport
  BY DEF ReportInv
<1> QED
  BY <1>1, ReportInvariant, PTL

\* Between its claim and its last update a report has one goroutine, and no
\* update of anybody else.
THEOREM OneWorker == Delivery => []OneWorkerPerReport
<1>1. ReportInv => OneWorkerPerReport
  BY DEF ReportInv
<1> QED
  BY <1>1, ReportInvariant, PTL

\* A ready report can be fetched.
THEOREM ReadyIsStored == Delivery => []ReadyReportsAreStored
<1>1. ReportInv => ReadyReportsAreStored
  BY DEF ReportInv
<1> QED
  BY <1>1, ReportInvariant, PTL
-----------------------------------------------------------------------------
(***************************************************************************)
(* Delivery implements ReportLifecycle.                                    *)
(***************************************************************************)

\* StatusOf is the status of whichever report is the latest.
LatestGivesStatus ==
  \A t \in Tasks : \A e \in ReportsOf(t) :
    IsLatest(e) => StatusOf(t) = report[e].status

LEMMA LatestIsUnique == ReportInv => LatestGivesStatus
<1> SUFFICES ASSUME ReportInv, NEW t \in Tasks, NEW e \in ReportsOf(t), IsLatest(e)
             PROVE  StatusOf(t) = report[e].status
  BY DEF LatestGivesStatus
<1>1. ASSUME NEW f \in ReportsOf(t), IsLatest(f)
      PROVE  f = e
  <2>1. f <= e /\ e <= f
    BY <1>1 DEF IsLatest, ReportsOf
  <2>2. e \in 1..MaxReports /\ f \in 1..MaxReports
    BY DEF ReportsOf, Made, ReportId
  <2> QED
    BY <2>1, <2>2, AnalysisReportAssumption
<1>2. (CHOOSE f \in ReportsOf(t) : IsLatest(f)) = e
  BY <1>1
<1> QED
  BY <1>2 DEF StatusOf

\* A task whose reports, and whose latest, are as before has the same status.
LEMMA SameStatus ==
  ASSUME ReportInv, ReportInv', NEW t \in Tasks,
         ReportsOf(t)' = ReportsOf(t),
         \A f \in ReportsOf(t) : /\ report'[f] = report[f]
                                 /\ IsLatest(f)' = IsLatest(f)
  PROVE  StatusOf(t)' = StatusOf(t) /\ DeliveredFor(t)' = DeliveredFor(t)
<1>1. LatestGivesStatus /\ LatestGivesStatus'
  BY LatestIsUnique, PTL
<1>2. ASSUME ReportsOf(t) = {}
      PROVE  StatusOf(t)' = StatusOf(t)
  BY <1>2 DEF StatusOf
<1>3. ASSUME ReportsOf(t) # {}
      PROVE  StatusOf(t)' = StatusOf(t)
  <2>1. PICK f \in ReportsOf(t) : IsLatest(f)
    BY <1>3 DEF ReportInv, LastExists
  <2>2. StatusOf(t) = report[f].status
    BY <1>1, <2>1 DEF LatestGivesStatus
  <2>3. StatusOf(t)' = report'[f].status
    BY <1>1, <2>1 DEF LatestGivesStatus
  <2> QED
    BY <2>2, <2>3
<1>4. DeliveredFor(t)' = DeliveredFor(t)
  BY DEF DeliveredFor
<1> QED
  BY <1>2, <1>3, <1>4

\* A change of the status of the latest report is one of its task alone.
LEMMA LatestStatusChange ==
  ASSUME ReportInv, ReportInv', NEW e \in Made, IsLatest(e),
         NEW t \in Tasks, report[e].task = t,
         NEW status \in {"queued", "processing", "ready", "failed"},
         report' = [report EXCEPT ![e].status = status]
  PROVE  /\ StatusOf(t) = report[e].status
         /\ StatusOf(t)' = status
         /\ DeliveredFor(t)' \ {e} = DeliveredFor(t) \ {e}
         /\ e \in DeliveredFor(t)' <=> status = "ready"
         /\ \A s \in Tasks : s # t =>
              /\ StatusOf(s)' = StatusOf(s)
              /\ DeliveredFor(s)' = DeliveredFor(s)
<1>1. /\ \A f \in ReportId : f # e => report'[f] = report[f]
      /\ report'[e].status = status
      /\ \A s : ReportsOf(s)' = ReportsOf(s)
      /\ \A f \in ReportId : IsLatest(f)' = IsLatest(f)
  BY StatusChange DEF ReportInv
<1>2. LatestGivesStatus /\ LatestGivesStatus'
  BY LatestIsUnique, PTL
<1>3. /\ e \in ReportsOf(t)
      /\ \A s : ReportsOf(s) \subseteq ReportId
  BY DEF ReportsOf, Made
<1>4. StatusOf(t) = report[e].status
  BY <1>2, <1>3 DEF LatestGivesStatus
<1>5. StatusOf(t)' = status
  <2>1. e \in ReportsOf(t)' /\ IsLatest(e)'
    BY <1>1, <1>3
  <2> QED
    BY <1>1, <1>2, <2>1 DEF LatestGivesStatus
<1>6. ASSUME NEW s \in Tasks, s # t
      PROVE  StatusOf(s)' = StatusOf(s) /\ DeliveredFor(s)' = DeliveredFor(s)
  <2>1. \A f \in ReportsOf(s) : f \in ReportId /\ f # e
    BY <1>3, <1>6 DEF ReportsOf
  <2> QED
    BY <1>1, <2>1, SameStatus
<1>7. /\ DeliveredFor(t)' \ {e} = DeliveredFor(t) \ {e}
      /\ e \in DeliveredFor(t)' <=> status = "ready"
  BY <1>1, <1>3 DEF DeliveredFor
<1> QED
  BY <1>4, <1>5, <1>6, <1>7

\* The report a worker is about to update is the latest of its task.
LEMMA WorkedOnIsLatest ==
  ASSUME ReportInv, NEW e \in ReportId, report[e].status \in {"queued", "processing"}
  PROVE  /\ e \in Made /\ IsLatest(e) /\ report[e].task \in Tasks
         /\ DeliveredFor(report[e].task) = {}
<1>1. e \in Made /\ IsLatest(e) /\ report[e].task \in Tasks
  BY DEF ReportInv, OneActiveReport, Active, MadeInOrder, Made
<1>2. ASSUME NEW f \in DeliveredFor(report[e].task)
      PROVE  FALSE
  <2>1. f \in Made /\ report[f].status = "ready" /\ report[f].task = report[e].task
    BY DEF DeliveredFor, ReportsOf
  <2>2. IsLatest(f)
    BY <2>1 DEF ReportInv, OneActiveReport, Active
  <2>3. e <= f /\ f <= e
    BY <1>1, <2>1, <2>2 DEF IsLatest, ReportsOf
  <2>4. e \in 1..MaxReports /\ f \in 1..MaxReports
    BY <2>1 DEF Made, ReportId
  <2> QED
    BY <2>1, <2>3, <2>4, AnalysisReportAssumption
<1> QED
  BY <1>1, <1>2

LEMMA RequestRefines ==
  ASSUME ReportInv, ReportInv', NEW c \in Callers, NEW t \in Tasks,
         EnsureQueuedAnalysisReport(c, t)
  PROVE  \/ Abstract!Request(t)
         \/ UNCHANGED report
<1> SUFFICES ASSUME ~ HasActive(t), NEW e \in ReportId \ Made,
                    \A f \in 1..(e - 1) : f \in Made,
                    report' = [report EXCEPT ![e] = [task |-> t, status |-> "queued"]]
             PROVE  Abstract!Request(t)
  BY DEF EnsureQueuedAnalysisReport
<1>1. /\ ReportsOf(t)' = ReportsOf(t) \cup {e}
      /\ IsLatest(e)'
      /\ \A s \in Tasks : s # t => ReportsOf(s)' = ReportsOf(s)
      /\ \A f \in Made : report[f].task # t => IsLatest(f)' = IsLatest(f)
      /\ \A f \in ReportId : f # e => report'[f] = report[f]
      /\ report'[e].status = "queued"
  BY NewReport
<1>2. LatestGivesStatus /\ LatestGivesStatus'
  BY LatestIsUnique, PTL
<1>3. StatusOf(t)' = "queued"
  BY <1>1, <1>2 DEF LatestGivesStatus
<1>4. StatusOf(t) \in {"none", "failed"}
  <2>1. CASE ReportsOf(t) = {}
    BY <2>1 DEF StatusOf
  <2>2. CASE ReportsOf(t) # {}
    <3>1. PICK f \in ReportsOf(t) : IsLatest(f)
      BY <2>2 DEF ReportInv, LastExists
    <3>2. StatusOf(t) = report[f].status
      BY <1>2, <3>1 DEF LatestGivesStatus
    <3>3. report[f].status \notin Active
      BY <3>1 DEF HasActive
    <3>4. report[f] \in Report /\ report[f].status # "none"
      BY <3>1 DEF ReportsOf, Made, ReportInv, ReportTypeOK
    <3> QED
      BY <3>2, <3>3, <3>4 DEF Report, Active
  <2> QED
    BY <2>1, <2>2
<1>5. ASSUME NEW s \in Tasks, s # t
      PROVE  StatusOf(s)' = StatusOf(s) /\ DeliveredFor(s)' = DeliveredFor(s)
  <2>1. \A f \in ReportsOf(s) : report'[f] = report[f] /\ IsLatest(f)' = IsLatest(f)
    BY <1>1, <1>5 DEF ReportsOf, Made
  <2> QED
    BY <1>1, <1>5, <2>1, SameStatus
<1>6. DeliveredFor(t)' = DeliveredFor(t)
  BY <1>1 DEF DeliveredFor, ReportsOf, Made
<1>7. [s \in Tasks |-> StatusOf(s)]' = [[s \in Tasks |-> StatusOf(s)] EXCEPT ![t] = "queued"]
  BY <1>3, <1>5
<1>8. [s \in Tasks |-> DeliveredFor(s)]' = [s \in Tasks |-> DeliveredFor(s)]
  BY <1>5, <1>6
<1> QED
  BY <1>4, <1>7, <1>8 DEF Abstract!Request

\* Claiming, delivering and giving up are the lifecycle's steps.
LEMMA UpdateRefines ==
  ASSUME ReportInv, ReportInv', NEW e \in ReportId, NEW t \in Tasks,
         report[e].task = t,
         NEW status \in {"processing", "ready", "failed"},
         report[e].status = IF status = "processing" THEN "queued" ELSE "processing",
         report' = [report EXCEPT ![e].status = status]
  PROVE  Abstract!Begin(t) \/ Abstract!Deliver(t) \/ Abstract!Fail(t)
<1>1. e \in Made /\ IsLatest(e) /\ DeliveredFor(t) = {}
  BY WorkedOnIsLatest
<1>2. /\ StatusOf(t) = report[e].status
      /\ StatusOf(t)' = status
      /\ DeliveredFor(t)' \ {e} = DeliveredFor(t) \ {e}
      /\ e \in DeliveredFor(t)' <=> status = "ready"
      /\ \A s \in Tasks : s # t =>
           /\ StatusOf(s)' = StatusOf(s)
           /\ DeliveredFor(s)' = DeliveredFor(s)
  BY <1>1, LatestStatusChange
<1>3. [s \in Tasks |-> StatusOf(s)]' = [[s \in Tasks |-> StatusOf(s)] EXCEPT ![t] = status]
  BY <1>2
<1>4. ASSUME status # "ready"
      PROVE  [s \in Tasks |-> DeliveredFor(s)]' = [s \in Tasks |-> DeliveredFor(s)]
  <2>1. DeliveredFor(t)' = DeliveredFor(t)
    BY <1>1, <1>2, <1>4
  <2> QED
    BY <1>2, <2>1
<1>5. ASSUME status = "ready"
      PROVE  [s \in Tasks |-> DeliveredFor(s)]'
               = [[s \in Tasks |-> DeliveredFor(s)] EXCEPT ![t] = {e}]
  <2>1. DeliveredFor(t)' = {e}
    BY <1>1, <1>2, <1>5
  <2> QED
    BY <1>2, <2>1
<1>6. CASE status = "processing"
  BY <1>2, <1>3, <1>4, <1>6 DEF Abstract!Begin
<1>7. CASE status = "ready"
  BY <1>1, <1>2, <1>3, <1>5, <1>7 DEF Abstract!Deliver
<1>8. CASE status = "failed"
  BY <1>2, <1>3, <1>4, <1>8 DEF Abstract!Fail
<1> QED
  BY <1>6, <1>7, <1>8

LEMMA GoroutineRefines ==
  ASSUME ReportInv, ReportInv', NEW w \in ReportWorkers, NEW e \in ReportId,
         ProcessQueuedReport(w, e)
  PROVE  \/ \E t \in Tasks : Abstract!Begin(t) \/ Abstract!Deliver(t) \/ Abstract!Fail(t)
         \/ UNCHANGED report
<1>1. ASSUME NEW status \in {"processing", "ready", "failed"},
             report[e].status = IF status = "processing" THEN "queued" ELSE "processing",
             report' = [report EXCEPT ![e].status = status]
      PROVE  \E t \in Tasks : Abstract!Begin(t) \/ Abstract!Deliver(t) \/ Abstract!Fail(t)
  <2>1. PICK t \in Tasks : report[e].task = t
    BY <1>1, WorkedOnIsLatest
  <2> QED
    BY <1>1, <2>1, UpdateRefines
<1>2. CASE ClaimAnalysisReport(w, e)
  BY <1>1, <1>2 DEF ClaimAnalysisReport
<1>3. CASE UpdateAnalysisReport(w, e) \/ FailAnalysisReport(w, e)
  <2>1. report[e].status = "processing"
    BY <1>3
    DEF UpdateAnalysisReport, FailAnalysisReport, Moves, ReportInv,
        OneWorkerPerReport, Working, RunPhase
  <2> QED
    BY <1>1, <1>3, <2>1 DEF UpdateAnalysisReport, FailAnalysisReport
<1>4. CASE \/ FindLatest(w, e) \/ CheckTask(w, e)
           \/ BuildAnalysisResult(w, e) \/ PutObject(w, e)
  BY <1>4 DEF FindLatest, CheckTask, BuildAnalysisResult, PutObject
<1> QED
  BY <1>2, <1>3, <1>4 DEF ProcessQueuedReport

\* No step that leaves the reports alone is seen.
LEMMA SameReportsStutter ==
  ASSUME UNCHANGED report
  PROVE  UNCHANGED Abstract!lifecycleVars
<1>1. \A t : StatusOf(t)' = StatusOf(t) /\ DeliveredFor(t)' = DeliveredFor(t)
  BY DEF StatusOf, DeliveredFor, ReportsOf, Made, IsLatest
<1> QED
  BY <1>1 DEF Abstract!lifecycleVars

\* However many callers and workers there are, a task's reports follow the
\* lifecycle: one at a time, and one document.
THEOREM DeliveryFollowsLifecycle == Delivery => FollowsLifecycle
<1>1. DeliveryInit => Abstract!LifecycleInit
  <2> SUFFICES ASSUME DeliveryInit PROVE Abstract!LifecycleInit
    OBVIOUS
  <2>1. \A t : ReportsOf(t) = {}
    BY DEF DeliveryInit, ReportInit, ReportsOf, Made
  <2> QED
    BY <2>1 DEF Abstract!LifecycleInit, StatusOf, DeliveredFor
<1>2. ReportInv /\ ReportInv' /\ [DeliveryNext]_deliveryVars
        => [Abstract!LifecycleNext]_(Abstract!lifecycleVars)
  <2> SUFFICES ASSUME ReportInv, ReportInv', [DeliveryNext]_deliveryVars
               PROVE  [Abstract!LifecycleNext]_(Abstract!lifecycleVars)
    OBVIOUS
  <2>1. CASE UNCHANGED report
    BY <2>1, SameReportsStutter
  <2>2. ASSUME NEW c \in Callers, NEW t \in Tasks, EnsureQueuedAnalysisReport(c, t)
        PROVE  [Abstract!LifecycleNext]_(Abstract!lifecycleVars)
    BY <2>1, <2>2, RequestRefines DEF Abstract!LifecycleNext
  <2>3. ASSUME NEW w \in ReportWorkers, NEW e \in ReportId, ProcessQueuedReport(w, e)
        PROVE  [Abstract!LifecycleNext]_(Abstract!lifecycleVars)
    BY <2>1, <2>3, GoroutineRefines DEF Abstract!LifecycleNext
  <2>4. \/ UNCHANGED report
        \/ \E c \in Callers, t \in Tasks : EnsureQueuedAnalysisReport(c, t)
        \/ \E w \in ReportWorkers, e \in ReportId : ProcessQueuedReport(w, e)
    BY DEF DeliveryNext, deliveryVars, reportVars, ReportNext,
           GenerateAnalysisReport, GenerateFails, ProcessQueuedReports,
           ProcessingFails, RunStops
  <2> QED
    BY <2>1, <2>2, <2>3, <2>4
<1> QED
  BY <1>1, <1>2, ReportInvariant, PTL DEF Delivery, FollowsLifecycle, Abstract!Lifecycle
-----------------------------------------------------------------------------
(***************************************************************************)
(* What the totals tell the requests, when every change of a video is      *)
(* followed by its refresh.                                                *)
(***************************************************************************)

LEMMA RefreshedStep ==
  ASSUME [\/ RefreshedNext /\ UNCHANGED reportVars
          \/ ReportNext /\ UNCHANGED statsVars]_deliveryVars
  PROVE  [RefreshedNext]_statsVars
BY DEF deliveryVars

\* The reports do not disturb the totals, which come out exact on the same
\* conditions.
THEOREM TotalsFollowTurnsInDelivery ==
  RefreshedDelivery => TaskTotalsInTurns /\ ProjectTotalsInTurns
<1>1. RefreshedDelivery => Refreshed
  BY RefreshedStep, PTL DEF RefreshedDelivery, DeliveryInit, Refreshed
<1> QED
  BY <1>1, ProjectTotalsFollowTurns, TaskTotalsFollowTurns, PTL

\* Exact totals that are equal, and positive, are those of evaluated videos.
LEMMA ExactTotalsTell ==
  ASSUME NEW t \in Tasks, taskTotals[t] = TotalsOf(t), IsTaskAnalysisReady(t)
  PROVE  AllEvaluated(t)
<1>1. IsFiniteSet(ReadyOf(t))
  BY TaskTotalsAssumption, FS_Subset DEF ReadyOf
<1>2. CompletedOf(t) \in SUBSET ReadyOf(t)
  BY DEF CompletedOf, ReadyOf
<1>3. Cardinality(ReadyOf(t)) > 0 /\ Cardinality(ReadyOf(t)) = Cardinality(CompletedOf(t))
  BY DEF IsTaskAnalysisReady, TotalsOf
<1>4. ReadyOf(t) = CompletedOf(t)
  BY <1>1, <1>2, <1>3, FS_Subset
<1>5. ReadyOf(t) # {}
  BY <1>3, FS_EmptySet
<1> QED
  BY <1>4, <1>5 DEF AllEvaluated

\* A report is accepted only for a task whose videos are all evaluated, when
\* no handler is about to refresh the totals and no two refreshes of one task
\* have ever overlapped.
THEOREM AcceptedForEvaluatedTasks ==
  RefreshedDelivery /\ []OneRefreshPerTask => AcceptedOnlyWhenEvaluated
<1>1. RefreshedDelivery /\ []OneRefreshPerTask => []TaskTotalsInv
  <2>1. DeliveryInit => TaskTotalsInv
    BY TaskTotalsInit DEF DeliveryInit
  <2>2. TaskTotalsInv /\ OneRefreshPerTask /\ OneRefreshPerTask'
        /\ [\/ RefreshedNext /\ UNCHANGED reportVars
            \/ ReportNext /\ UNCHANGED statsVars]_deliveryVars
          => TaskTotalsInv'
    BY RefreshedStep, TaskTotalsStep
  <2> QED
    BY <2>1, <2>2, PTL DEF RefreshedDelivery
<1>2. TaskTotalsInv
        => [\A c \in Callers, t \in Tasks :
              Quiet /\ GenerateAnalysisReport(c, t) => AllEvaluated(t)]_deliveryVars
  <2> SUFFICES ASSUME TaskTotalsInv, NEW c \in Callers, NEW t \in Tasks,
                      Quiet, GenerateAnalysisReport(c, t)
               PROVE  AllEvaluated(t)
    OBVIOUS
  <2>1. taskTotals[t] = TotalsOf(t)
    BY DEF TaskTotalsInv, TotalsAreExact, Refreshes, Phase, Quiet
  <2> QED
    BY <2>1, ExactTotalsTell DEF GenerateAnalysisReport
<1> QED
  BY <1>1, <1>2, PTL DEF AcceptedOnlyWhenEvaluated
=============================================================================
