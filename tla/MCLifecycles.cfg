\* One video with re-runs, handlers one at a time; or one video and its reports, with
\* two callers and two workers.
SPECIFICATION Lifecycles
CONSTANTS
  Videos = {v1}
  Scores = {1}
  MaxEvals = 2
  Scorers = {a, b}
  Requests = {r1, r2}
  Creators = {c1}
  BatchSize = 2
  NoScore = NoScore
  NoScorer = NoScorer
  NoVideo = NoVideo
  t1 = t1
  Clips = {u1}
  Tasks = {t1}
  TaskOf <- AllInFirstTask
  NoTask = NoTask
  Writers = {x1}
  Callers = {r1, r2}
  ReportWorkers = {w1, w2}
  ReportPollBatchSize = 2
  MaxReports = 3
\* With all videos deleted there is nothing left to do.
CHECK_DEADLOCK FALSE
SYMMETRY Symmetry
INVARIANTS
  EvaluationIsExact
  ScoreIsTheReviews
  OneActiveReport
  ReadyReportsAreStored
  OneWorkerPerReport
PROPERTIES
  SubmittedIsFinal
  FollowsEvaluationLifecycle
  FollowsLifecycle
