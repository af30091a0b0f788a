\* Two tasks: two handlers that refresh their totals, or one and the reports.
SPECIFICATION TotalsOfTwoTasks
CONSTANTS
  v1 = v1
  t1 = t1
  t2 = t2
  r1 = r1
  v3 = v3
  Clips = {v1, v2, v3}
  Tasks = {t1, t2}
  TaskOf <- FirstInSecondTask
  NoTask = NoTask
  Writers = {r1, r2}
  Callers = {c1}
  ReportWorkers = {w1}
  ReportPollBatchSize = 1
  MaxReports = 2
PROPERTIES
  TaskTotalsInTurns
  ProjectTotalsInTurns
  AcceptedOnlyWhenEvaluated
  EveryQueuedReportIsClaimed
