\* Two handlers at once change the videos of two tasks of one project.
SPECIFICATION RefreshedDelivery
CONSTANTS
  v1 = v1
  t1 = t1
  t2 = t2
  Clips = {v1, v2}
  Tasks = {t1, t2}
  TaskOf <- FirstInSecondTask
  NoTask = NoTask
  Writers = {r1, r2}
  Callers = {c1}
  ReportWorkers = {w1}
  ReportPollBatchSize = 1
  MaxReports = 1
INVARIANT
  ProjectTotalsSettle
