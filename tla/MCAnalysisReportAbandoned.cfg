\* A worker that is shut down, or crashes, while it makes a report.
SPECIFICATION FairReportsAlone
CONSTANTS
  v1 = v1
  t1 = t1
  t2 = t2
  Clips = {v1}
  Tasks = {t1}
  TaskOf <- AllInFirstTask
  NoTask = NoTask
  Callers = {c1}
  ReportWorkers = {w1}
  ReportPollBatchSize = 1
  MaxReports = 1
PROPERTY
  EveryClaimedReportSettles
