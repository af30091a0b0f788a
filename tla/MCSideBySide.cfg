\* Ten components that share no state, one at a time.
SPECIFICATION SideBySide
CONSTANTS
  MaxJobs = 2
  Workers = {w1, w2}
  LlmSlots = 1
  MaxCrashes = 1
  Users = {u1}
  Visits = {h1, h2}
  MaxSessions = 2
  Instances = {i1, i2}
  RoleCount = 2
  MaxStarts = 2
  Uploads = {p1, p2}
  MaxVerdicts = 2
  Actors <- OneOfEachRole
  Schools = {"s1", "s2"}
  Nowhere = "-"
  Nobody = "-"
  DealtVideos = {d1, d2, d3}
  DealtScorers = {s1, s2}
  MaxListed = 3
  Ratios = {68, 96}
  Rubrics <- RubricSet
  RawScores <- RawScoreSet
  Rows <- RowSet
  MaxRows = 4
  Entries = {e1, e2, e3}
  Places = {1, 2, 3}
  Sizes = {0, 2}
  DefaultSize = 1
  Usernames = {"u1", "u2"}
  Importers = {b1, b2}
  MaxItems = 3
  Requests <- RequestSet
\* A computation that is done, and a component at its bounds, stop.
CHECK_DEADLOCK FALSE
INVARIANTS
  SideBySideTypeOK
  RolePlacesAgree
  OneSessionPerLogin
  MissingPermissionsHaveACause
  OneWriterPerJob
  ReadyMeansStored
  DeletedVideosLeaveNoFile
  RightsFitTogether
  DealIsFair
  SheetAddsUp
  TemplateIsRead
  ListsAreReadOnce
  BatchesKeepTheirWord
PROPERTIES
  JobsLookAsPromised
  EveryJobEnds
  EveryFileGoes
