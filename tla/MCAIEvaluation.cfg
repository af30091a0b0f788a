CONSTANTS
  v1 = v1  v2 = v2  c1 = c1
  noScore = noScore  noVideo = noVideo
  Videos = {v1, v2}
  Scores = {1}
  MaxEvals = 2
  Creators = {c1}
  BatchSize = 1
  NoScore = noScore
  NoVideo = noVideo
SPECIFICATION FairAIAlone
PROPERTIES
  EveryJobGetsAVerdict
  VerdictIsFinal
INVARIANTS
  OneLiveEvaluation
  AIColumnsMirrorLatest
  HandlersOwnTheirEvaluation
