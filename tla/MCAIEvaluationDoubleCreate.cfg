CONSTANTS
  v1 = v1  c1 = c1  c2 = c2
  noScore = noScore  noVideo = noVideo
  Videos = {v1}
  Scores = {1}
  MaxEvals = 2
  Creators = {c1, c2}
  BatchSize = 2
  NoScore = noScore
  NoVideo = noVideo
SPECIFICATION AIAlone
INVARIANTS
  OneLiveEvaluation
