CONSTANTS
  v1 = v1  a = a  r1 = r1  c1 = c1
  noScore = noScore  none = none  noVideo = noVideo
  Videos = {v1}
  Scores = {1}
  MaxEvals = 1
  Scorers = {a}
  Requests = {r1}
  Creators = {c1}
  BatchSize = 2
  NoScore = noScore
  NoScorer = none
  NoVideo = noVideo
SPECIFICATION Spec
INVARIANTS
  DoneMeansCompleted
