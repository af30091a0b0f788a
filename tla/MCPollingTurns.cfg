CONSTANTS
  v1 = v1  v2 = v2  a = a  r1 = r1  r2 = r2  c1 = c1
  noScore = noScore  none = none  noVideo = noVideo
  Videos = {v1, v2}
  Scores = {1}
  MaxEvals = 2
  Scorers = {a}
  Requests = {r1, r2}
  Creators = {c1}
  BatchSize = 1
  MaxErrors = 2
  NoScore = noScore
  NoScorer = none
  NoVideo = noVideo
SYMMETRY Symmetry
SPECIFICATION Turns
INVARIANTS
  ReviewRowsAgree
  TurnsComeRound
PROPERTIES
  FreshWritesAreExact
CONSTRAINT Focus
