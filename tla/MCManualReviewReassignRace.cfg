CONSTANTS
  v1 = v1  a = a  r1 = r1  r2 = r2
  noScore = noScore  none = none
  Videos = {v1}
  Scores = {1}
  MaxEvals = 0
  Scorers = {a}
  Requests = {r1, r2}
  NoScore = noScore
  NoScorer = none
SPECIFICATION ReviewAlone
PROPERTIES
  ReassignmentSparesStartedWork
