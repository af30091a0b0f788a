\* Two scorers, two invitations, two videos; two handlers at once.
SPECIFICATION TaskScorerSpec
CONSTANTS
  a = a  b = b  h1 = h1  h2 = h2  v1 = v1  v2 = v2
  Scorers = {a, b}
  NoScorer = NoScorer
  Videos = {v1, v2}
  Calls = {h1, h2}
  MaxInvitations = 2
  MaxPasswords = 1
CONSTRAINT Focus
SYMMETRY ScorerSymmetry
INVARIANTS
  AcceptedMeansAnswered
  DeliveredPasswordsWork
PROPERTIES
  LifecycleUnlessStale
  ReassignmentSettles
