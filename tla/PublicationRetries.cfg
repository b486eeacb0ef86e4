SPECIFICATION Spec
CONSTANTS
  Exec = {e1, e2}
  Recoverer = {r1}
  None = None
  Tries = 2
  Cleared = {e1}
  ClockSkew = TRUE
VIEW View
INVARIANTS IInv SettledTruthfully AngleFollowsPost
