SPECIFICATION FairSpec
CONSTANTS
  Exec = {e1}
  Recoverer = {r1}
  None = None
  Tries = 1
  Cleared = {e1}
  ClockSkew = FALSE
PROPERTIES InterruptedDispatchSettles ClaimsComeBack ExecutionsReturn
