SPECIFICATION Spec
CONSTANTS
  Exec = {e1, e2}
  Recoverer = {r1}
  None = None
  Tries = 1
  Cleared = {e1, e2}
  ClockSkew = FALSE
SYMMETRY Symmetry
VIEW View
INVARIANTS AtMostOneWrite NothingUnrecorded ReportedTruthfully
PROPERTIES DispatchIsFinal RecoveryStealsNothing KeepsPromise
