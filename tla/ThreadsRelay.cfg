SPECIFICATION Spec
CONSTANTS
  Handler = {h1, h2, h3}
  Attempt = {a1, a2}
  None = None
  PowerFails = TRUE
SYMMETRY Symmetry
INVARIANTS OneDispatch DispatchIsFenced ReceiptsAreTrue
PROPERTIES IdIsKept
