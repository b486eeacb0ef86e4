SPECIFICATION Spec
CONSTANTS
  Handler = {h1, h2}
  Attempt = {a1}
  None = None
  PowerFails = FALSE
PROPERTIES ConfirmedStays
