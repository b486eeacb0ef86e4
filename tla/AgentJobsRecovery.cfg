SPECIFICATION Spec
CONSTANTS
  Tick = {t1, t2}
  Op = {k1, k2}
  Scheduled = {}
  OneRow = {k1, k2}
  None = None
  Stray = Stray
  Tries = 2
  Stretch = 2
  MaxVer = 2
SYMMETRY Symmetry
VIEW View
INVARIANTS IInv
PROPERTIES KeepsPromise
CHECK_DEADLOCK FALSE
