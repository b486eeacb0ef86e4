SPECIFICATION Spec
CONSTANTS
  Tick = {t1, t2}
  Op = {k1, k2}
  Scheduled = {k1, k2}
  OneRow = {}
  None = None
  Stray = Stray
  Tries = 1
  Stretch = 2
  MaxVer = 2
SYMMETRY Symmetry
VIEW View
INVARIANTS ExecutesOnce LateEffectsAreOneStretch CompletedTruthfully ShownIsLatest
PROPERTIES OutcomeIsFinal
CHECK_DEADLOCK FALSE
