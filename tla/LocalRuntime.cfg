SPECIFICATION Spec
CONSTANTS
  NSlots = 2
  s1 = s1 s2 = s2 h1 = h1 h2 = h2 twitter = twitter threads = threads r1 = r1 r2 = r2
  Sources = {s1, s2}
  Hashes = {h1, h2}
  Angles <- MCAngles
  Legacy <- MCLegacy
  PlatformSteps <- MCSteps
  None = None
  Runs = {r1, r2}
  Owner <- MCOwner
  LapsesWhileHeld = TRUE
INVARIANTS IInv OneSlotPerSource BooksAgree RecordedIsNotRepeated
CONSTRAINT SmallOverlap
