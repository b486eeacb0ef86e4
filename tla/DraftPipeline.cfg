SPECIFICATION Spec
CONSTANTS
  s1 = s1 twitter = twitter instagram = instagram j1 = j1 j2 = j2 j3 = j3
  Jobs = {j1, j2}
  Sources = {s1}
  Revisions = {1, 2}
  Angles <- MCAngles
  Platforms = {twitter, instagram}
  Instagram = instagram
  Days = {1}
  PerDay = 1
  Options <- MCOptions
  Limit <- MCLimit
  MaxFaults = 1
  None = None
SYMMETRY Symmetry
CHECK_DEADLOCK FALSE
INVARIANTS IInv DraftsAreKept CallsNearLimit UnsettledIsNotRepeated
