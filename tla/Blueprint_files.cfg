SPECIFICATION Spec
CONSTANTS
  MaxVersion = 2
  Bare = {2}
  Answers = {old, new}
  NoFile = NoFile
  Torn = Torn
  DiskMayFill = FALSE
INVARIANTS SavedIsWhole
PROPERTY OnlyVerifiedIsUsed
