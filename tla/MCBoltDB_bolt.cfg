SPECIFICATION Spec
CONSTANTS
  Base = 2
  Width = 3
  lowerBoundKey <- ShortKey
  upperBoundKey <- LongerKey
INVARIANTS MissingAgrees
PROPERTIES StoreSpec
