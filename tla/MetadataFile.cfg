SPECIFICATION Spec
CONSTANTS
  Versions = {1, 2, 3}
  Size <- Sizes
  Absent = Absent
  Corrupt = Corrupt
PROPERTY ImplementsAtomicFile
INVARIANT NoOldVersionReturns
