SPECIFICATION Spec
CONSTANTS
  Nodes = {n1, n2}
  n1 = n1
  n2 = n2
  None = None
  MaxSegmentId = 1
  MaxSegmentLen = 3
  Faults = {"power", "index_lost"}
SYMMETRY NodeSymmetry
INVARIANT TypeOK
INVARIANT NeverRefused
INVARIANT SyncIsDurable
INVARIANT IndexPointsAtDurableRecord
PROPERTY ImplementsNodeStore
