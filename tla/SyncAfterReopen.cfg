SPECIFICATION Spec
CONSTANTS
  Nodes = {n1}
  n1 = n1
  None = None
  MaxSegmentId = 0
  MaxSegmentLen = 3
  Faults = {}
INVARIANT SyncMakesAppendsDurable
