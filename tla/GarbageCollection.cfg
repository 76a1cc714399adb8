SPECIFICATION Spec
CONSTANTS
  Nodes = {n1, n2}
  n1 = n1
  n2 = n2
  None = None
  MaxSegmentId = 2
  MaxSegmentLen = 2
  Faults = {"power"}
INVARIANT GcIsComplete
PROPERTY NoDurableRecordLost
