SPECIFICATION Spec
CONSTANTS
  Nodes = {n1}
  n1 = n1
  None = None
  MaxSegmentId = 1
  MaxSegmentLen = 3
  Faults = {"process", "power"}
INVARIANT IndexPointsAtDurableRecord
