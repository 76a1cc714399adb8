SPECIFICATION Spec
CONSTANTS
  Nodes = {n1, n2}
  n1 = n1
  n2 = n2
  None = None
  MaxSegmentId = 1
  MaxSegmentLen = 3
  Faults = {"process", "power", "index_lost"}
SYMMETRY NodeSymmetry
INVARIANT LoadCorrect
INVARIANT LoadAllCorrect
INVARIANT UnlinkedIsSuperseded
INVARIANT ReturnedCallsAreDurable
INVARIANT MemoryAgreesWithDisk
PROPERTY IdsStayReserved
