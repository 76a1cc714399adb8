SPECIFICATION ReaderSpec
CONSTANTS
  Nodes = {n1}
  n1 = n1
  None = None
  MaxSegmentId = 2
  MaxSegmentLen = 2
  Faults = {"process"}
  AtomicListing = TRUE
INVARIANT ReadIsConsistent
INVARIANT ReadFailsOnlyIfDisturbed
