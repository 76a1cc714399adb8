SPECIFICATION MSpec
CONSTANTS
  Nodes = {n1, n2}
  n1 = n1
  n2 = n2
  None = None
  MaxSegmentId = 2
  MaxSegmentLen = 2
  Faults = {"process", "index_lost"}
  U64Max = 2
  Operations = {"load"}
SYMMETRY NodeSymmetry
INVARIANT NeverRefused
INVARIANT GaugesAreCurrent
INVARIANT CountersAddUp
