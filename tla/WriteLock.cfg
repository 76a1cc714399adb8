SPECIFICATION FairSpec
CONSTANTS
  Engines = {e1, e2, e3}
  MaxFrames = 3
  MaxFiles = 2
  None = None
INVARIANT NoStaleLock
INVARIANT OneWriter
INVARIANT PartialFrameIsLast
PROPERTY RecoveryCutsDeadFrame
PROPERTY DirectoryReopens
