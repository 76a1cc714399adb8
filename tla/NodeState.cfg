SPECIFICATION Spec
CONSTANTS
  MaxTerm = 2
  MaxIndex = 2
  MaxEntries = 2
  Peers = {p}
  p = p
  Configs = {c}
  c = c
  EmptyConfig = EmptyConfig
  Payloads = {x, y}
  x = x
  y = y
  Blobs = {d}
  d = d
  EmptyPayload = EmptyPayload
  None = None
  Failed = Failed
INVARIANT TypeOK
INVARIANT LoadMatchesCaller
INVARIANT PayloadsMatchCommands
