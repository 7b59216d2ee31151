CONSTANTS
  HostLittleEndian = TRUE
  Ifindexes = {1, 2}
  Xids <- MCXids
  Frames <- MCFrames
  FdSpace = {1, 2}
  MaxCalls = 3
  QueueCap = 2
  NoFilter = NoFilter
SPECIFICATION Spec
INVARIANT NoLeakedSocket
