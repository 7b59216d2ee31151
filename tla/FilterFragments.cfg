CONSTANTS
  HostLittleEndian = TRUE
  Frames <- MCFrames
  Xid <- MCXid
SPECIFICATION Spec
INVARIANT FilterDropsFragments
