CONSTANTS
  HostLittleEndian = TRUE
  Frames <- MCFrames
  Xid <- MCXid
SPECIFICATION Spec
INVARIANT FilterAdmitsReplies
INVARIANT FilterChecksReply
