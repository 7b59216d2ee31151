CONSTANTS
  Argvs <- MCArgvs
  MaxDispatch = 3
  MaxEvents = 2
SPECIFICATION Spec
INVARIANT NoLeakAtExit
INVARIANT RInv
CHECK_DEADLOCK FALSE
PROPERTY ErrorKept
