CONSTANTS
  Argvs <- MCArgvs
  MaxDispatch = 3
  MaxEvents = 2
SPECIFICATION FairSpec
PROPERTY ReachesPollOrExit
CHECK_DEADLOCK FALSE
