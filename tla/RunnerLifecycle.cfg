CONSTANTS
  Argvs <- MCArgvs
  MaxDispatch = 3
  MaxEvents = 2
SPECIFICATION Spec
CHECK_DEADLOCK FALSE
PROPERTY Lifecycle
