CONSTANTS
  Argvs <- MCArgvs
  MaxDispatch = 3
  MaxEvents = 2
SPECIFICATION Spec
INVARIANT ExitZeroOnlyOnSuccess
CHECK_DEADLOCK FALSE
