CONSTANTS
  Inputs <- MCInputs
SPECIFICATION Spec
INVARIANT ParsesReference
INVARIANT HInv
CHECK_DEADLOCK FALSE
