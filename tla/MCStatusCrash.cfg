CONSTANTS
  MaxRows = 1
SPECIFICATION SSSpec
INVARIANT NoServerCrash
CHECK_DEADLOCK FALSE
