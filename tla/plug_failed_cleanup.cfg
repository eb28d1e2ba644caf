\* destroy() after a failed connection.
CONSTANTS
  Numbers = {3, 4, 5}
SPECIFICATION Spec
INVARIANTS NoInvalidCleanup
CHECK_DEADLOCK FALSE
