\* A connection that fails without an errno.
CONSTANTS
  Numbers = {3, 4, 5}
SPECIFICATION Spec
INVARIANTS ErrorOrConnected
CHECK_DEADLOCK FALSE
