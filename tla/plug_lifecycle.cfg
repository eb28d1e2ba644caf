\* Every system call of the connection may fail; three descriptor numbers.
CONSTANTS
  Numbers = {3, 4, 5}
SPECIFICATION Spec
INVARIANTS TypeOK NoLeakOnFailure NoNullAddress CleanDestroy
CHECK_DEADLOCK FALSE
