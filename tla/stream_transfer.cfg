\* A message twice as long as the kernel's buffer.
CONSTANTS
  Length = 4
  Capacity = 2
  Faults = 2
SPECIFICATION FairSpec
INVARIANTS TypeOK ExactlyOnceInOrder ErrorsShow
PROPERTIES MessageArrives
