\* One frame from the host net.
CONSTANTS
  ItemNumber = 2
  UmlFrames = 0
  Faults = 0
  SlirpFrames = 1
SPECIFICATION Spec
INVARIANTS OwnItemsOnly
CHECK_DEADLOCK FALSE
