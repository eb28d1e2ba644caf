\* Four frames through rings of two items, with traffic in the other direction.
CONSTANTS
  ItemNumber = 2
  UmlFrames = 4
  Faults = 1
  SlirpFrames = 2
SPECIFICATION FairSpec
INVARIANTS TypeOK FramesInOrder NeverHangs
PROPERTIES EveryFrameForwarded
CHECK_DEADLOCK FALSE
