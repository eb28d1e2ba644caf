\* Three handler objects, allocated and freed again and again.
CONSTANTS
  Objects = {o1, o2, o3}
  Null = Null
SPECIFICATION FairSpec
INVARIANTS TypeOK ChainIsList CursorValid EveryReadyServed
PROPERTIES ServedOnce RoundEnds
CHECK_DEADLOCK FALSE
