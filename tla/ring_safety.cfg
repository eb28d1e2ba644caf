\* Two producers and two consumers, blocking and not, on a ring of two items.
CONSTANTS
  ItemNumber = 2
  Producers = {p1, p2}
  Consumers = {c1, c2}
  ProduceModes = {TRUE, FALSE}
  ConsumeModes = {TRUE, FALSE}
SPECIFICATION Spec
SYMMETRY ThreadSymmetry
INVARIANTS TypeOK AssertsHold ExclusiveItems Conservation IInv
PROPERTIES ImplementsFifo
CHECK_DEADLOCK FALSE
