\* A single producer and two consumers that never ask to block.
CONSTANTS
  ItemNumber = 2
  Producers = {p1}
  Consumers = {c1, c2}
  ProduceModes = {FALSE}
  ConsumeModes = {FALSE}
SPECIFICATION StrongSpec
PROPERTIES NonBlockingReturns
CHECK_DEADLOCK FALSE
