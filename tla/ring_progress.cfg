\* One producer, one consumer, both blocking: nobody waits for ever.
CONSTANTS
  ItemNumber = 2
  Producers = {p1}
  Consumers = {c1}
  ProduceModes = {TRUE}
  ConsumeModes = {TRUE}
SPECIFICATION ConsumingSpec
PROPERTIES ProduceReturns ReleasedIsConsumed
