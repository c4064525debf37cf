CONSTANTS
  Values = {a, b}
  Nothing = Nothing
  Capacity = 4
  Wrap = 16
  NumProducers = 3
  QueueCapacity = 2
SPECIFICATION MCSpec
INVARIANTS
  IndexOrder
  NoSlotRace
  NothingMissed
  BoundedOvertaking
PROPERTIES
  ImplementsFifo
  ItemsAreTaken
  RetriesGetThrough
  NoStarvation
