SPECIFICATION MCSpec
CONSTANTS
  first = first
  again = again
  second = second
  m1 = m1
  m2 = m2
  Deliveries <- MCDeliveries
  Id <- MCId
  Tabs = {ada}
  Nobody = Nobody
  AutoSend = TRUE
  Cap = 1
  QuoteCap = 2
  Price = 3
  MaxSteps = 2
  MinRuns = 2
  MaxBatch = 1
  MaxReplies = 2
  MaxClicks = 2
CHECK_DEADLOCK FALSE
INVARIANTS CalmThreads
PROPERTIES RailsHold QueueDrains
