SPECIFICATION MCSpec
CONSTANTS
  ana = ana
  bob = bob
  pa = pa
  pb = pb
  trial = trial
  paid = paid
  w1 = w1
  w2 = w2
  timer = timer
  Subscribers <- MCSubscribers
  Phones <- MCPhones
  Phone <- MCPhone
  Manual <- MCManual
  Plans <- MCPlans
  Free <- MCFree
  AutoRenew <- MCAutoRenew
  Workers <- MCWorkers
  Timer = timer
  Fragile <- MCFragile
  MaxRequests = 3
  MaxTime = 2
CHECK_DEADLOCK FALSE
INVARIANTS ManualNeverToken PlansInStep
PROPERTIES LoginRepairsRadius PinSticks OverdueEnds
