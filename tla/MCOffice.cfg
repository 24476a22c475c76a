SPECIFICATION MCSpec
CONSTANTS
  Goods = {"a", "b"}
  FirstStock <- ConstStock
  Carts <- ConstCarts
  Tills = {w1, w2}
  MaxOrders = 2
  MaxCrashes = 1
  Clerks = {s1, s2}
  LeadPosts = {"new"}
  InstallPosts = {"scheduled", "completed"}
  MaxLeads = 2
  MaxLinks = 2
  MaxInstalls = 2
  Handlers = {h1, h2}
  MaxTurns = 2
  MaxDigits = 1
  Tickets = {t1}
  MaxPings = 2
  MaxBriefs = 2
  MaxKills = 1
  MaxSilent = 1
CHECK_DEADLOCK FALSE
INVARIANTS LeadsOnce FieldBounded
PROPERTIES PaidIsBooked CallsHold HumanHears
