SPECIFICATION MCSpec
CONSTANTS
  MaxSubs = 2
  MaxUse = 2
  Logins = {l1, l2}
  Clients = {c1, c2}
  Prices <- ConstPrices
  SignupFee = 1
  MaxAttempts = 1
  MaxSends = 2
  MaxCodes = 5
  MaxCharges = 2
CHECK_DEADLOCK FALSE
INVARIANTS ServedAsHeld VouchersHold SignUpsHold
PROPERTIES OverdueEnds
