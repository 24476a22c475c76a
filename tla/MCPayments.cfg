SPECIFICATION MCSpec
CONSTANTS
  sw = sw
  rn = rn
  rcg = rcg
  eze = eze
  References <- MCReferences
  Recharges <- MCRecharges
  Leads <- MCLeads
  Lead <- MCLead
  Solo = {rcg, sw}
  Workers = {w1, w2}
  NoOne = NoOne
  NoRequest = NoRequest
  MaxRepeats = 1
  MaxCrashes = 1
  Banks = {gtb, uba}
  NoBank = NoBank
  Desks = {d1, d2}
  MaxSaves = 3
  MaxStatus = 1
CHECK_DEADLOCK FALSE
INVARIANTS ServedIsPaid SoloServedOnce
PROPERTIES SettlesForGood ResellerIsPaid
