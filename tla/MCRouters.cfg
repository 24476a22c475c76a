SPECIFICATION MCSpec
CONSTANTS
  m = m
  x = x
  ann = ann
  nobody = nobody
  w1 = w1
  w2 = w2
  Mikrotiks = {m}
  OpenWrts = {x}
  Resellers = {ann}
  NoOne = nobody
  Workers = {w1, w2}
  MaxRequests = 4
CHECK_DEADLOCK FALSE
INVARIANTS KeyPairMatches RowsAgree
PROPERTIES SerialClaimsConverge
