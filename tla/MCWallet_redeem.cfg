SPECIFICATION OverlapSpec
CONSTANTS
  s1 = s1 s2 = s2 c1 = c1 c2 = c2 c0 = c0 p1 = p1 p0 = p0 w1 = w1 w2 = w2
  NoOne = NoOne
  NoRequest = NoRequest
  CardValue <- MCCardValue
  Price <- MCPrice
  Plans = {p1, p0}
  Subscribers = {s1, s2}
  Cards = {c1, c0}
  Workers = {w1, w2}
  Fragile = {}
INVARIANTS
  CardCreditedOnce
