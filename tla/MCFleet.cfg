SPECIFICATION MCSpec
CONSTANTS
  open = open
  mikro = mikro
  Routers = {open, mikro}
  Mikrotiks = {mikro}
  Strikes = 2
  Ceiling = 3
  MaxLog = 3
  MaxCrashes = 1
  e1 = e1
  e2 = e2
  e3 = e3
  wifi1 = wifi1
  Ethers = {e1, e2, e3}
  Radios = {wifi1}
  ether1 = e1
CHECK_DEADLOCK FALSE
PROPERTIES HysteresisHolds WatchedIsTold EventsSettled WiringHolds
