SPECIFICATION Spec
CONSTANTS
  b1 = b1
  b2 = b2
  t1 = t1
  t2 = t2
  c1 = c1
  c2 = c2
  Businesses = {b1, b2}
  Tokens = {t1, t2}
  Calls = {c1, c2}
  NoBusiness = NoBusiness
  NoToken = NoToken
  Account <- MCAccount
  Link <- MCLink
  FirstPlans = {"basic"}
  Period = 1
  Grants = {}
  MaxNow = 2
  MaxEvents = 3
  MaxFaults = 0
PROPERTIES
  EarlyLapseHeld
CHECK_DEADLOCK FALSE
