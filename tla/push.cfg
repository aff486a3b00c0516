SPECIFICATION Spec
CONSTANTS
  p1 = p1
  p2 = p2
  boss = boss
  clerk = clerk
  shop = shop
  other = other
  Phones = {p1, p2}
  Android = {p1}
  Logins = {boss, clerk}
  NoLogin = NoLogin
  Businesses = {shop, other}
  Employer <- MCEmployer
  NoToken = NoToken
  Scripts <- MCScripts
  MaxMoves = 3
  MaxWrites = 2
  MaxFaults = 1
\* Nothing is left to do when everybody has signed out and the bounds are used up.
CHECK_DEADLOCK FALSE
INVARIANTS TypeOK RoutesToHolder AlertArrives MailAfterDeadToken
