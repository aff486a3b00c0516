SPECIFICATION Spec
CONSTANTS
  u1 = u1
  u2 = u2
  b1 = b1
  b2 = b2
  c1 = c1
  c2 = c2
  Logins = {u1, u2}
  NoLogin = NoLogin
  Businesses = {b1, b2}
  NoBusiness = NoBusiness
  Calls = {c1, c2}
  BATCH_LIMIT = 2
  FirstOwners <- MCFirstOwners
  Shoppers = {u2}
  Undeletable = {u2}
  MaxEvents = 3
  MaxFaults = 1
CHECK_DEADLOCK FALSE
INVARIANT TypeOK
INVARIANT LoginInUseKept
INVARIANT DeletedMeansGone
PROPERTY OrphanedLoginRemoved
PROPERTY EventsResolve
