SPECIFICATION Spec
CONSTANTS
  s1 = s1
  s2 = s2
  s3 = s3
  s4 = s4
  p0 = p0
  p1 = p1
  p2 = p2
  c1 = c1
  c2 = c2
  Photos = {s1, s2, s3, s4}
  NoPhoto = NoPhoto
  Sniffed <- MCSniffed
  Declared <- MCDeclared
  TooLarge = {s4}
  Products = {p0, p1, p2}
  CreatedAt <- MCCreatedAt
  PhotosOf <- MCPhotosOf
  ForeignUrls = {p0}
  Calls = {c1, c2}
  MaxEvents = 3
  MaxFaults = 2
  MaxRemovals = 1
CHECK_DEADLOCK FALSE
SYMMETRY MCSymmetry
INVARIANT TypeOK
INVARIANT RowHasItsPhoto
INVARIANT BlockedNeverShared
INVARIANT SharedInTheEnd
INVARIANT NoStrayCopy
