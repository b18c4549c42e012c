SPECIFICATION Spec
CONSTANTS
  fifo_expire <- MCExpire
  FifoBatch = 1
  Garbage = {0, 5}
  Settings = {0, 1}
  Word = 6
  MaxRequests = 4
  MaxTime = 3
INVARIANT TypeOK
INVARIANT FrontExpiresFirst
INVARIANT WritesNotStarved
INVARIANT ExpiredWritesServed
