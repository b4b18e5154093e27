SPECIFICATION FairSpec
CONSTANTS
  Requests = {r1, r2}
  Urls = {u1, u2}
  NoRequest = NoRequest
  Ttl = 2
  ReadDelay = 1
  MaxClock = 3
  MaxRestarts = 1
INVARIANTS
  OneCloneAtATime
  CachedOnDisk
  ReturnedOnDisk
  NothingLeftBehind
PROPERTIES
  EveryRequestAnswered
  ExpiredSwept
