SPECIFICATION MCSpec
CONSTANTS
  loop = loop
  a = a
  b = b
  u = u
  dev = dev
  group = group
  Threads = {loop, a, b}
  Loop = loop
  Users = {u, dev}
  FirstDev = dev
  Chats = {group}
  Untils = {0}
  Calls <- MCCalls
  ApiCalls <- MCApiCalls
  NoCall = NoCall
  Waiting = Waiting
  Failed = Failed
  NoOne = NoOne
  NoEntry = NoEntry
  NoFetch = NoFetch
  MaxAttempts = 2
  Ttl = 2
  FetchTime = 1
INVARIANTS
  TypeOK
  BanCacheMatches
  RankFresh
PROPERTIES
  ImplementsDatabase
  MutexReleased
CHECK_DEADLOCK TRUE
