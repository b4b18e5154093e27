SPECIFICATION FairSpec
CONSTANTS
  Requests = {r1}
  Urls = {u1}
  NoRequest = NoRequest
  Ttl = 1
  ReadDelay = 0
  MaxClock = 2
  MaxRestarts = 1
PROPERTIES
  ArchivesSwept
