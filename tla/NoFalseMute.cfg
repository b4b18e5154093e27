SPECIFICATION Spec
CONSTANTS
  Messages = {m1, m2, m3, m4}
  Senders = {s1, s2}
  NoSender = NoSender
  CallerStamps = {}
  SpamWindow = 2
  SpamLimit = 1
  TrackedCap = 1
  PrivilegedMaxRank = 3
  MaxClock = 3
SYMMETRY Symmetry
INVARIANTS
  NoFalseMute
CHECK_DEADLOCK FALSE
