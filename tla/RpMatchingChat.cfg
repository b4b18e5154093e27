SPECIFICATION FairSpec
CONSTANTS
  ann = ann
  bob = bob
  oleg = oleg
  nobody = nobody
  Users <- MCUsers
  NoUser <- nobody
  Name <- MCName
  Messages <- MCMessages
  Edits <- MCEdits
  Defaults <- MCDefaults
  Slots <- MCSlots
  MaxEdits = 2
  MaxTrigger = 64
  MaxContext = 1
  Unwanted <- MCUnwanted
  Lower <- MCLower
INVARIANT RememberedClean
PROPERTIES ImplementsReactions EveryMessageHeeded
CHECK_DEADLOCK FALSE
