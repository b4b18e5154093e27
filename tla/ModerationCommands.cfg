SPECIFICATION MCSpec
CONSTANTS
  dev = dev
  ann = ann
  oleg = oleg
  bob = bob
  nobody = nobody
  chat = chat
  Users <- MCUsers
  NoUser = nobody
  Groups = {chat}
  Devs = {dev}
  Required <- MCRequired
  RankTables <- MCTables
  Messages <- MCMessages
  AdminCandidates = {bob, oleg}
  MaxCommands = 3
  MaxTicks = 2
  TicksPerSecond = 2
  MaxRestarts = 1
INVARIANTS
  TypeOK
  RankHierarchy
  OneReply
  CommandCooldown
PROPERTIES
  OwnersFixed
  BansByDevs
  EveryCommandAnswered
CHECK_DEADLOCK FALSE
