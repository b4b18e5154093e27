SPECIFICATION FairSpec
CONSTANTS
  q1 = q1
  q2 = q2
  alice = alice
  bob = bob
  Questions = {q1, q2}
  Users = {alice, bob}
  AskerOf <- MCAskerOf
  MaxContext = 2
INVARIANTS
  TypeOK
  PromptComplete
  AnsweredOnce
  EditsShown
  AnswerLeft
PROPERTIES
  NotStuck
CHECK_DEADLOCK FALSE
