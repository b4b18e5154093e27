SPECIFICATION Spec
CONSTANTS
  q1 = q1
  q2 = q2
  alice = alice
  bob = bob
  Questions = {q1, q2}
  Users = {alice, bob}
  AskerOf <- MCAskerOf
  MaxContext = 2
INVARIANT AnswerReachesChat
CHECK_DEADLOCK FALSE
