---------------------------- MODULE MCAiRequests ----------------------------
(* Instances of AiRequests for TLC: two questions of one or two people.      *)
EXTENDS AiRequests, TLC

CONSTANTS q1, q2, alice, bob

MCAskerOf == (q1 :> alice) @@ (q2 :> bob)
=============================================================================
