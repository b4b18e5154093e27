----------------------------- MODULE MCRpService -----------------------------
(* Instances of RpService for TLC: the requests are interchangeable.         *)
EXTENDS RpService, TLC

Symmetry == Permutations(Requests)
=============================================================================
