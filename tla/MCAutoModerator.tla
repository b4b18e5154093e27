-------------------------- MODULE MCAutoModerator --------------------------
(* Instances of AutoModerator for TLC; messages and senders are             *)
(* interchangeable.                                                         *)
EXTENDS AutoModerator, TLC

Symmetry == Permutations(Messages) \union Permutations(Senders)
=============================================================================
