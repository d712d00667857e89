--------------------------- MODULE MCSessionStore ---------------------------
(* A store of one tree with one node and a log of two ids, capped at one;  *)
(* two timer threads.                                                      *)
EXTENDS SessionStore, TLC

Symmetry == Permutations(Timer) \cup Permutations(Id)

==============================================================================
