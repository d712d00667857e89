---------------------------- MODULE MCCLISessions ----------------------------
(* Two runs that compete for the manager's lock.                            *)
EXTENDS CLISessions, TLC

Symmetry == Permutations(Run)

==============================================================================
