-------------------------- MODULE MCProviderThrottle --------------------------
(* Three requests for two concurrency slots; two grants in two seconds.    *)
EXTENDS ProviderThrottle, TLC

Symmetry == Permutations(Request)

==============================================================================
