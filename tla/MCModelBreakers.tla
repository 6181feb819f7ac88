---------------------------- MODULE MCModelBreakers ----------------------------
(* Model checking of ModelBreakers: goroutines, names and identities are       *)
(* interchangeable.                                                            *)
EXTENDS ModelBreakers, TLC

Symmetry == Permutations(Requests) \union Permutations(Models) \union Permutations(Breakers)
===============================================================================
