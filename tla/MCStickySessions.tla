--------------------------- MODULE MCStickySessions ---------------------------
(* Model checking of StickySessions: sessions, targets and requests are        *)
(* interchangeable, the sources are not: one of them consults a selector.      *)
EXTENDS StickySessions, TLC

Symmetry == Permutations(Sessions) \union Permutations(Targets) \union Permutations(Requests)
===============================================================================
