--------------------------- MODULE MCServingLiveness ---------------------------
(* Two processes, alike; a unit of time is two poll intervals of the code. *)
EXTENDS ServingLiveness, TLC

Alike == Permutations(Procs)
================================================================================
