------------------------------ MODULE MCAutoformat ------------------------------
(***************************************************************************)
(* Two files with different chains behind a wildcard chain of a dispatcher *)
(* group and a formatter.                                                  *)
(***************************************************************************)
EXTENDS Autoformat

CONSTANTS a, b

Single(n) == [kind |-> "single", of |-> <<n>>]
Fallback(first, second) == [kind |-> "fallback", of |-> <<first, second>>]

MCWild == <<Fallback("treefmt", "treefmt-nix"), Single("lint")>>
MCOwn == [f \in Files |-> IF f = a THEN <<Single("prettier"), Single("treefmt-nix")>> ELSE <<Fallback("biome", "treefmt")>>]
================================================================================
