---------------------------- MODULE MCReindexer ----------------------------
(* Bounded instances of Reindexer. *)
EXTENDS Reindexer
============================================================================
