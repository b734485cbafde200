------------------------- MODULE MCParentTransition -------------------------
EXTENDS ParentTransition

CONSTANTS a, trunk, left, right, tip

\* A trunk with two branches, one of which goes on to a tip.
MCAbove == [e \in Entries |-> {trunk, e} \cup IF e = tip THEN {left} ELSE {}]

MCTurns == [r \in Records |-> 3]
=============================================================================
