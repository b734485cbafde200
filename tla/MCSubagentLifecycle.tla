------------------------ MODULE MCSubagentLifecycle ------------------------
(* Bounded instances of SubagentLifecycle. *)
EXTENDS SubagentLifecycle
============================================================================
