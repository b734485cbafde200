----------------------- MODULE MCPermissionForwarding -----------------------
(* Bounded instances of PermissionForwarding. *)
EXTENDS PermissionForwarding
=============================================================================
