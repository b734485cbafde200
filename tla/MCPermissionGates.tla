--------------------------- MODULE MCPermissionGates ---------------------------
(***************************************************************************)
(* One call and one forwarded request over one target: a read of a skill's *)
(* file, a write outside the working directory, a command that reads one   *)
(* path and writes another there, a command with a token whose effect it   *)
(* does not prove.                                                         *)
(***************************************************************************)
EXTENDS PermissionGates

Part(producer, surfaces) == [by |-> producer, on |-> surfaces \X {"t"}]

MCCallShapes ==
    {<<Part("skill", {"skill"}), Part("path", {"path_read"})>>,
     <<Part("external", {"path_write"})>>,
     <<Part("bash_external", {"path_read", "path_write"})>>,
     <<Part("bash_path", {"path"}), Part("tool", {"bash"})>>}
MCRequestShapes == {{<<"path_write", "t">>}}
================================================================================
