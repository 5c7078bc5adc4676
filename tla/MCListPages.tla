---------------------------- MODULE MCListPages ----------------------------
(* Small instances of ListPages for TLC. *)
EXTENDS ListPages

AllPages == {"employees", "credentials", "devices", "approvals", "requests", "log", "portal", "board"}
=============================================================================
