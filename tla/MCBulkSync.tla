----------------------------- MODULE MCBulkSync -----------------------------
(* Small instances of BulkSync for TLC; the order of the ids matters, so no *)
(* symmetry. *)
EXTENDS BulkSync
=============================================================================
