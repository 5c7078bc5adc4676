-------------------------- MODULE MCCredentialSync --------------------------
(* Small instances of CredentialSync for TLC. *)
EXTENDS CredentialSync, TLC

\* Terminals are interchangeable; employees are not, where some are removable.
SyncSymmetry == Permutations(Devices)
=============================================================================
