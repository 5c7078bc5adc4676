----------------------------- MODULE MCRequests -----------------------------
(* Small instances of Requests for TLC. *)
EXTENDS Requests, TLC

\* Handlers, rows and employees are interchangeable.
RequestsSymmetry == Permutations(Slots) \cup Permutations(Rows) \cup Permutations(Employees)
=============================================================================
