----------------------------- MODULE MCCheckin -----------------------------
(* Small instances of Checkin for TLC. *)
EXTENDS Checkin, TLC

\* Requests, terminals, credentials and employees are interchangeable.
CheckinSymmetry ==
    Permutations(Req) \cup Permutations(Devices)
      \cup Permutations(Credentials) \cup Permutations(Employees)
=============================================================================
