--------------------------- MODULE MCCredentials ---------------------------
(* A small instance of Credentials for TLC: administrators demote users or *)
(* bar them. *)
EXTENDS Credentials, TLC

MCAdjustments == {[role |-> "user", active |-> FALSE]}

\* Requests differ by their names only.
Symmetric == Permutations(Requests)
=============================================================================
