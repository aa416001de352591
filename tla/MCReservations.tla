--------------------------- MODULE MCReservations ---------------------------
(* Small instances of Reservations for TLC. *)
EXTENDS Reservations, TLC

\* Ids are interchangeable: no definition chooses among them.
Symmetric == Permutations(Requests) \cup Permutations(Hosts)
=============================================================================
