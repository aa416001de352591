------------------------- MODULE MCReservationViews -------------------------
(* A small instance of ReservationViews for TLC. *)
EXTENDS ReservationViews, TLC

\* Everything the instance can book, and a window that cuts reservations.
MCWindows == {<<0, 4 * Slot>>, <<Slot, 2 * Slot>>}

Symmetric == Permutations(Requests) \cup Permutations(Hosts)
=============================================================================
