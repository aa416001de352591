------------------------------ MODULE Booking ------------------------------
(***************************************************************************)
(* What the reservation service promises, whatever the transactions under  *)
(* it do: a calendar per host whose entries never overlap.  An entry is    *)
(* booked in one indivisible step, and released in one; an entry that was  *)
(* released never comes back.                                              *)
(***************************************************************************)
EXTENDS Integers

CONSTANTS Ids, Hosts

VARIABLES
    booked,    \* the entries of the calendar
    released   \* the ids of the entries that have left it

Entry == [id: Ids, host: Hosts, lo: Nat, hi: Nat]

Free(e) == \A b \in booked : b.host = e.host => (e.hi <= b.lo \/ b.hi <= e.lo)

Init == booked = {} /\ released = {}

Book(e) ==
    /\ e.lo < e.hi
    /\ e.id \notin released
    /\ \A b \in booked : b.id # e.id
    /\ Free(e)
    /\ booked' = booked \cup {e}
    /\ UNCHANGED released

Release(b) ==
    /\ booked' = booked \ {b}
    /\ released' = released \cup {b.id}

Next ==
    \/ \E e \in booked' : e \in Entry /\ Book(e)
    \/ \E b \in booked : Release(b)

Spec == Init /\ [][Next]_<<booked, released>>
=============================================================================
