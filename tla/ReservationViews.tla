-------------------------- MODULE ReservationViews --------------------------
(***************************************************************************)
(* What the read-only requests show of the calendar: the matrix of slots,  *)
(* a user's list, the hosts free in a slot and those free for an instant   *)
(* use.  Each is one SELECT (two for the matrix of all hosts), so each     *)
(* sees one committed state.                                               *)
(***************************************************************************)
EXTENDS Reservations

CONSTANT Windows    \* the pairs <<from, to>> that clients ask for

\* _is_grid_aligned on both ends, from before to; other windows are answered 422.
ASSUME WindowsAssumption ==
    /\ Windows \subseteq Nat \X Nat
    /\ \A v \in Windows : OnGrid(v[1]) /\ OnGrid(v[2]) /\ v[1] < v[2]

\* The user shown to those who may not see it (None) is no user's id.
ASSUME HiddenAssumption == "none" \notin Users

Free == [status |-> "OPEN", id |-> "none", user |-> "none"]

\* The starts of the slots of [f, t).
Cells(f, t) == {c \in f..t - 1 : (c - f) % Slot = 0}

\* Faulty variant: a start inside a slot is rounded up.
CursorsUp(r, f, t) ==
    LET from  == Max({r.lo, f})
        first == from + ((f - from) % Slot)
    IN  {c \in first..Min({r.hi, t}) - 1 : (c - first) % Slot = 0}

\* The cells build_calendar_matrix enters r in: from the slot its visible part
\* begins in, slot by slot, to its end.
Cursors(r, f, t) ==
    LET from  == Max({r.lo, f})
        first == from - ((from - f) % Slot)
    IN  {c \in first..Min({r.hi, t}) - 1 : (c - first) % Slot = 0}

\* The rows entered in the cell at c; the dictionary keeps one of them.
Entered(h, c, f, t) ==
    {r \in reservation : /\ ActiveRow(r) /\ r.host = h
                         /\ Overlaps(r, [lo |-> f, hi |-> t])
                         /\ c \in Cursors(r, f, t)}

MatrixCell(viewer, h, c, f, t) ==
    IF Entered(h, c, f, t) = {} THEN Free
    ELSE LET r == CHOOSE x \in Entered(h, c, f, t) : TRUE IN
         [status |-> "OCCUPIED", id |-> r.id,
          user |-> IF Access(viewer, r) THEN r.user ELSE "none"]

\* build_calendar_matrix, the row of one host.
Matrix(viewer, h, f, t) == [c \in Cells(f, t) |-> MatrixCell(viewer, h, c, f, t)]

\* Faulty variant: the ends count as inside.
ListedClosed(viewer, h, f, t) ==
    {r \in reservation : /\ ActiveRow(r) /\ Access(viewer, r)
                         /\ r.host = h /\ f <= r.hi /\ r.lo <= t}

\* list_reservations with a window and a host.
Listed(viewer, h, f, t) ==
    {r \in reservation : /\ ActiveRow(r) /\ Access(viewer, r)
                         /\ r.host = h /\ f < r.hi /\ r.lo < t}

\* GET /hosts/available?from=&to=.
AvailableIn(f, t) ==
    {h \in Hosts : /\ host[h] = "IDLE"
                   /\ ~\E r \in reservation : /\ r.host = h /\ r.status = "CONFIRMED"
                                              /\ Overlaps(r, [lo |-> f, hi |-> t])}

\* Faulty variant: the status alone says whether a host is free.
AvailableByStatus == {h \in Hosts : host[h] = "IDLE"}

\* list_instant_available_hosts, and the time it promises each host until.
AvailableNow ==
    {h \in Hosts : /\ host[h] = "IDLE"
                   /\ ~\E r \in reservation : r.host = h /\ ActiveRow(r) /\ Contains(r, now)}

AvailableUntil(h) == InstantEnd(now, LaterStarts(reservation, h, now))

-----------------------------------------------------------------------------
(* Properties.                                                             *)

\* The calendar shows what the table holds: a cell shows a reservation exactly if
\* the reservation takes some of the slot, also one that began inside the slot or
\* before the window; and a cell never has to hide one behind another, which needs
\* the grid, the window of instant uses and the absence of overlaps together.
MatrixShowsAll ==
    \A v \in Windows, u \in Users, h \in Hosts :
        LET row == Matrix(u, h, v[1], v[2]) IN
        \A c \in DOMAIN row :
            {r.id : r \in {x \in reservation :
                             ActiveRow(x) /\ Clash(x, [host |-> h, lo |-> c, hi |-> c + Slot])}}
              = IF row[c] = Free THEN {} ELSE {row[c].id}

\* The three queries agree: a user's list of a window is what the matrix shows as
\* the user's own in it, and an IDLE host is offered for a window exactly if the
\* matrix shows nothing in it.
QueriesAgree ==
    \A v \in Windows, u \in Users, h \in Hosts :
        LET row == Matrix(u, h, v[1], v[2]) IN
        /\ {r.id : r \in {x \in Listed(u, h, v[1], v[2]) : x.user = u}}
             = {row[c].id : c \in {x \in DOMAIN row : row[x].user = u}}
        /\ host[h] = "IDLE" =>
             (h \in AvailableIn(v[1], v[2]) <=> \A c \in DOMAIN row : row[c] = Free)

\* A host offered for instant use can be taken at once, up to the time promised:
\* that window is not empty and clashes with no reservation.
OffersHold ==
    \A h \in AvailableNow :
        /\ now < AvailableUntil(h)
        /\ \A r \in reservation :
              ActiveRow(r) => ~Clash(r, [host |-> h, lo |-> now, hi |-> AvailableUntil(h)])
=============================================================================
