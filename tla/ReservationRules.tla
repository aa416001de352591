-------------------------- MODULE ReservationRules --------------------------
(***************************************************************************)
(* The pure rules of the reservation service: time windows on the slot     *)
(* grid, the window of an instant use, and the two quotas.                 *)
(*                                                                         *)
(* Time is counted in ticks.  A reservation row is a record                *)
(*   [id, user, host, lo, hi, status]                                      *)
(* whose time_range is the half-open interval [lo, hi).                    *)
(***************************************************************************)
EXTENDS Integers, FiniteSets, FiniteSetsExt

CONSTANTS
    Slot,           \* ticks per grid slot         (reservation_slot_minutes)
    Day,            \* ticks per calendar day
    MaxDuration,    \* longest reservation         (max_reservation_duration_minutes)
    Lookahead,      \* how far ahead one may book  (reservation_lookahead_days)
    MaxConcurrent,  \* active reservations a user  (max_concurrent_reservations)
    MaxPerDay,      \* booked ticks a user and day (max_reservation_hours_per_day)
    InstantUse,     \* INSTANT_USE_DURATION
    Grace           \* connect_token_grace_seconds

ASSUME RulesAssumption ==
    /\ {Slot, Day, MaxDuration, MaxConcurrent} \subseteq Nat \ {0}
    /\ {Lookahead, MaxPerDay, InstantUse, Grace} \subseteq Nat
    /\ Day % Slot = 0

Status == {"CONFIRMED", "COMPLETED", "CANCELED"}

\* ACTIVE_RESERVATION_STATUSES, and the WHERE clause of reservations_no_overlap.
ActiveRow(r) == r.status \in {"CONFIRMED", "COMPLETED"}

\* time_range && time_range and time_range @> t, on half-open ranges.
Overlaps(a, b)  == a.lo < b.hi /\ b.lo < a.hi
Contains(r, t)  == r.lo <= t /\ t < r.hi

\* The pair reservations_no_overlap forbids among active rows.
Clash(a, b) == a.host = b.host /\ Overlaps(a, b)

OnGrid(t) == t % Slot = 0

\* _validate_window: what a client may ask for at time t.
ValidWindow(lo, hi, t) ==
    /\ OnGrid(lo) /\ OnGrid(hi)
    /\ lo < hi
    /\ hi - lo <= MaxDuration
    /\ t <= lo
    /\ lo <= t + Lookahead

\* issue_connect_token: when a token for [lo, hi) may be issued.
IssueWindow(lo, hi, t) == lo - Grace <= t /\ t < hi

\* get_active_reservation_for_host: CONFIRMED only.
InUseBy(rows, h, t) ==
    {r \in rows : r.host = h /\ r.status = "CONFIRMED" /\ Contains(r, t)}

\* Faulty variant: also a row that starts at t itself.
LaterStartsOrNow(rows, h, t) ==
    {r.lo : r \in {x \in rows : x.host = h /\ x.status = "CONFIRMED" /\ t <= x.lo}}

\* _next_reservation_start: the starts of the host's CONFIRMED rows after t.
LaterStarts(rows, h, t) ==
    {r.lo : r \in {x \in rows : x.host = h /\ x.status = "CONFIRMED" /\ t < x.lo}}

\* _instant_window: to the end of the slot InstantUse away, cut at the next start.
InstantEnd(t, starts) ==
    LET slotEnd == ((t + InstantUse) \div Slot) * Slot + Slot
    IN  Min({slotEnd} \cup starts)

\* _validate_quota, first SELECT: active rows of u that end after t.
Outstanding(rows, u, t) ==
    {r \in rows : r.user = u /\ ActiveRow(r) /\ t < r.hi}

\* _validate_quota, second SELECT: the day [DayStart, DayStart + Day) of a start,
\* in the time zone the client wrote it in (zone ticks east of UTC), and the
\* ticks u has booked inside that day.
DayStart(lo, zone) == ((lo + zone) \div Day) * Day - zone

Clipped(r, d) == Min({r.hi, d + Day}) - Max({r.lo, d})

BookedInDay(rows, u, d) ==
    MapThenSumSet(LAMBDA r : Clipped(r, d),
                  {r \in rows : /\ r.user = u
                                /\ ActiveRow(r)
                                /\ Overlaps(r, [lo |-> d, hi |-> d + Day])})

\* Faulty variants of the two checks below: ">" for ">=", and the new reservation
\* itself left out of the sum.
OverCountOffByOne(rows, u, t) == Cardinality(Outstanding(rows, u, t)) > MaxConcurrent

OverDayUsedOnly(rows, u, lo, hi, zone) ==
    BookedInDay(rows, u, DayStart(lo, zone)) > MaxPerDay

\* Both checks as the code makes them: ">=" for the count; the whole new
\* duration, also the part of it after midnight, against the first day.
OverCount(rows, u, t) == Cardinality(Outstanding(rows, u, t)) >= MaxConcurrent

OverDay(rows, u, lo, hi, zone) ==
    BookedInDay(rows, u, DayStart(lo, zone)) + (hi - lo) > MaxPerDay
=============================================================================
