---------------------------- MODULE CalendarPage ----------------------------
(***************************************************************************)
(* The page of the web frontend on which a user takes a computer at once.  *)
(* A click draws a bar on the row of its host before the Broker has        *)
(* answered; the answer gives the bar its reservation or removes it; and a *)
(* bar with a reservation is removed when the calendar that the page has   *)
(* loaded does not show the reservation any more.  The bars are kept in    *)
(* sessionStorage, so that they are there after a reload.                  *)
(*                                                                         *)
(* A reservation has the id of the click that made it.  The calendar is    *)
(* cached per date; only today's shows instant uses.  All happens within   *)
(* the window of the bars (untilIso).                                      *)
(***************************************************************************)
CONSTANTS Hosts, Clicks

\* The marks of a bar that has no reservation id are no ids.
ASSUME MarksAssumption == {"no bar", "no id"} \cap Clicks = {}

VARIABLES
    live,      \* the Broker: the reservations that are CONFIRMED
    view,      \* the date shown, or "away" on another page
    slots,     \* the cached calendar of each date: {} if there is none, or the set
               \* of the one set of reservations it shows
    offered,   \* the cached list of hosts that can be used at once
    bars,      \* confirmedInstants: the bar of each host
    stored,    \* the same in sessionStorage
    gone,      \* the bars of the page when it was last left
    pending,   \* pendingInstantHostId
    req,       \* what each click asked for, and how far it is
    left,      \* the clicks whose page was left before they were settled
    steady     \* history: the clicks since which nothing else has happened to the page

vars == <<live, view, slots, offered, bars, stored, gone, pending, req, left, steady>>

NoBar     == "no bar"
NoId      == "no id"          \* a bar without reservationId
NoHost    == "no host"
Dates     == {"today", "other"}

\* accepted and refused answers are on their way until they are handled; "refetch"
\* is an accepted one whose handler waits for the queries it has invalidated.  (An
\* "unheard" request is on its way too, from a page that is no more.)
InFlight == {"sent", "accepted", "refused", "refetch"}

NoBars == [h \in Hosts |-> NoBar]

Init ==
    /\ live = {} /\ view = "today"
    /\ slots = [d \in Dates |-> {}]
    /\ offered = Hosts
    /\ bars = NoBars /\ stored = NoBars /\ gone = NoBars
    /\ pending = NoHost
    /\ req = [c \in Clicks |-> [host |-> NoHost, at |-> "new"]]
    /\ left = {} /\ steady = {}

-----------------------------------------------------------------------------
At(c, step)  == req' = [req EXCEPT ![c].at = step]
Of(h)        == {c \in Clicks : req[c].host = h}
Waiting(h)   == {c \in Of(h) : req[c].at \in InFlight}
AllWaiting   == {c \in Clicks : req[c].at \in InFlight}

\* What the Broker answers to a query of the calendar, and of the hosts.
Shown(d)   == IF d = "today" THEN live ELSE {}
Idle       == {h \in Hosts : Of(h) \cap live = {}}

\* The effect that runs after each rendering of the page: a bar goes if its
\* reservation is not among the slots loaded for the date shown.
Checked(b, v, s) ==
    [h \in Hosts |-> IF b[h] \in Clicks /\ \E shown \in s[v] : b[h] \notin shown
                     THEN NoBar ELSE b[h]]

\* The page is rendered with bars b and the calendars s; what it writes is stored.
Render(b, v, s) == bars' = Checked(b, v, s) /\ stored' = Checked(b, v, s) /\ slots' = s

WithId(b, c)   == [h \in Hosts |-> IF h = req[c].host /\ b[h] # NoBar THEN c ELSE b[h]]
Without(b, c)  == [b EXCEPT ![req[c].host] = NoBar]

\* The handler of a page that was left sets the state of a component that is no
\* more; React may still evaluate the update, which writes the storage, or may not.
Unmounted(b) ==
    /\ stored' \in {stored, b}
    /\ UNCHANGED <<bars, slots, pending>>

-----------------------------------------------------------------------------
\* onInstantUse: the button is there for the hosts offered, on today's calendar.
Click(c, h) ==
    /\ view = "today" /\ h \in offered /\ pending # h
    /\ req[c].at = "new"
    /\ req' = [req EXCEPT ![c] = [host |-> h, at |-> "sent"]]
    /\ Render([bars EXCEPT ![h] = NoId], view, slots)
    /\ pending' = h
    /\ steady' = (steady \ Of(h)) \cup (IF Waiting(h) = {} THEN {c} ELSE {})
    /\ UNCHANGED <<live, view, offered, gone, left>>

\* POST /reservations/instant.
Accept(c) ==
    /\ req[c].at \in {"sent", "unheard"}
    /\ Of(req[c].host) \cap live = {}
    /\ live' = live \cup {c}
    /\ At(c, IF req[c].at = "sent" THEN "accepted" ELSE "over")
    /\ UNCHANGED <<view, slots, offered, bars, stored, gone, pending, left, steady>>

\* Another reservation, a quota, or no connection.
Refuse(c) ==
    /\ req[c].at = "sent"
    /\ At(c, "refused")
    /\ UNCHANGED <<live, view, slots, offered, bars, stored, gone, pending, left, steady>>

\* The request is served, and its answer is lost.
LoseAnswer(c) ==
    /\ req[c].at = "sent"
    /\ Of(req[c].host) \cap live = {}
    /\ live' = live \cup {c}
    /\ At(c, "refused")
    /\ UNCHANGED <<view, slots, offered, bars, stored, gone, pending, left, steady>>

\* onSuccess, up to the invalidation of the calendar: hosts are fetched again.
Success(c) ==
    /\ req[c].at = "accepted"
    /\ At(c, "refetch")
    /\ offered' \in {offered, Idle}
    /\ UNCHANGED <<live, view, slots, bars, stored, gone, pending, left, steady>>

\* Faulty variant: the id is set before the calendar is fetched.
ConfirmEarly(c) ==
    /\ req[c].at = "refetch"
    /\ At(c, "done")
    /\ IF c \in left THEN Unmounted(WithId(gone, c))
       ELSE /\ Render(WithId(bars, c), view, slots)
            /\ pending' = NoHost
    /\ UNCHANGED <<live, view, offered, gone, left, steady>>

\* onSuccess once the calendar has been fetched, or could not be; onSettled.
Confirm(c) ==
    /\ req[c].at = "refetch"
    /\ At(c, "done")
    /\ IF c \in left
       THEN Unmounted(WithId(gone, c)) /\ UNCHANGED steady
       ELSE /\ \/ /\ Render(WithId(bars, c), view, [slots EXCEPT ![view] = {Shown(view)}])
                  /\ UNCHANGED steady
               \/ /\ Render(WithId(bars, c), view, slots)
                  /\ steady' = steady \ {c}
            /\ pending' = NoHost
    /\ UNCHANGED <<live, view, offered, gone, left>>

\* Faulty variant: the bar is left where it is.
RollbackNothing(c) ==
    /\ req[c].at = "refused"
    /\ At(c, "over")
    /\ IF c \in left THEN Unmounted(gone)
       ELSE Render(bars, view, slots) /\ pending' = NoHost
    /\ UNCHANGED <<live, view, offered, gone, left, steady>>

\* onError: every bar of the host goes; onSettled.  (The queries that a 409
\* invalidates are fetched by Load and Poll.)
Rollback(c) ==
    /\ req[c].at = "refused"
    /\ At(c, "over")
    /\ IF c \in left THEN Unmounted(Without(gone, c))
       ELSE Render(Without(bars, c), view, slots) /\ pending' = NoHost
    /\ UNCHANGED <<live, view, offered, gone, left, steady>>

-----------------------------------------------------------------------------
\* The calendar of the date shown is fetched.
Load ==
    /\ view \in Dates
    /\ Render(bars, view, [slots EXCEPT ![view] = {Shown(view)}])
    /\ UNCHANGED <<live, view, offered, gone, pending, req, left, steady>>

\* availableHostsQuery, every 15 s while today is shown.
Poll ==
    /\ view = "today"
    /\ offered' = Idle
    /\ UNCHANGED <<live, view, slots, bars, stored, gone, pending, req, left, steady>>

\* The user chooses another date; what is cached for it is shown at once.
ShowDate(d) ==
    /\ view \in Dates \ {d}
    /\ view' = d
    /\ Render(bars, d, slots)
    /\ steady' = {}
    /\ UNCHANGED <<live, offered, gone, pending, req, left>>

\* The user goes to another page.
Leave ==
    /\ view \in Dates
    /\ view' = "away"
    /\ gone' = bars
    /\ left' = left \cup AllWaiting
    /\ steady' = {}
    /\ UNCHANGED <<live, slots, offered, bars, stored, pending, req>>

\* He comes back: the bars are those stored, the queries those cached.
Return ==
    /\ view = "away"
    /\ view' = "today"
    /\ Render(stored, "today", slots)
    /\ pending' = NoHost
    /\ UNCHANGED <<live, offered, gone, req, left, steady>>

\* The browser loads the application anew; nothing handles the answers to come.
Reload ==
    /\ view' = IF view = "away" THEN "away" ELSE "today"
    /\ slots' = [d \in Dates |-> {}]
    /\ bars' = stored
    /\ pending' = NoHost
    /\ offered' = Idle
    /\ left' = left \cup AllWaiting
    /\ gone' = NoBars /\ steady' = {}
    /\ req' = [c \in Clicks |-> CASE req[c].at = "sent" -> [req[c] EXCEPT !.at = "unheard"]
                                [] req[c].at \in InFlight \ {"sent"} ->
                                     [req[c] EXCEPT !.at = "over"]
                                [] OTHER -> req[c]]
    /\ UNCHANGED <<live, stored>>

\* A reservation is cancelled: on the page of the user's reservations, in another
\* tab, or by an administrator.
CancelReservation(c) ==
    /\ c \in live
    /\ live' = live \ {c}
    /\ UNCHANGED <<view, slots, offered, bars, stored, gone, pending, req, left, steady>>

Next ==
    \/ \E c \in Clicks, h \in Hosts : Click(c, h)
    \/ \E c \in Clicks :
          \/ Accept(c) \/ Refuse(c) \/ LoseAnswer(c) \/ Success(c)
          \/ Confirm(c) \/ Rollback(c) \/ CancelReservation(c)
    \/ \E d \in Dates : ShowDate(d)
    \/ Load \/ Poll \/ Leave \/ Return \/ Reload

Spec == Init /\ [][Next]_vars

-----------------------------------------------------------------------------
(* Properties.                                                             *)

\* A bar without a reservation, which nothing ever checks against the calendar, is
\* on the page only while a request for its host is under way; or else the page was
\* left, or loaded anew, while one was (then it may stay for the whole window, also
\* if the request was refused or the reservation has been cancelled).
GhostsOnlyIfLeft ==
    view \in Dates =>
        \A h \in Hosts : bars[h] = NoId => Waiting(h) # {} \/ Of(h) \cap left # {}

\* While the user stays on today's calendar and leaves the host alone, the bar of an
\* accepted click stays as long as its reservation lives, whatever is loaded and
\* whatever becomes of other clicks: the id is set only once the calendar shows it.
SteadyBarStays ==
    \A c \in steady \cap live : req[c].at = "done" => bars[req[c].host] = c
=============================================================================
