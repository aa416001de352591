-------------------------- MODULE CalendarPageProofs --------------------------
(***************************************************************************)
(* Proofs about CalendarPage, for any number of clicks on any number of    *)
(* hosts, wherever the user goes meanwhile.                                *)
(***************************************************************************)
EXTENDS CalendarPage, TLAPS

\* What a bar shows, and how far a click may be.
Marks  == Clicks \cup {NoBar, NoId}
Stages == InFlight \cup {"new", "unheard", "done", "over"}
Bars   == [Hosts -> Marks]

PageTypes ==
    /\ view \in Dates \cup {"away"}
    /\ slots \in [Dates -> SUBSET (SUBSET Clicks)]
    /\ offered \subseteq Hosts
    /\ bars \in Bars /\ stored \in Bars /\ gone \in Bars
    /\ req \in [Clicks -> [host : Hosts \cup {NoHost}, at : Stages]]
    /\ live \subseteq Clicks /\ left \subseteq Clicks /\ steady \subseteq Clicks

\* A click that was left, or is steady, has been made; nothing waits unnoticed on a
\* page that is not shown.
Made ==
    /\ \A c \in left \cup steady : req[c].at # "new"
    /\ view = "away" => AllWaiting \subseteq left

\* What accounts for a bar without a reservation.
Backed(h) == Waiting(h) # {} \/ Of(h) \cap left # {}

\* The bars without a reservation, on the page, in the storage, and in the state of
\* the page last left: those only the clicks that were left can account for.
Ghosts ==
    \A h \in Hosts :
        /\ bars[h] = NoId => Backed(h)
        /\ stored[h] = NoId => Backed(h)
        /\ gone[h] = NoId => Of(h) \cap left # {}

\* A steady click is the only one under way for its host, on today's calendar.
Alone ==
    /\ steady # {} => view = "today"
    /\ \A c \in steady : /\ req[c].host \in Hosts /\ c \notin left
                         /\ Waiting(req[c].host) \subseteq {c}

\* Its bar waits for its id, and then is in whatever calendar of today is loaded.
Steady ==
    \A c \in steady :
        /\ req[c].at \in InFlight => bars[req[c].host] = NoId
        /\ c \in live /\ req[c].at = "done" =>
              /\ bars[req[c].host] = c
              /\ \A shown \in slots["today"] : c \in shown

PageInv == PageTypes /\ Made /\ Ghosts /\ Alone /\ Steady

-----------------------------------------------------------------------------
(* The operators.                                                          *)

\* Checking the bars against a calendar removes only bars that have an id.
LEMMA CheckedBars ==
    ASSUME NEW b \in Bars, NEW v, NEW s
    PROVE  /\ Checked(b, v, s) \in Bars
           /\ \A h \in Hosts : /\ Checked(b, v, s)[h] = NoId <=> b[h] = NoId
                               /\ (\A shown \in s[v] : b[h] \in shown)
                                     => Checked(b, v, s)[h] = b[h]
<1>1. NoId \notin Clicks /\ NoBar # NoId
  BY MarksAssumption DEF NoBar, NoId
<1> QED BY <1>1 DEF Checked, Bars, Marks

\* An answer changes the bar of its own host only, and leaves none without an id.
LEMMA AnsweredBars ==
    ASSUME NEW b \in Bars, NEW c \in Clicks
    PROVE  /\ WithId(b, c) \in Bars /\ Without(b, c) \in Bars
           /\ \A h \in Hosts \ {req[c].host} :
                 WithId(b, c)[h] = b[h] /\ Without(b, c)[h] = b[h]
           /\ \A h \in Hosts : h = req[c].host =>
                 /\ WithId(b, c)[h] # NoId /\ Without(b, c)[h] # NoId
                 /\ b[h] = NoId => WithId(b, c)[h] = c
<1>1. NoId \notin Clicks /\ NoBar # NoId
  BY MarksAssumption DEF NoBar, NoId
<1> QED BY <1>1 DEF WithId, Without, Bars, Marks

\* What a step of a click does to the requests: its own is a step further, and no
\* request is for another host.
LEMMA AtStep ==
    ASSUME PageTypes, NEW c \in Clicks, NEW step \in Stages, At(c, step)
    PROVE  /\ req' \in [Clicks -> [host : Hosts \cup {NoHost}, at : Stages]]
           /\ \A d \in Clicks : /\ req'[d].host = req[d].host
                                /\ req'[d].at = IF d = c THEN step ELSE req[d].at
BY DEF PageTypes, At

\* The requests after the application has been loaded anew.
LEMMA ReloadRequests ==
    ASSUME PageTypes, Reload
    PROVE  /\ req' \in [Clicks -> [host : Hosts \cup {NoHost}, at : Stages]]
           /\ \A d \in Clicks :
                 /\ req'[d].host = req[d].host /\ req'[d].at \notin InFlight
                 /\ req'[d].at = "new" => req[d].at = "new"
<1>1. \A d \in Clicks : req[d] \in [host : Hosts \cup {NoHost}, at : Stages]
  BY DEF PageTypes
<1> DEFINE settled(d) == CASE req[d].at = "sent" -> [req[d] EXCEPT !.at = "unheard"]
                           [] req[d].at \in InFlight \ {"sent"} -> [req[d] EXCEPT !.at = "over"]
                           [] OTHER -> req[d]
<1>2. ASSUME NEW d \in Clicks
      PROVE  /\ settled(d) \in [host : Hosts \cup {NoHost}, at : Stages]
             /\ settled(d).host = req[d].host /\ settled(d).at \notin InFlight
             /\ settled(d).at = "new" => req[d].at = "new"
  <2>1. CASE req[d].at = "sent"
    <3>1. settled(d) = [req[d] EXCEPT !.at = "unheard"]
      BY <2>1
    <3> QED BY <1>1, <3>1 DEF Stages, InFlight
  <2>2. CASE req[d].at \in InFlight \ {"sent"}
    <3>1. settled(d) = [req[d] EXCEPT !.at = "over"]
      BY <2>2
    <3> QED BY <1>1, <3>1 DEF Stages, InFlight
  <2>3. CASE req[d].at \notin InFlight
    <3>1. settled(d) = req[d]
      BY <2>3 DEF InFlight
    <3> QED BY <1>1, <2>3, <3>1
  <2> QED BY <2>1, <2>2, <2>3
<1>3. req' = [d \in Clicks |-> settled(d)]
  BY DEF Reload
<1> HIDE DEF settled
<1> QED BY <1>2, <1>3

\* A page that is rendered, and the update of one that is no more, keep their types.
LEMMA RenderTypes ==
    ASSUME PageTypes, NEW b \in Bars, NEW v,
           NEW s \in [Dates -> SUBSET (SUBSET Clicks)], Render(b, v, s)
    PROVE  /\ bars' = Checked(b, v, s) /\ stored' = Checked(b, v, s) /\ slots' = s
           /\ bars' \in Bars /\ stored' \in Bars
BY CheckedBars DEF Render

LEMMA UnmountedTypes ==
    ASSUME PageTypes, NEW b \in Bars, Unmounted(b)
    PROVE  stored' \in Bars /\ bars' = bars /\ slots' = slots
BY DEF Unmounted, PageTypes

\* The calendar of the date shown, as the Broker answers it.
LEMMA LoadedSlots ==
    ASSUME PageTypes
    PROVE  /\ [slots EXCEPT ![view] = {Shown(view)}] \in [Dates -> SUBSET (SUBSET Clicks)]
           /\ view = "today" => [slots EXCEPT ![view] = {Shown(view)}]["today"] = {live}
<1>1. {Shown(view)} \in SUBSET (SUBSET Clicks) /\ slots \in [Dates -> SUBSET (SUBSET Clicks)]
  BY DEF PageTypes, Shown
<1>2. view = "today" => Shown(view) = live /\ view \in Dates
  BY DEF Shown, Dates
<1> QED BY <1>1, <1>2

-----------------------------------------------------------------------------
(* Types.                                                                  *)

LEMMA TypesKept ==
    ASSUME PageTypes, [Next]_vars
    PROVE  PageTypes'
<1> USE DEF PageTypes
<1>1. ASSUME NEW c \in Clicks, NEW h \in Hosts, Click(c, h)
      PROVE  PageTypes'
  <2>1. [bars EXCEPT ![h] = NoId] \in Bars
    BY DEF Bars, Marks
  <2>2. bars' \in Bars /\ stored' \in Bars /\ slots' = slots
    BY <1>1, <2>1, RenderTypes DEF Click
  <2>3. req' \in [Clicks -> [host : Hosts \cup {NoHost}, at : Stages]]
    BY <1>1 DEF Click, Stages, InFlight
  <2> QED BY <1>1, <2>2, <2>3 DEF Click
<1>2. ASSUME NEW c \in Clicks, Accept(c) \/ LoseAnswer(c)
      PROVE  PageTypes'
  <2>1. PICK step \in {"accepted", "over", "refused"} : At(c, step)
    BY <1>2 DEF Accept, LoseAnswer
  <2>2. step \in Stages
    BY DEF Stages, InFlight
  <2> QED BY <1>2, <2>1, <2>2, AtStep DEF Accept, LoseAnswer
<1>3. ASSUME NEW c \in Clicks, Refuse(c) \/ Success(c)
      PROVE  PageTypes'
  <2>1. PICK step \in {"refused", "refetch"} : At(c, step)
    BY <1>3 DEF Refuse, Success
  <2>2. step \in Stages
    BY DEF Stages, InFlight
  <2>3. Idle \subseteq Hosts
    BY DEF Idle
  <2> QED BY <1>3, <2>1, <2>2, <2>3, AtStep DEF Refuse, Success
<1>4. ASSUME NEW c \in Clicks, Confirm(c)
      PROVE  PageTypes'
  <2>1. req' \in [Clicks -> [host : Hosts \cup {NoHost}, at : Stages]]
    <3>1. "done" \in Stages
      BY DEF Stages
    <3> QED BY <1>4, <3>1, AtStep DEF Confirm
  <2>2. CASE c \in left
    <3>1. stored' \in Bars /\ bars' = bars /\ slots' = slots
      BY <1>4, <2>2, AnsweredBars, UnmountedTypes DEF Confirm
    <3> QED BY <1>4, <2>1, <2>2, <3>1 DEF Confirm
  <2>3. CASE c \notin left
    <3>1. PICK s \in {slots, [slots EXCEPT ![view] = {Shown(view)}]} :
            Render(WithId(bars, c), view, s)
      BY <1>4, <2>3 DEF Confirm
    <3>2. s \in [Dates -> SUBSET (SUBSET Clicks)]
      BY <3>1, LoadedSlots
    <3>3. bars' \in Bars /\ stored' \in Bars /\ slots' = s
      BY <3>1, <3>2, AnsweredBars, RenderTypes
    <3>4. steady' \subseteq Clicks
      BY <1>4, <2>3 DEF Confirm
    <3> QED BY <1>4, <2>1, <3>2, <3>3, <3>4 DEF Confirm
  <2> QED BY <2>2, <2>3
<1>5. ASSUME NEW c \in Clicks, Rollback(c)
      PROVE  PageTypes'
  <2>1. req' \in [Clicks -> [host : Hosts \cup {NoHost}, at : Stages]]
    <3>1. "over" \in Stages
      BY DEF Stages
    <3> QED BY <1>5, <3>1, AtStep DEF Rollback
  <2>2. bars' \in Bars /\ stored' \in Bars /\ slots' = slots
    BY <1>5, AnsweredBars, UnmountedTypes, RenderTypes DEF Rollback
  <2> QED BY <1>5, <2>1, <2>2 DEF Rollback
<1>6. ASSUME Load
      PROVE  PageTypes'
  <2>1. bars' \in Bars /\ stored' \in Bars /\ slots' \in [Dates -> SUBSET (SUBSET Clicks)]
    <3>1. PICK s \in [Dates -> SUBSET (SUBSET Clicks)] : Render(bars, view, s)
      BY <1>6, LoadedSlots DEF Load
    <3> QED BY <3>1, RenderTypes
  <2> QED BY <1>6, <2>1 DEF Load
<1>7. ASSUME NEW d \in Dates, ShowDate(d)
      PROVE  PageTypes'
  <2>1. bars' \in Bars /\ stored' \in Bars /\ slots' = slots
    BY <1>7, RenderTypes DEF ShowDate
  <2> QED BY <1>7, <2>1 DEF ShowDate
<1>8. ASSUME Return
      PROVE  PageTypes'
  <2>1. bars' \in Bars /\ stored' \in Bars /\ slots' = slots
    BY <1>8, RenderTypes DEF Return
  <2> QED BY <1>8, <2>1 DEF Return, Dates
<1>9. ASSUME Reload
      PROVE  PageTypes'
  <2>1. NoBars \in Bars /\ Idle \subseteq Hosts
    BY DEF NoBars, Bars, Marks, Idle
  <2>2. AllWaiting \subseteq Clicks
    BY DEF AllWaiting
  <2> QED BY <1>9, <2>1, <2>2, ReloadRequests DEF Reload, Dates
<1>10. ASSUME Leave
       PROVE  PageTypes'
  BY <1>10 DEF Leave, AllWaiting
<1>11. ASSUME Poll \/ (\E c \in Clicks : CancelReservation(c)) \/ UNCHANGED vars
       PROVE  PageTypes'
  BY <1>11 DEF Poll, CancelReservation, Idle, vars
<1> QED BY <1>1, <1>2, <1>3, <1>4, <1>5, <1>6, <1>7, <1>8, <1>9, <1>10, <1>11 DEF Next

-----------------------------------------------------------------------------
(* The requests of the clicks, and what accounts for a bar without an id.  *)

\* A click that has been made is for its host for good; it is under way from then on
\* until its answer has been handled, or the page is no more.
LEMMA RequestsMove ==
    ASSUME PageTypes, Next
    PROVE  /\ left \subseteq left'
           /\ \A d \in Clicks :
                 /\ req[d].at # "new" => req'[d].host = req[d].host /\ req'[d].at # "new"
                 /\ req'[d].at \in InFlight
                       => req[d].at \in InFlight \/ \E h \in Hosts : Click(d, h)
                 /\ req[d].at \in InFlight
                       => \/ req'[d].at \in InFlight \/ d \in left'
                          \/ Confirm(d) \/ Rollback(d)
<1> DEFINE Kept ==
      \A d \in Clicks :
         /\ req[d].at # "new" => req'[d].host = req[d].host /\ req'[d].at # "new"
         /\ req'[d].at \in InFlight
               => req[d].at \in InFlight \/ \E h \in Hosts : Click(d, h)
         /\ req[d].at \in InFlight
               => req'[d].at \in InFlight \/ d \in left' \/ Confirm(d) \/ Rollback(d)
<1>1. ASSUME NEW c \in Clicks, NEW h \in Hosts, Click(c, h)
      PROVE  Kept /\ left' = left
  <2>1. /\ req[c].at = "new" /\ left' = left
        /\ \A d \in Clicks : req'[d] = IF d = c THEN [host |-> h, at |-> "sent"] ELSE req[d]
    BY <1>1 DEF Click, PageTypes
  <2> QED BY <1>1, <2>1 DEF InFlight
<1>2. ASSUME NEW c \in Clicks, Accept(c) \/ LoseAnswer(c) \/ Refuse(c) \/ Success(c)
      PROVE  Kept /\ left' = left
  <2>1. PICK step \in {"accepted", "refused", "refetch", "over"} :
          /\ At(c, step) /\ left' = left
          /\ IF step = "over" THEN req[c].at = "unheard" ELSE req[c].at \in InFlight \cup {"unheard"}
          /\ step \in InFlight => req[c].at \in InFlight
    BY <1>2 DEF Accept, LoseAnswer, Refuse, Success, InFlight
  <2>2. \A d \in Clicks : /\ req'[d].host = req[d].host
                          /\ req'[d].at = IF d = c THEN step ELSE req[d].at
    BY <2>1, AtStep DEF Stages, InFlight
  <2> QED BY <2>1, <2>2 DEF InFlight
<1>3. ASSUME NEW c \in Clicks, Confirm(c) \/ Rollback(c)
      PROVE  Kept /\ left' = left
  <2>1. PICK step \in {"done", "over"} : At(c, step) /\ left' = left
    BY <1>3 DEF Confirm, Rollback
  <2>2. \A d \in Clicks : /\ req'[d].host = req[d].host
                          /\ req'[d].at = IF d = c THEN step ELSE req[d].at
    BY <2>1, AtStep DEF Stages
  <2> QED BY <1>3, <2>1, <2>2 DEF InFlight
<1>4. ASSUME Reload
      PROVE  Kept /\ left \subseteq left'
  <2>1. left' = left \cup AllWaiting
    BY <1>4 DEF Reload
  <2> QED BY <1>4, <2>1, ReloadRequests DEF AllWaiting
<1>5. ASSUME \/ Load \/ Poll \/ Leave \/ Return \/ \E d \in Dates : ShowDate(d)
             \/ \E c \in Clicks : CancelReservation(c)
      PROVE  Kept /\ left \subseteq left'
  <2>1. req' = req /\ left \subseteq left'
    BY <1>5 DEF Load, Poll, Leave, Return, ShowDate, CancelReservation
  <2> QED BY <2>1
<1> QED BY <1>1, <1>2, <1>3, <1>4, <1>5 DEF Next

\* No two answers are handled in one step.
LEMMA OneSettled ==
    ASSUME PageTypes, NEW c \in Clicks, Confirm(c) \/ Rollback(c),
           NEW d \in Clicks, Confirm(d) \/ Rollback(d)
    PROVE  c = d
<1>1. \A e \in Clicks : req'[e].at = IF e = c THEN req'[c].at ELSE req[e].at
  BY AtStep DEF Confirm, Rollback, Stages
<1>2. req[d].at \in {"refetch", "refused"} /\ req'[d].at \in {"done", "over"}
  BY AtStep DEF Confirm, Rollback, Stages
<1> QED BY <1>1, <1>2

\* What accounts for a bar stays, unless the answer the bar waited for is handled.
LEMMA BackingKept ==
    ASSUME PageTypes, Made, Next, NEW h \in Hosts
    PROVE  /\ Of(h) \cap left # {} => (Of(h) \cap left # {})'
           /\ Backed(h) => \/ Backed(h)'
                           \/ \E c \in Of(h) \ left : Confirm(c) \/ Rollback(c)
<1>1. Of(h) \cap left \subseteq (Of(h) \cap left)'
  BY RequestsMove DEF Of, Made
<1>2. ASSUME NEW c \in Waiting(h), c \notin left, ~Confirm(c), ~Rollback(c)
      PROVE  c \in (Waiting(h) \cup (Of(h) \cap left))'
  <2>1. c \in Clicks /\ req[c].host = h /\ req[c].at \in InFlight /\ req[c].at # "new"
    BY DEF Waiting, Of, InFlight
  <2> QED BY <1>2, <2>1, RequestsMove DEF Waiting, Of
<1>3. Waiting(h) \subseteq Of(h)
  BY DEF Waiting
<1> QED BY <1>1, <1>2, <1>3 DEF Backed

LEMMA MadeKept ==
    ASSUME PageTypes, PageTypes', Made, [Next]_vars
    PROVE  Made'
<1>1. CASE UNCHANGED vars
  BY <1>1 DEF Made, vars, AllWaiting
<1>2. ASSUME NEW c \in Clicks, NEW h \in Hosts, Click(c, h)
      PROVE  Made'
  <2>1. /\ \A d \in Clicks : req'[d] = IF d = c THEN [host |-> h, at |-> "sent"] ELSE req[d]
        /\ left' = left /\ steady' \subseteq steady \cup {c} /\ view' # "away"
    BY <1>2 DEF Click, PageTypes
  <2> QED BY <1>2, <2>1 DEF Made, PageTypes
<1>3. ASSUME Leave \/ Reload
      PROVE  Made'
  <2>1. left' = left \cup AllWaiting /\ steady' = {}
    BY <1>3 DEF Leave, Reload
  <2>2. AllWaiting' \subseteq AllWaiting
    BY <1>3, ReloadRequests DEF Leave, AllWaiting
  <2>3. \A c \in left \cup AllWaiting : req[c].at # "new" /\ c \in Clicks
    BY DEF Made, AllWaiting, InFlight, PageTypes
  <2> QED BY <1>3, <2>1, <2>2, <2>3, RequestsMove DEF Made, Next
<1>4. ASSUME Next, \A c \in Clicks, h \in Hosts : ~Click(c, h), ~Leave, ~Reload
      PROVE  Made'
  <2>1. /\ left' = left /\ steady' \subseteq steady
        /\ view' = "away" => view = "away"
    BY <1>4 DEF Next, Accept, Refuse, LoseAnswer, Success, Confirm, Rollback, Load, Poll,
                ShowDate, Return, CancelReservation, Dates
  <2>2. AllWaiting' \subseteq AllWaiting
    BY <1>4, RequestsMove DEF AllWaiting
  <2> QED BY <1>4, <2>1, <2>2, RequestsMove DEF Made, PageTypes
<1> QED BY <1>1, <1>2, <1>3, <1>4 DEF Next

-----------------------------------------------------------------------------
(* The bars without a reservation.                                         *)

\* An answer that is handled on the page leaves its bar an id or no bar; one handled
\* after the page was left may write what the page had then.
LEMMA SettledBars ==
    ASSUME PageTypes, NEW c \in Clicks, Confirm(c) \/ Rollback(c), NEW h \in Hosts
    PROVE  /\ gone' = gone /\ left' = left
           /\ c \in left => /\ bars' = bars
                            /\ stored'[h] = NoId => stored[h] = NoId \/ gone[h] = NoId
           /\ c \notin left => /\ bars'[h] = NoId => bars[h] = NoId /\ h # req[c].host
                               /\ stored'[h] = NoId => bars'[h] = NoId
<1>1. bars \in Bars /\ gone \in Bars
  BY DEF PageTypes
<1>2. PICK b \in Bars, g \in Bars :
        /\ \A k \in Hosts : /\ b[k] = NoId => bars[k] = NoId /\ k # req[c].host
                            /\ g[k] = NoId => gone[k] = NoId
        /\ IF c \in left THEN Unmounted(g) ELSE \E s : Render(b, view, s)
  <2>1. CASE Confirm(c)
    <3>1. IF c \in left THEN Unmounted(WithId(gone, c))
          ELSE \E s : Render(WithId(bars, c), view, s)
      BY <2>1 DEF Confirm
    <3>2. /\ WithId(bars, c) \in Bars /\ WithId(gone, c) \in Bars
          /\ \A k \in Hosts : /\ WithId(bars, c)[k] = NoId => bars[k] = NoId /\ k # req[c].host
                              /\ WithId(gone, c)[k] = NoId => gone[k] = NoId
      BY <1>1, AnsweredBars
    <3> QED BY <3>1, <3>2, Zenon
  <2>2. CASE Rollback(c)
    <3>1. IF c \in left THEN Unmounted(Without(gone, c))
          ELSE \E s : Render(Without(bars, c), view, s)
      BY <2>2 DEF Rollback
    <3>2. /\ Without(bars, c) \in Bars /\ Without(gone, c) \in Bars
          /\ \A k \in Hosts : /\ Without(bars, c)[k] = NoId => bars[k] = NoId /\ k # req[c].host
                              /\ Without(gone, c)[k] = NoId => gone[k] = NoId
      BY <1>1, AnsweredBars
    <3> QED BY <3>1, <3>2, Zenon
  <2> QED BY <2>1, <2>2
<1>3. CASE c \in left
  BY <1>2, <1>3 DEF Unmounted, Confirm, Rollback
<1>4. CASE c \notin left
  <2>1. PICK s : Render(b, view, s)
    BY <1>2, <1>4
  <2>2. bars' = stored' /\ bars'[h] = NoId => b[h] = NoId
    BY <2>1, CheckedBars DEF Render
  <2> QED BY <1>2, <1>4, <2>1, <2>2, CheckedBars DEF Render, Confirm, Rollback
<1> QED BY <1>3, <1>4

LEMMA GhostsKept ==
    ASSUME PageTypes, Made, Ghosts, [Next]_vars
    PROVE  Ghosts'
<1> SUFFICES ASSUME Next, NEW h \in Hosts
             PROVE  /\ bars'[h] = NoId => Backed(h)'
                    /\ stored'[h] = NoId => Backed(h)'
                    /\ gone'[h] = NoId => (Of(h) \cap left # {})'
  <2>1. CASE UNCHANGED vars
    BY <2>1 DEF Ghosts, Backed, Waiting, Of, vars
  <2> QED BY <2>1 DEF Ghosts
<1> DEFINE Left == Of(h) \cap left # {}
<1>0. /\ bars[h] = NoId \/ stored[h] = NoId => Backed(h)
      /\ gone[h] = NoId => Left /\ Backed(h)
      /\ Left => Left' /\ Backed(h)'
  BY BackingKept DEF Ghosts, Backed
<1>1. ASSUME NEW c \in Clicks, Confirm(c) \/ Rollback(c)
      PROVE  /\ bars'[h] = NoId \/ stored'[h] = NoId => Backed(h)'
             /\ gone'[h] = NoId => Left'
  <2>1. CASE c \in left /\ req[c].host = h
    <3>1. Left
      BY <2>1 DEF Of
    <3> QED BY <1>0, <3>1
  <2>2. CASE req[c].host # h
    <3>1. Backed(h) => Backed(h)'
      BY <1>1, <2>2, BackingKept, OneSettled DEF Of
    <3> QED BY <1>0, <1>1, <3>1, SettledBars
  <2>3. CASE c \notin left /\ req[c].host = h
    BY <1>0, <1>1, <2>3, SettledBars
  <2> QED BY <2>1, <2>2, <2>3
<1>2. ASSUME \A c \in Clicks : ~Confirm(c) /\ ~Rollback(c)
      PROVE  Backed(h) => Backed(h)'
  BY <1>2, BackingKept DEF Of
<1>3. ASSUME \A c \in Clicks : ~Confirm(c) /\ ~Rollback(c),
             NEW c \in Clicks, NEW k \in Hosts, Click(c, k)
      PROVE  /\ bars'[h] = NoId \/ stored'[h] = NoId => Backed(h)'
             /\ gone'[h] = NoId => Left'
  <2> DEFINE b == [bars EXCEPT ![k] = NoId]
  <2>1. b \in Bars /\ (h # k => b[h] = bars[h])
    BY DEF PageTypes, Bars, Marks
  <2> HIDE DEF b
  <2>2. h # k => (bars'[h] = NoId => bars[h] = NoId) /\ stored' = bars'
    <3>1. bars' = Checked(b, view, slots) /\ stored' = Checked(b, view, slots)
      BY <1>3 DEF Click, Render, b
    <3>2. Checked(b, view, slots)[h] = NoId <=> b[h] = NoId
      BY <2>1, CheckedBars
    <3> QED BY <2>1, <3>1, <3>2
  <2>3. h = k => c \in Waiting(h)'
    BY <1>3 DEF Click, PageTypes, Waiting, Of, InFlight
  <2>4. gone' = gone
    BY <1>3 DEF Click
  <2> QED BY <1>0, <1>2, <1>3, <2>2, <2>3, <2>4 DEF Backed
<1>4. ASSUME Load \/ Return \/ \E d \in Dates : ShowDate(d)
      PROVE  /\ bars'[h] = NoId \/ stored'[h] = NoId => bars[h] = NoId \/ stored[h] = NoId
             /\ gone' = gone
  <2>1. PICK b \in {bars, stored} : \E v, s : Render(b, v, s)
    BY <1>4 DEF Load, Return, ShowDate
  <2>2. b \in Bars
    BY <2>1 DEF PageTypes
  <2>3. PICK v, s : bars' = Checked(b, v, s) /\ stored' = Checked(b, v, s)
    BY <2>1 DEF Render
  <2>4. Checked(b, v, s)[h] = NoId <=> b[h] = NoId
    BY <2>2, CheckedBars
  <2>5. gone' = gone
    BY <1>4 DEF Load, Return, ShowDate
  <2> QED BY <2>1, <2>3, <2>4, <2>5
<1>5. ASSUME Leave
      PROVE  /\ bars' = bars /\ stored' = stored
             /\ gone'[h] = NoId => Left'
  <2>1. req' = req /\ left' = left \cup AllWaiting /\ gone' = bars
    BY <1>5 DEF Leave
  <2>2. Backed(h) => Left'
    BY <2>1 DEF Backed, Waiting, AllWaiting, Of
  <2> QED BY <1>0, <1>5, <2>1, <2>2 DEF Leave
<1>6. ASSUME Reload
      PROVE  bars' = stored /\ stored' = stored /\ gone'[h] # NoId
  BY <1>6 DEF Reload, NoBars, NoBar, NoId
<1>7. ASSUME \/ Poll
             \/ \E c \in Clicks : \/ Accept(c) \/ Refuse(c) \/ LoseAnswer(c) \/ Success(c)
                                  \/ CancelReservation(c)
      PROVE  bars' = bars /\ stored' = stored /\ gone' = gone
  BY <1>7 DEF Poll, Accept, Refuse, LoseAnswer, Success, CancelReservation
<1> QED
  <2>1. CASE \E c \in Clicks : Confirm(c) \/ Rollback(c)
    BY <1>1, <2>1
  <2>2. CASE \A c \in Clicks : ~Confirm(c) /\ ~Rollback(c)
    BY <1>0, <1>2, <1>3, <1>4, <1>5, <1>6, <1>7, <2>2 DEF Next
  <2> QED BY <2>1, <2>2

-----------------------------------------------------------------------------
(* The bars of the clicks since which the user has left the host alone.    *)

LEMMA AloneKept ==
    ASSUME PageTypes, Made, Alone, [Next]_vars
    PROVE  Alone'
<1>1. CASE UNCHANGED vars
  BY <1>1 DEF Alone, Waiting, Of, vars
<1>2. ASSUME NEW c \in Clicks, NEW h \in Hosts, Click(c, h)
      PROVE  Alone'
  <2>1. /\ req[c].at = "new" /\ c \notin left /\ c \notin steady
        /\ left' = left /\ view' = "today"
        /\ \A d \in Clicks : req'[d] = IF d = c THEN [host |-> h, at |-> "sent"] ELSE req[d]
        /\ steady' = (steady \ Of(h)) \cup (IF Waiting(h) = {} THEN {c} ELSE {})
    BY <1>2 DEF Click, PageTypes, Made
  <2>2. ASSUME NEW d \in steady'
        PROVE  (req[d].host \in Hosts /\ d \notin left /\ Waiting(req[d].host) \subseteq {d})'
    <3>1. CASE d = c
      BY <2>1, <2>2, <3>1 DEF Waiting, Of
    <3>2. CASE d # c
      <4>1. d \in steady /\ d \in Clicks /\ d \notin Of(h)
        BY <2>1, <3>2 DEF PageTypes
      <4>2. req'[d] = req[d] /\ req[d].host # h
        BY <2>1, <3>2, <4>1 DEF Of
      <4>3. Waiting(req[d].host) \subseteq {d} /\ req[d].host \in Hosts /\ d \notin left
        BY <4>1 DEF Alone
      <4> QED BY <2>1, <4>2, <4>3 DEF Waiting, Of
    <3> QED BY <3>1, <3>2
  <2> QED BY <2>1, <2>2 DEF Alone
<1>3. ASSUME Leave \/ Reload \/ \E d \in Dates : ShowDate(d)
      PROVE  Alone'
  BY <1>3 DEF Leave, Reload, ShowDate, Alone
<1>4. ASSUME Return
      PROVE  Alone'
  <2>1. steady' = {}
    BY <1>4 DEF Return, Alone
  <2> QED BY <2>1 DEF Alone
<1>5. ASSUME Next, \A c \in Clicks, h \in Hosts : ~Click(c, h),
             \/ Load \/ Poll
             \/ \E c \in Clicks : \/ Accept(c) \/ Refuse(c) \/ LoseAnswer(c) \/ Success(c)
                                  \/ Confirm(c) \/ Rollback(c) \/ CancelReservation(c)
      PROVE  Alone'
  <2>1. steady' \subseteq steady /\ view' = view /\ left' = left
    BY <1>5 DEF Load, Poll, Accept, Refuse, LoseAnswer, Success, Confirm, Rollback,
                CancelReservation
  <2>2. ASSUME NEW d \in steady
        PROVE  req'[d].host = req[d].host /\ Waiting(req[d].host)' \subseteq Waiting(req[d].host)
    <3>1. d \in Clicks /\ req[d].at # "new"
      BY DEF PageTypes, Made
    <3>2. \A e \in Clicks : req'[e].at \in InFlight => req[e].at \in InFlight
      BY <1>5, RequestsMove
    <3>3. \A e \in Clicks : req'[e].at \in InFlight => req'[e].host = req[e].host
      BY <1>5, <3>2, RequestsMove DEF InFlight
    <3> QED BY <1>5, <3>1, <3>2, <3>3, RequestsMove DEF Waiting, Of
  <2> QED BY <2>1, <2>2 DEF Alone
<1> QED
  <2>1. CASE \E c \in Clicks, h \in Hosts : Click(c, h)
    BY <1>2, <2>1
  <2>2. CASE \A c \in Clicks, h \in Hosts : ~Click(c, h)
    BY <1>1, <1>3, <1>4, <1>5, <2>2 DEF Next
  <2> QED BY <2>1, <2>2

\* A rendering keeps a bar that has no id yet, or whose reservation is shown.
LEMMA RenderedBar ==
    ASSUME NEW b \in Bars, NEW v, NEW s, NEW h \in Hosts, Render(b, v, s)
    PROVE  /\ b[h] = NoId => bars'[h] = NoId
           /\ (\A shown \in s[v] : b[h] \in shown) => bars'[h] = b[h]
           /\ slots' = s
BY CheckedBars DEF Render

\* What Steady says of one click.
SteadyBar(c) ==
    /\ req[c].at \in InFlight => bars[req[c].host] = NoId
    /\ c \in live /\ req[c].at = "done" =>
          /\ bars[req[c].host] = c
          /\ \A shown \in slots["today"] : c \in shown

\* It stays when the page is rendered with the same bar, the same calendar of today
\* or the one of this moment, and the click is no further.
LEMMA SteadyRendered ==
    ASSUME PageTypes, Alone, NEW c \in steady, SteadyBar(c), NEW b \in Bars,
           b[req[c].host] = bars[req[c].host],
           NEW s \in {slots, [slots EXCEPT ![view] = {Shown(view)}]}, Render(b, view, s),
           live' = live, req'[c] = req[c]
    PROVE  SteadyBar(c)'
<1>1. view = "today" /\ req[c].host \in Hosts
  BY DEF Alone
<1>2. c \in live /\ req[c].at = "done" => \A shown \in s["today"] : c \in shown
  BY <1>1, LoadedSlots DEF SteadyBar
<1> DEFINE h == req[c].host
<1>3. /\ b[h] = NoId => bars'[h] = NoId
      /\ (\A shown \in s["today"] : b[h] \in shown) => bars'[h] = b[h]
      /\ slots' = s
  <2>1. Render(b, "today", s)
    BY <1>1
  <2> HIDE DEF h
  <2>2. h \in Hosts
    BY <1>1 DEF h
  <2> QED BY <2>1, <2>2, RenderedBar
<1> QED BY <1>2, <1>3 DEF SteadyBar

\* A click keeps what a step leaves alone, or does to other reservations.
LEMMA SteadyUntouched ==
    ASSUME PageTypes, Alone, NEW c \in steady, SteadyBar(c),
           req'[c] = req[c], bars' = bars, slots' = slots, c \in live' => c \in live
    PROVE  SteadyBar(c)'
BY DEF SteadyBar

\* A steady click keeps its bar when another one is answered.
LEMMA OthersAnswered ==
    ASSUME PageTypes, Alone, NEW c \in steady, SteadyBar(c),
           NEW d \in Clicks \ {c}, Confirm(d) \/ Rollback(d)
    PROVE  SteadyBar(c)'
<1>1. c \in Clicks /\ req'[c] = req[c] /\ live' = live
  BY DEF PageTypes, Confirm, Rollback, At
<1>2. CASE d \in left
  <2>1. bars' = bars /\ slots' = slots
    BY <1>2 DEF Confirm, Rollback, Unmounted
  <2> QED BY <1>1, <2>1, SteadyUntouched
<1>3. CASE d \notin left
  <2>1. req[c].host # req[d].host /\ req[c].host \in Hosts
    <3>1. req[d].at \in InFlight
      BY DEF Confirm, Rollback, InFlight
    <3> QED BY <3>1 DEF Alone, Waiting, Of
  <2>2. PICK b \in {WithId(bars, d), Without(bars, d)},
             s \in {slots, [slots EXCEPT ![view] = {Shown(view)}]} : Render(b, view, s)
    BY <1>3 DEF Confirm, Rollback
  <2>3. b \in Bars /\ b[req[c].host] = bars[req[c].host]
    <3>1. bars \in Bars
      BY DEF PageTypes
    <3> QED BY <2>1, <2>2, <3>1, AnsweredBars
  <2> QED BY <1>1, <2>2, <2>3, SteadyRendered
<1> QED BY <1>2, <1>3

\* Its own answer gives the bar the reservation once the calendar shows it; or the
\* calendar could not be fetched, and the click is not steady any more.
LEMMA OwnAnswered ==
    ASSUME PageTypes, Alone, NEW c \in steady, SteadyBar(c), Confirm(c) \/ Rollback(c)
    PROVE  c \in steady' => SteadyBar(c)'
<1>1. /\ c \in Clicks /\ c \notin left /\ view = "today" /\ req[c].host \in Hosts
      /\ bars \in Bars
  BY DEF PageTypes, Alone
<1>2. CASE Rollback(c)
  <2>1. req'[c].at = "over"
    BY <1>1, <1>2, AtStep DEF Rollback, Stages
  <2> QED BY <2>1 DEF SteadyBar, InFlight
<1>3. CASE Confirm(c) /\ c \in steady'
  <2>1. req'[c].at = "done" /\ req'[c].host = req[c].host /\ live' = live
    BY <1>1, <1>3, AtStep DEF Confirm, Stages
  <2>2. bars[req[c].host] = NoId
    BY <1>3 DEF SteadyBar, Confirm, InFlight
  <2> DEFINE b == WithId(bars, c)
             s == [slots EXCEPT ![view] = {Shown(view)}]
  <2>3. Render(b, "today", s)
    BY <1>1, <1>3 DEF Confirm
  <2>4. b \in Bars /\ b[req[c].host] = c
    BY <1>1, <2>2, AnsweredBars
  <2>5. s["today"] = {live}
    BY <1>1, LoadedSlots
  <2> HIDE DEF b, s
  <2>6. slots' = s /\ (c \in live => bars'[req[c].host] = c)
    <3>1. PICK h \in Hosts : h = req[c].host
      BY <1>1
    <3>2. /\ (\A shown \in s["today"] : b[h] \in shown) => bars'[h] = b[h]
          /\ slots' = s
      BY <2>3, <2>4, RenderedBar
    <3> QED BY <2>4, <2>5, <3>1, <3>2
  <2> QED BY <2>1, <2>5, <2>6 DEF SteadyBar, InFlight
<1> QED BY <1>2, <1>3

LEMMA SteadyKept ==
    ASSUME PageTypes, Made, Alone, Steady, [Next]_vars
    PROVE  Steady'
<1>0. \A c \in steady : SteadyBar(c) /\ c \in Clicks /\ req[c].at # "new" /\ req[c].host \in Hosts
  BY DEF Steady, SteadyBar, PageTypes, Made, Alone
<1> SUFFICES ASSUME NEW c \in steady'
             PROVE  SteadyBar(c)'
  BY DEF Steady, SteadyBar
<1>1. CASE UNCHANGED vars
  BY <1>0, <1>1 DEF SteadyBar, vars
<1>2. ASSUME NEW d \in Clicks, NEW k \in Hosts, Click(d, k)
      PROVE  SteadyBar(c)'
  <2> DEFINE b == [bars EXCEPT ![k] = NoId]
  <2>1. /\ b \in Bars /\ b[k] = NoId
        /\ \A h \in Hosts \ {k} : b[h] = bars[h]
    BY DEF PageTypes, Bars, Marks
  <2>2. Render(b, view, slots) /\ live' = live
    BY <1>2 DEF Click
  <2>3. \A e \in Clicks : req'[e] = IF e = d THEN [host |-> k, at |-> "sent"] ELSE req[e]
    BY <1>2 DEF Click, PageTypes
  <2> HIDE DEF b
  <2>4. CASE c = d
    <3>1. bars'[k] = NoId
      BY <2>1, <2>2, RenderedBar
    <3>2. req'[c] = [host |-> k, at |-> "sent"]
      BY <2>3, <2>4
    <3> QED BY <3>1, <3>2 DEF SteadyBar
  <2>5. CASE c # d
    <3>1. c \in steady /\ c \notin Of(k)
      BY <1>2, <2>5 DEF Click
    <3>2. req'[c] = req[c] /\ b[req[c].host] = bars[req[c].host]
      BY <1>0, <2>1, <2>3, <2>5, <3>1 DEF Of
    <3> QED BY <1>0, <2>1, <2>2, <3>1, <3>2, SteadyRendered
  <2> QED BY <2>4, <2>5
<1>3. ASSUME NEW d \in Clicks, Accept(d) \/ LoseAnswer(d) \/ Refuse(d) \/ Success(d)
      PROVE  SteadyBar(c)'
  <2>1. /\ c \in steady /\ bars' = bars /\ slots' = slots /\ live' \subseteq live \cup {d}
    BY <1>3 DEF Accept, LoseAnswer, Refuse, Success
  <2>2. PICK step \in {"accepted", "refused", "refetch", "over"} :
          At(d, step) /\ (step \in InFlight => req[d].at \in InFlight)
    BY <1>3 DEF Accept, LoseAnswer, Refuse, Success, InFlight
  <2>3. \A e \in Clicks : /\ req'[e].host = req[e].host
                          /\ req'[e].at = IF e = d THEN step ELSE req[e].at
    BY <2>2, AtStep DEF Stages, InFlight
  <2>4. CASE c = d
    BY <1>0, <2>1, <2>2, <2>3, <2>4 DEF SteadyBar
  <2>5. CASE c # d
    <3>1. req'[c] = req[c]
      BY <1>0, <2>1, <2>2, <2>5 DEF At, PageTypes
    <3> QED BY <1>0, <2>1, <2>5, <3>1, SteadyUntouched
  <2> QED BY <2>4, <2>5
<1>4. ASSUME NEW d \in Clicks, Confirm(d) \/ Rollback(d)
      PROVE  SteadyBar(c)'
  <2>1. c \in steady
    BY <1>4 DEF Confirm, Rollback
  <2> QED BY <1>0, <1>4, <2>1, OthersAnswered, OwnAnswered
<1>5. ASSUME Load
      PROVE  SteadyBar(c)'
  <2>1. /\ c \in steady /\ live' = live /\ req' = req /\ bars \in Bars
        /\ Render(bars, view, [slots EXCEPT ![view] = {Shown(view)}])
    BY <1>5 DEF Load, PageTypes
  <2> QED BY <1>0, <2>1, SteadyRendered
<1>6. ASSUME Poll \/ \E d \in Clicks : CancelReservation(d)
      PROVE  SteadyBar(c)'
  <2>1. c \in steady /\ req' = req /\ bars' = bars /\ slots' = slots /\ live' \subseteq live
    BY <1>6 DEF Poll, CancelReservation
  <2> QED BY <1>0, <2>1, SteadyUntouched
<1>7. ASSUME Return \/ Leave \/ Reload \/ \E d \in Dates : ShowDate(d)
      PROVE  steady' = {}
  BY <1>7 DEF Return, Leave, Reload, ShowDate, Alone
<1> QED BY <1>1, <1>2, <1>3, <1>4, <1>5, <1>6, <1>7 DEF Next

-----------------------------------------------------------------------------
(* Theorems.                                                               *)

LEMMA PageStart == Init => PageInv
<1> SUFFICES ASSUME Init
             PROVE  PageInv
  OBVIOUS
<1>1. NoBars \in Bars /\ \A h \in Hosts : NoBars[h] # NoId
  BY DEF NoBars, Bars, Marks, NoBar, NoId
<1>2. PageTypes
  BY <1>1 DEF Init, PageTypes, Dates, Stages
<1>3. Made /\ Alone /\ Steady
  BY DEF Init, Made, Alone, Steady
<1>4. Ghosts
  BY <1>1 DEF Init, Ghosts
<1> QED BY <1>2, <1>3, <1>4 DEF PageInv

LEMMA PageInductive == PageInv /\ [Next]_vars => PageInv'
<1> SUFFICES ASSUME PageInv, [Next]_vars
             PROVE  PageInv'
  OBVIOUS
<1>1. PageTypes'
  BY TypesKept DEF PageInv
<1> QED BY <1>1, MadeKept, GhostsKept, AloneKept, SteadyKept DEF PageInv

\* A bar without a reservation is on the page only while a request for its host is
\* under way, or after the page was left while one was: whatever the answers, the
\* calendars loaded, the cancellations and the pages the user goes to.
THEOREM GhostsExplained == Spec => []GhostsOnlyIfLeft
<1>1. PageInv => GhostsOnlyIfLeft
  BY DEF PageInv, Ghosts, Backed, GhostsOnlyIfLeft
<1> QED BY <1>1, PageStart, PageInductive, PTL DEF Spec

\* The bar of an accepted click stays while its reservation lives and the user stays
\* on today's calendar and leaves the host alone, whatever is loaded and whatever
\* becomes of other clicks.
THEOREM SteadyBarsStay == Spec => []SteadyBarStays
<1>1. PageInv => SteadyBarStays
  BY DEF PageInv, Steady, SteadyBarStays
<1> QED BY <1>1, PageStart, PageInductive, PTL DEF Spec
=============================================================================
