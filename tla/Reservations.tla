---------------------------- MODULE Reservations ----------------------------
(***************************************************************************)
(* The Broker's reservation and connect-token requests, as PostgreSQL      *)
(* transactions under READ COMMITTED.                                      *)
(*                                                                         *)
(* A request q runs one handler of api/v1/reservations.py or of            *)
(* api/v1/tokens.py: POST /reservations, POST /reservations/instant,       *)
(* POST /reservations/{id}/connect, POST /tokens/verify or                 *)
(* DELETE /reservations/{id}.  One step is one SQL statement with the code *)
(* up to the next one; between two steps other requests run.  What q has   *)
(* written is private (w[q]) until Commit publishes it; a row that q wrote *)
(* is locked against other writers meanwhile.  A row has the id of the     *)
(* request that inserted it.                                               *)
(***************************************************************************)
EXTENDS ReservationRules

CONSTANTS
    Requests,       \* HTTP requests, each serving one call
    Users, Admins,  \* user ids; Admins have role = "admin"
    Hosts,
    Kinds,          \* the kinds of request that arrive
    Starts,         \* the start times clients ask for
    Zones,          \* time zones clients write their dates in
    Reports,        \* the statuses heartbeats and the monitor give a host
    Horizon         \* bound on the clock

HostStates == {"OFFLINE", "IDLE", "IN_USE", "DEGRADED"}

ASSUME RequestsAssumption ==
    /\ Admins \subseteq Users
    /\ Kinds \subseteq {"create", "instant", "connect", "verify", "cancel"}
    /\ Starts \subseteq Nat /\ Zones \subseteq Nat
    /\ Reports \subseteq HostStates
    /\ Horizon \in Nat

VARIABLES
    now,          \* datetime.now(UTC)
    reservation,  \* committed rows of table reservations
    token,        \* committed rows of table tokens with purpose = 'connect'
    host,         \* committed hosts.status
    pc,           \* where each request stands: its next statement, or its answer
    req,          \* the arguments of each request and what it has computed
    scan,         \* the tokens the request's revoking UPDATE has found
    w,            \* what each open transaction has written
    prior         \* history: the requests answered "ok" before each request came

database == <<reservation, token, host>>
vars     == <<now, database, pc, req, scan, w, prior>>

-----------------------------------------------------------------------------
Reservation == [id: Requests, user: Users, host: Hosts, lo: Nat, hi: Nat,
                status: Status]

\* revoked_at and consumed_at are two columns, so two flags.
Token == [id: Requests, res: Requests, expires: Nat,
          revoked: BOOLEAN, consumed: BOOLEAN]

BookingRequest == [kind: {"create", "instant"}, user: Users, host: Hosts,
                   lo: Nat, hi: Nat, zone: Nat]

\* connect and cancel keep host and hi of the reservation they loaded.
AccessRequest == [kind: {"connect", "cancel"}, user: Users, target: Requests,
                  host: Hosts, hi: Nat]

VerifyRequest == [kind: {"verify"}, target: Requests, consume: BOOLEAN]

Request == BookingRequest \cup AccessRequest \cup VerifyRequest

NoRequest == [kind |-> "none"]

Writes == [rows: SUBSET Reservation, cancels: SUBSET Requests,
           mints: SUBSET Token, revokes: SUBSET Requests,
           consumes: SUBSET Requests, status: SUBSET (Hosts \X HostStates)]

NoWrites == [rows |-> {}, cancels |-> {}, mints |-> {},
             revokes |-> {}, consumes |-> {}, status |-> {}]

\* The answers: "ok" is a 2xx (of verify: valid), "refused" any other answer of
\* the handler, "failed" a request whose transaction was lost.
Answers == {"ok", "refused", "failed"}
Steps   == {"next", "count", "day", "insert", "scan", "revoke",
            "consume", "cancel", "release", "commit"}

\* The statements a request of each kind can be at.
Fits(r, step) ==
    /\ step \in {"next", "count", "day", "insert"} => r \in BookingRequest
    /\ step \in {"scan", "revoke"} =>
          \/ r \in AccessRequest  /\ r.kind = "connect"
          \/ r \in BookingRequest /\ r.kind = "instant"
    /\ step = "consume" => r \in VerifyRequest
    /\ step \in {"cancel", "release"} => r \in AccessRequest /\ r.kind = "cancel"

TypeOK ==
    /\ now \in 0..Horizon
    /\ reservation \subseteq Reservation
    /\ token \subseteq Token
    /\ host \in [Hosts -> HostStates]
    /\ pc \in [Requests -> {"idle"} \cup Steps \cup Answers]
    /\ req \in [Requests -> Request \cup {NoRequest}]
    /\ scan \in [Requests -> SUBSET Requests]
    /\ w \in [Requests -> Writes]
    /\ prior \in [Requests -> SUBSET Requests]
    /\ \A q \in Requests : Fits(req[q], pc[q])

Init ==
    /\ now = 0
    /\ reservation = {} /\ token = {}
    /\ host = [h \in Hosts |-> "IDLE"]
    /\ pc = [q \in Requests |-> "idle"]
    /\ req = [q \in Requests |-> NoRequest]
    /\ scan = [q \in Requests |-> {}]
    /\ w = [q \in Requests |-> NoWrites]
    /\ prior = [q \in Requests |-> {}]

-----------------------------------------------------------------------------
Open(q) == pc[q] \in Steps                     \* q has a transaction under way
\* Faulty variant: a token that was revoked still counts.
LiveUnlessConsumed(t) == ~t.consumed

Live(t) == ~t.revoked /\ ~t.consumed
Access(u, r) == u \in Admins \/ r.user = u     \* _assert_can_access

\* The row q inserts, and the reservation q issues a token for.
NewRow(q) == [id |-> q, user |-> req[q].user, host |-> req[q].host,
              lo |-> req[q].lo, hi |-> req[q].hi, status |-> "CONFIRMED"]

Target(q) == IF req[q].kind = "instant" THEN q ELSE req[q].target

\* Rows another open transaction has written, hence locked.
Others(q)             == {p \in Requests : p # q}
CancelLocked(q, r)    == \E p \in Others(q) : r \in w[p].cancels
TokensLocked(q, ids)  == \E p \in Others(q) :
                             (w[p].revokes \cup w[p].consumes) \cap ids # {}

Begin(q, r, step) ==
    /\ pc[q] = "idle"
    /\ pc' = [pc EXCEPT ![q] = step]
    /\ req' = [req EXCEPT ![q] = r]
    /\ prior' = [prior EXCEPT ![q] = {p \in Requests : pc[p] = "ok"}]
    /\ UNCHANGED <<now, database, scan, w>>

\* The next statement of q, with nothing written by this one.
Goto(q, step) ==
    /\ pc' = [pc EXCEPT ![q] = step]
    /\ UNCHANGED <<now, database, req, scan, w, prior>>

Write(q, step, writes) ==
    /\ pc' = [pc EXCEPT ![q] = step]
    /\ w' = [w EXCEPT ![q] = writes]
    /\ UNCHANGED <<now, database, req, scan, prior>>

\* Faulty variant: the transaction is left open and its rows stay locked.
LeaveOpen(q, answer) ==
    /\ pc' = [pc EXCEPT ![q] = answer]
    /\ scan' = [scan EXCEPT ![q] = {}]
    /\ UNCHANGED <<now, database, req, w, prior>>

\* The transaction ends without a commit and leaves nothing behind.
Rollback(q, answer) ==
    /\ pc' = [pc EXCEPT ![q] = answer]
    /\ w' = [w EXCEPT ![q] = NoWrites]
    /\ scan' = [scan EXCEPT ![q] = {}]
    /\ UNCHANGED <<now, database, req, prior>>

-----------------------------------------------------------------------------
(* POST /reservations and POST /reservations/instant.                      *)

\* A call _validate_window refuses reads and writes nothing, and is not a step.
BeginCreate(q) ==
    \E u \in Users, h \in Hosts, lo \in Starts, d \in 1..MaxDuration, z \in Zones :
        /\ "create" \in Kinds
        /\ ValidWindow(lo, lo + d, now)
        /\ Begin(q, [kind |-> "create", user |-> u, host |-> h, lo |-> lo,
                     hi |-> lo + d, zone |-> z], "count")

\* An instant use starts now, in UTC; its end is not known yet.
BeginInstant(q) ==
    \E u \in Users, h \in Hosts :
        /\ "instant" \in Kinds
        /\ Begin(q, [kind |-> "instant", user |-> u, host |-> h, lo |-> now,
                     hi |-> now, zone |-> 0],
                 IF host[h] = "IDLE" THEN "next" ELSE "refused")

NextStart(q) ==
    /\ pc[q] = "next"
    /\ pc' = [pc EXCEPT ![q] = "count"]
    /\ req' = [req EXCEPT ![q].hi =
                 InstantEnd(req[q].lo, LaterStarts(reservation, req[q].host, req[q].lo))]
    /\ UNCHANGED <<now, database, scan, w, prior>>

CheckCount(q) ==
    /\ pc[q] = "count"
    /\ IF OverCount(reservation, req[q].user, now)
       THEN Rollback(q, "refused")
       ELSE Goto(q, "day")

CheckDay(q) ==
    /\ pc[q] = "day"
    /\ IF OverDay(reservation, req[q].user, req[q].lo, req[q].hi, req[q].zone)
       THEN Rollback(q, "refused")
       ELSE Goto(q, "insert")

\* Faulty variants: a cancellation counts before it is committed; the INSERT does
\* not wait for rows that other transactions are inserting.
ConflictsDirty(q) ==
    {r \in reservation : ActiveRow(r) /\ Clash(r, NewRow(q)) /\ ~CancelLocked(q, r.id)}

WaitForCancelsOnly(q) ==
    \E r \in {x \in reservation : ActiveRow(x) /\ Clash(x, NewRow(q))} : CancelLocked(q, r.id)

\* The EXCLUDE constraint: a committed active row clashes for good; one that is
\* being inserted or cancelled is waited for until its transaction ends.
Conflicts(q) == {r \in reservation : ActiveRow(r) /\ Clash(r, NewRow(q))}

MustWait(q) ==
    \/ \E p \in Others(q) : \E r \in w[p].rows : Clash(r, NewRow(q))
    \/ \E r \in Conflicts(q) : CancelLocked(q, r.id)

\* An instant use goes on to issue its token at once: its window may have
\* passed while the INSERT waited, and then the whole transaction is undone.
Insert(q) ==
    /\ pc[q] = "insert"
    /\ \/ /\ \E r \in Conflicts(q) : ~CancelLocked(q, r.id)
          /\ Rollback(q, "refused")
       \/ /\ ~MustWait(q) /\ Conflicts(q) = {}
          /\ IF req[q].kind = "create"
             THEN Write(q, "commit", [w[q] EXCEPT !.rows = {NewRow(q)}])
             ELSE IF IssueWindow(req[q].lo, req[q].hi, now)
             THEN Write(q, "scan", [w[q] EXCEPT !.rows = {NewRow(q)}])
             ELSE Rollback(q, "refused")

-----------------------------------------------------------------------------
(* issue_connect_token, for POST /{id}/connect and for an instant use.     *)

\* Faulty variant: the status of the reservation is not looked at.
BeginConnectAnyStatus(q) ==
    \E u \in Users, r \in reservation :
        /\ "connect" \in Kinds
        /\ Begin(q, [kind |-> "connect", user |-> u, target |-> r.id,
                     host |-> r.host, hi |-> r.hi],
                 IF Access(u, r) /\ IssueWindow(r.lo, r.hi, now)
                 THEN "scan" ELSE "refused")

BeginConnect(q) ==
    \E u \in Users, r \in reservation :
        /\ "connect" \in Kinds
        /\ Begin(q, [kind |-> "connect", user |-> u, target |-> r.id,
                     host |-> r.host, hi |-> r.hi],
                 IF /\ Access(u, r)
                    /\ r.status = "CONFIRMED"
                    /\ IssueWindow(r.lo, r.hi, now)
                 THEN "scan" ELSE "refused")

\* Faulty variant: the UPDATE filters on the new request's own id.
ScanOwnTokens(q) ==
    /\ pc[q] = "scan"
    /\ pc' = [pc EXCEPT ![q] = "revoke"]
    /\ scan' = [scan EXCEPT ![q] =
                  {t.id : t \in {x \in token : x.res = q /\ Live(x)}}]
    /\ UNCHANGED <<now, database, req, w, prior>>

\* revoke_active_tokens_for_reservation: the UPDATE works on the rows it finds
\* when it starts, waits for those that are locked, and re-checks each.
ScanTokens(q) ==
    /\ pc[q] = "scan"
    /\ pc' = [pc EXCEPT ![q] = "revoke"]
    /\ scan' = [scan EXCEPT ![q] =
                  {t.id : t \in {x \in token : x.res = Target(q) /\ Live(x)}}]
    /\ UNCHANGED <<now, database, req, w, prior>>

\* The INSERT of the new token follows; nobody sees it before the commit.  An
\* instant use then moves its host to IN_USE (transition_host).
RevokeAndMint(q) ==
    /\ pc[q] = "revoke"
    /\ ~TokensLocked(q, scan[q])
    /\ Write(q, "commit",
             [w[q] EXCEPT
                !.revokes = {t.id : t \in {x \in token : x.id \in scan[q] /\ Live(x)}},
                !.mints = {[id |-> q, res |-> Target(q), expires |-> req[q].hi,
                            revoked |-> FALSE, consumed |-> FALSE]},
                !.status = IF req[q].kind = "instant"
                           THEN {<<req[q].host, "IN_USE">>} ELSE {}])

-----------------------------------------------------------------------------
(* POST /tokens/verify.                                                    *)

BeginVerify(q) ==
    \E t \in token, c \in BOOLEAN :
        /\ "verify" \in Kinds
        /\ Begin(q, [kind |-> "verify", target |-> t.id, consume |-> c],
                 IF Live(t) /\ now < t.expires
                 THEN IF c THEN "consume" ELSE "commit"
                 ELSE "refused")

\* Faulty variant: consumed by id, without the two IS NULL conditions.
ConsumeUnchecked(q) ==
    /\ pc[q] = "consume"
    /\ ~TokensLocked(q, {Target(q)})
    /\ Write(q, "commit", [w[q] EXCEPT !.consumes = {Target(q)}])

\* mark_consumed: one UPDATE that waits for the row and re-checks it.
Consume(q) ==
    /\ pc[q] = "consume"
    /\ ~TokensLocked(q, {Target(q)})
    /\ IF \E t \in token : t.id = Target(q) /\ Live(t)
       THEN Write(q, "commit", [w[q] EXCEPT !.consumes = {Target(q)}])
       ELSE Rollback(q, "refused")

-----------------------------------------------------------------------------
(* DELETE /reservations/{id}.                                              *)

\* A row already CANCELED is left alone, but its host is looked at all the same.
BeginCancel(q) ==
    \E u \in Users, r \in reservation :
        /\ "cancel" \in Kinds
        /\ Begin(q, [kind |-> "cancel", user |-> u, target |-> r.id,
                     host |-> r.host, hi |-> r.hi],
                 IF ~Access(u, r) THEN "refused"
                 ELSE IF r.status = "CANCELED" THEN "release" ELSE "cancel")

Cancel(q) ==
    /\ pc[q] = "cancel"
    /\ ~CancelLocked(q, Target(q))
    /\ Write(q, "release", [w[q] EXCEPT !.cancels = {Target(q)}])

\* The host goes back to IDLE if no reservation is in progress on it, as far as
\* this transaction can see (its own cancellation included).
Release(q) ==
    /\ pc[q] = "release"
    /\ LET h    == req[q].host
           seen == {r \in reservation : r.id \notin w[q].cancels}
       IN  Write(q, "commit",
                 [w[q] EXCEPT !.status =
                    IF host[h] = "IN_USE" /\ InUseBy(seen, h, now) = {}
                    THEN {<<h, "IDLE">>} ELSE {}])

-----------------------------------------------------------------------------
\* Faulty variant: a status no other code knows.
CanceledMisspelt(r, ids) ==
    IF r.id \in ids THEN [r EXCEPT !.status = "CANCELLED"] ELSE r

Canceled(r, ids) == IF r.id \in ids THEN [r EXCEPT !.status = "CANCELED"] ELSE r

Marked(t, x) == [t EXCEPT !.revoked  = @ \/ t.id \in x.revokes,
                          !.consumed = @ \/ t.id \in x.consumes]

Commit(q) ==
    /\ pc[q] = "commit"
    /\ pc' = [pc EXCEPT ![q] = "ok"]
    /\ reservation' = {Canceled(r, w[q].cancels) : r \in reservation} \cup w[q].rows
    /\ token' = {Marked(t, w[q]) : t \in token} \cup w[q].mints
    /\ host' = [h \in Hosts |->
                  IF \E s \in HostStates : <<h, s>> \in w[q].status
                  THEN CHOOSE s \in HostStates : <<h, s>> \in w[q].status
                  ELSE host[h]]
    /\ w' = [w EXCEPT ![q] = NoWrites]
    /\ scan' = [scan EXCEPT ![q] = {}]
    /\ UNCHANGED <<now, req, prior>>

\* The transaction is lost: the process stops, the connection breaks, or
\* PostgreSQL ends it as the victim of a deadlock.
Fail(q) == Open(q) /\ Rollback(q, "failed")

\* A heartbeat or the monitor gives a host a new status (transition_host).
Report(h) ==
    /\ \E s \in Reports \ {host[h]} : host' = [host EXCEPT ![h] = s]
    /\ UNCHANGED <<now, reservation, token, pc, req, scan, w, prior>>

Tick ==
    /\ now < Horizon
    /\ now' = now + 1
    /\ UNCHANGED <<database, pc, req, scan, w, prior>>

Arrive(q) ==
    BeginCreate(q) \/ BeginInstant(q) \/ BeginConnect(q) \/ BeginVerify(q) \/ BeginCancel(q)

Step(q) ==
    \/ NextStart(q) \/ CheckCount(q) \/ CheckDay(q) \/ Insert(q)
    \/ ScanTokens(q) \/ RevokeAndMint(q) \/ Consume(q)
    \/ Cancel(q) \/ Release(q) \/ Commit(q)

Next ==
    \/ \E q \in Requests : Arrive(q) \/ Step(q) \/ Fail(q)
    \/ \E h \in Hosts : Report(h)
    \/ Tick

\* Requests need not come, time need not pass and nothing need fail; but
\* PostgreSQL and the event loop do not abandon an open transaction.
Spec     == Init /\ [][Next]_vars
FairSpec == Spec /\ \A q \in Requests : WF_vars(Step(q))

-----------------------------------------------------------------------------
(* Properties.                                                             *)

\* Two requests that overlapped in time: neither came after the other's answer.
Raced(a, b) == a # b /\ a \notin prior[b] /\ b \notin prior[a]

\* However creations, instant uses and cancellations interleave, the committed
\* calendar never gives a host to two active reservations at once
\* (reservations_no_overlap, with the INSERT that waits for open transactions).
NoDoubleBooking ==
    \A r, s \in reservation :
        ActiveRow(r) /\ ActiveRow(s) /\ r # s => ~Clash(r, s)

\* Why it holds: already the rows that open transactions have inserted clash with
\* no active row and with one another, committed or not.
Claimed == {r \in reservation : ActiveRow(r)} \cup UNION {w[q].rows : q \in Requests}

ClaimsDisjoint == \A r, s \in Claimed : r # s => ~Clash(r, s)

\* A request inserts at most one row, its own, never of an empty window; it
\* cancels at most one; it never does both; and only a request answered "ok"
\* leaves a row behind.  (The window of an instant use is computed from a read
\* that is stale by the time of the INSERT.)
RowsOfRequest ==
    /\ \A r, s \in reservation : r.id = s.id => r = s
    /\ \A r \in reservation : r.lo < r.hi /\ pc[r.id] = "ok"
    /\ \A q \in Requests :
          /\ pc[q] \in {"count", "day", "insert"} => req[q].lo < req[q].hi
          /\ w[q].rows # {} =>
                /\ pc[q] \in {"scan", "revoke", "commit"}
                /\ w[q].rows = {NewRow(q)}
                /\ req[q] \in BookingRequest /\ req[q].lo < req[q].hi
          /\ w[q].cancels # {} =>
                /\ pc[q] \in {"release", "commit"}
                /\ req[q].kind = "cancel" /\ w[q].cancels = {Target(q)}

\* A user can hold more than MaxConcurrent outstanding reservations only through
\* requests that overlapped: _validate_quota counts before the INSERT, and
\* nothing re-counts after it.
QuotaUnlessRaced ==
    \A u \in Users : LET S == Outstanding(reservation, u, now) IN
        Cardinality(S) > MaxConcurrent =>
            \E r, s \in S : Raced(r.id, s.id)

\* The day a row belongs to, and the rows wholly inside one day of a zone.
WithinDay(u, d, z) ==
    {r \in reservation : /\ r.user = u /\ ActiveRow(r)
                         /\ d <= r.lo /\ r.hi <= d + Day
                         /\ req[r.id].zone = z}

\* Reservations that stay inside a day written in one zone add up to more than
\* MaxPerDay only through requests that overlapped.
DayQuotaUnlessRaced ==
    \A r \in reservation :
        LET z == req[r.id].zone
            d == DayStart(r.lo, z)
            S == WithinDay(r.user, d, z)
        IN  BookedInDay(S, r.user, d) > MaxPerDay =>
                \E a, b \in S : Raced(a.id, b.id)

\* The quota as the error message and the tests put it: never more than
\* MaxConcurrent outstanding reservations.
ConcurrentQuota ==
    \A u \in Users : Cardinality(Outstanding(reservation, u, now)) <= MaxConcurrent

\* ... and never more than MaxPerDay booked in a day (a UTC day, for clients that
\* write their dates in UTC), at least for a user whose requests come one after
\* the other.
DailyQuota ==
    \A u \in Users : \A d \in {DayStart(r.hi - 1, 0) : r \in reservation} :
        BookedInDay(reservation, u, d) > MaxPerDay =>
            \E a, b \in reservation : Raced(a.id, b.id)

\* Issuing a token kills every token of the reservation handed out before the
\* request came (revoke_active_tokens_for_reservation).
ReissueKillsOlder ==
    \A a, b \in token : a.res = b.res /\ a.id \in prior[b.id] => ~Live(a)

\* The same seen by the host: once a newer token has been handed out, an older
\* one of the reservation is never verified again, consumed or not.
NoReplay ==
    \A v \in Requests : req[v].kind = "verify" /\ pc[v] = "ok" =>
        \A a, b \in token :
            /\ a.id = req[v].target /\ a.res = b.res
            /\ b.id \in prior[v] /\ a.id \in prior[b.id]
            => FALSE

\* Of any number of concurrent consuming verifications of a token at most one is
\* answered valid, and a token that was consumed was never revoked as well.
ConsumedOnce ==
    /\ \A v, x \in Requests :
          /\ req[v].kind = "verify" /\ req[x].kind = "verify" /\ v # x
          /\ pc[v] = "ok" /\ pc[x] = "ok"
          /\ req[v].consume /\ req[x].consume
          => req[v].target # req[x].target
    /\ \A t \in token : ~(t.revoked /\ t.consumed)

\* After the answer to a cancellation no request obtains a token any more.
NoTokenAfterCancel ==
    \A t \in token : \A c \in prior[t.id] :
        req[c].kind = "cancel" => req[c].target # t.res

\* "A token is valid only for the user, host and time window of the reservation":
\* no token is verified once its reservation has been cancelled.
NoVerifyAfterCancel ==
    \A v \in Requests : req[v].kind = "verify" /\ pc[v] = "ok" =>
        \A c \in prior[v] : req[c].kind = "cancel" =>
            ~\E t \in token : t.id = req[v].target /\ t.res = req[c].target

\* Every request that has come is answered: no cycle of transactions waiting for
\* each other's rows.
EveryRequestAnswered == \A q \in Requests : Open(q) ~> pc[q] \in Answers

\* The calendar of Booking is the committed active rows.
Entries     == {[id |-> r.id, host |-> r.host, lo |-> r.lo, hi |-> r.hi] :
                  r \in {x \in reservation : ActiveRow(x)}}
ReleasedIds == {r.id : r \in {x \in reservation : ~ActiveRow(x)}}

Calendar == INSTANCE Booking WITH
    Ids <- Requests, booked <- Entries, released <- ReleasedIds

\* Every step either changes no calendar entry, books one free entry or releases
\* one: the statement-by-statement service implements the atomic calendar.
ImplementsBooking == Calendar!Spec
=============================================================================
