----------------------------- MODULE TokensProofs -----------------------------
(***************************************************************************)
(* Proofs about the connect tokens and the quota of Reservations, for      *)
(* every set of requests, users and hosts.                                 *)
(*                                                                         *)
(* First what one step of a request looks like from outside (Arrival,      *)
(* Statement, Publication), then what no step ever does (Evolves), then    *)
(* one inductive invariant per hazard of the token table.                  *)
(***************************************************************************)
EXTENDS ReservationsProofs, FiniteSetTheorems

-----------------------------------------------------------------------------
(* The shape of a step.                                                    *)

Issuing(q)   == req[q].kind \in {"connect", "instant"}
Consuming(q) == req[q].kind = "verify" /\ req[q].consume

Answered == {p \in Requests : pc[p] = "ok"}

\* Nothing of p's own changes.
Stands(p) ==
    /\ pc'[p] = pc[p] /\ req'[p] = req[p] /\ scan'[p] = scan[p]
    /\ w'[p] = w[p] /\ prior'[p] = prior[p]

\* Only the end of the window changes in what a request was called with.
SameCall(q) ==
    \/ req'[q] = req[q]
    \/ req[q] \in BookingRequest /\ \E hi : req'[q] = [req[q] EXCEPT !.hi = hi]

\* What the first statement of a call found.
Found(q) ==
    \/ /\ req'[q].kind = "create" /\ pc'[q] = "count"
    \/ /\ req'[q].kind = "instant" /\ pc'[q] \in {"next", "refused"}
    \/ /\ req'[q].kind = "connect"
       /\ \E r \in reservation :
            /\ req'[q].target = r.id
            /\ \/ pc'[q] = "refused"
               \/ pc'[q] = "scan" /\ r.status = "CONFIRMED"
    \/ /\ req'[q].kind = "verify"
       /\ \E t \in token :
            /\ req'[q].target = t.id
            /\ \/ pc'[q] = "refused"
               \/ /\ Live(t)
                  /\ pc'[q] = IF req'[q].consume THEN "consume" ELSE "commit"
    \/ /\ req'[q].kind = "cancel"
       /\ \E r \in reservation :
            /\ req'[q].target = r.id
            /\ \/ pc'[q] \in {"refused", "cancel"}
               \/ pc'[q] = "release" /\ r.status = "CANCELED"

Arrival(q) ==
    /\ pc[q] = "idle"
    /\ prior'[q] = Answered
    /\ UNCHANGED <<now, reservation, token, scan, w>>
    /\ Found(q)

\* The tokens and quotas seen by a statement that is not a commit.
GivesUp(q) == pc'[q] \in {"refused", "failed"} /\ w'[q] = NoWrites

TokenWritesKept(q) ==
    /\ w'[q].mints = w[q].mints
    /\ w'[q].revokes = w[q].revokes
    /\ w'[q].consumes = w[q].consumes

Books(q) ==
    /\ req[q] \in BookingRequest
    /\ \/ pc[q] = "next" /\ pc'[q] = "count"
       \/ pc[q] = "count" /\ pc'[q] = "day" /\ ~OverCount(reservation, req[q].user, now)
       \/ pc[q] = "day" /\ pc'[q] = "insert"
       \/ pc[q] = "insert" /\ pc'[q] = "commit" /\ req[q].kind = "create"
       \/ pc[q] = "insert" /\ pc'[q] = "scan" /\ req[q].kind = "instant"
    /\ TokenWritesKept(q)

Cancels(q) ==
    /\ req[q].kind = "cancel" /\ req'[q] = req[q]
    /\ \/ pc[q] = "cancel" /\ pc'[q] = "release" /\ w'[q].cancels = {Target(q)}
       \/ pc[q] = "release" /\ pc'[q] = "commit" /\ w'[q].cancels = w[q].cancels
    /\ TokenWritesKept(q)

Scans(q) ==
    /\ pc[q] = "scan" /\ pc'[q] = "revoke" /\ Issuing(q) /\ req'[q] = req[q]
    /\ scan'[q] = {t.id : t \in {x \in token : x.res = Target(q) /\ Live(x)}}
    /\ TokenWritesKept(q)

NewToken(q) == [id |-> q, res |-> Target(q), expires |-> req[q].hi,
                revoked |-> FALSE, consumed |-> FALSE]

Mints(q) ==
    /\ pc[q] = "revoke" /\ pc'[q] = "commit" /\ Issuing(q) /\ req'[q] = req[q]
    /\ ~TokensLocked(q, scan[q])
    /\ w'[q].revokes = {t.id : t \in {x \in token : x.id \in scan[q] /\ Live(x)}}
    /\ w'[q].mints = {NewToken(q)}
    /\ w'[q].consumes = w[q].consumes

Consumes(q) ==
    /\ pc[q] = "consume" /\ pc'[q] = "commit" /\ req[q].kind = "verify" /\ req'[q] = req[q]
    /\ ~TokensLocked(q, {Target(q)})
    /\ \E t \in token : t.id = Target(q) /\ Live(t)
    /\ w'[q].consumes = {Target(q)}
    /\ w'[q].revokes = w[q].revokes
    /\ w'[q].mints = w[q].mints

Statement(q) ==
    /\ Open(q)
    /\ UNCHANGED <<now, reservation, token>>
    /\ SameCall(q) /\ prior'[q] = prior[q]
    /\ GivesUp(q) \/ Books(q) \/ Cancels(q) \/ Scans(q) \/ Mints(q) \/ Consumes(q)

\* A commit.
Publication(q) ==
    /\ pc[q] = "commit" /\ pc'[q] = "ok"
    /\ reservation' = {Canceled(r, w[q].cancels) : r \in reservation} \cup w[q].rows
    /\ token' = {Marked(t, w[q]) : t \in token} \cup w[q].mints
    /\ w'[q] = NoWrites
    /\ req'[q] = req[q] /\ prior'[q] = prior[q] /\ now' = now

\* The arrival of a request.
LEMMA ArrivalShape ==
    ASSUME TypeOK, NEW q \in Requests, Arrive(q)
    PROVE  Arrival(q) /\ \A p \in Others(q) : Stands(p)
<1>1. ASSUME NEW r, NEW step, Begin(q, r, step)
      PROVE  /\ pc[q] = "idle" /\ prior'[q] = Answered
             /\ UNCHANGED <<now, reservation, token, scan, w>>
             /\ pc'[q] = step /\ req'[q] = r
             /\ \A p \in Others(q) : Stands(p)
  BY <1>1 DEF Begin, TypeOK, database, Answered, Others, Stands
<1>2. CASE BeginCreate(q)
  <2>1. PICK u \in Users, h \in Hosts, lo \in Starts, d \in 1..MaxDuration, z \in Zones :
          Begin(q, [kind |-> "create", user |-> u, host |-> h, lo |-> lo,
                    hi |-> lo + d, zone |-> z], "count")
    BY <1>2 DEF BeginCreate
  <2>2. req'[q].kind = "create" /\ pc'[q] = "count"
    BY <2>1, <1>1
  <2> QED BY <2>1, <2>2, <1>1 DEF Arrival, Found
<1>3. CASE BeginInstant(q)
  <2>1. PICK u \in Users, h \in Hosts, step \in {"next", "refused"} :
          Begin(q, [kind |-> "instant", user |-> u, host |-> h, lo |-> now,
                    hi |-> now, zone |-> 0], step)
    BY <1>3 DEF BeginInstant
  <2>2. req'[q].kind = "instant" /\ pc'[q] = step
    BY <2>1, <1>1
  <2> QED BY <2>1, <2>2, <1>1 DEF Arrival, Found
<1>4. CASE BeginConnect(q)
  <2>1. PICK u \in Users, r \in reservation, step \in {"scan", "refused"} :
          /\ Begin(q, [kind |-> "connect", user |-> u, target |-> r.id,
                       host |-> r.host, hi |-> r.hi], step)
          /\ step = "scan" => r.status = "CONFIRMED"
    BY <1>4 DEF BeginConnect
  <2>2. req'[q].kind = "connect" /\ req'[q].target = r.id /\ pc'[q] = step
    BY <2>1, <1>1
  <2> QED BY <2>1, <2>2, <1>1 DEF Arrival, Found
<1>5. CASE BeginVerify(q)
  <2>1. PICK t \in token, c \in BOOLEAN, step \in {"consume", "commit", "refused"} :
          /\ Begin(q, [kind |-> "verify", target |-> t.id, consume |-> c], step)
          /\ step # "refused" => Live(t) /\ step = IF c THEN "consume" ELSE "commit"
    BY <1>5 DEF BeginVerify
  <2>2. /\ req'[q].kind = "verify" /\ req'[q].target = t.id
        /\ req'[q].consume = c /\ pc'[q] = step
    BY <2>1, <1>1
  <2> QED BY <2>1, <2>2, <1>1 DEF Arrival, Found
<1>6. CASE BeginCancel(q)
  <2>1. PICK u \in Users, r \in reservation, step \in {"cancel", "release", "refused"} :
          /\ Begin(q, [kind |-> "cancel", user |-> u, target |-> r.id,
                       host |-> r.host, hi |-> r.hi], step)
          /\ step = "release" => r.status = "CANCELED"
    BY <1>6 DEF BeginCancel
  <2>2. req'[q].kind = "cancel" /\ req'[q].target = r.id /\ pc'[q] = step
    BY <2>1, <1>1
  <2> QED BY <2>1, <2>2, <1>1 DEF Arrival, Found
<1> QED BY <1>2, <1>3, <1>4, <1>5, <1>6 DEF Arrive

\* The end of a transaction that is not committed, seen from outside;
LEMMA RollbackShape ==
    ASSUME TypeOK, NEW q \in Requests, NEW answer \in {"refused", "failed"},
           pc[q] \in Steps, Rollback(q, answer)
    PROVE  Statement(q) /\ \A p \in Others(q) : Stands(p)
<1>1. /\ UNCHANGED <<now, reservation, token>>
      /\ req'[q] = req[q] /\ prior'[q] = prior[q]
      /\ pc'[q] = answer /\ w'[q] = NoWrites
      /\ \A p \in Others(q) : Stands(p)
  BY DEF Rollback, TypeOK, database, Others, Stands
<1> QED BY <1>1 DEF Statement, GivesUp, SameCall, Open

\* ... what a statement that only reads leaves alone,
LEMMA GotoShape ==
    ASSUME TypeOK, NEW q \in Requests, NEW step, Goto(q, step)
    PROVE  /\ UNCHANGED <<now, reservation, token>>
           /\ prior'[q] = prior[q] /\ SameCall(q)
           /\ pc'[q] = step /\ TokenWritesKept(q)
           /\ \A p \in Others(q) : Stands(p)
BY DEF Goto, TypeOK, database, Others, Stands, SameCall, TokenWritesKept

\* ... and what one that writes leaves alone.
LEMMA WriteShape ==
    ASSUME TypeOK, NEW q \in Requests, NEW step, NEW writes, Write(q, step, writes)
    PROVE  /\ UNCHANGED <<now, reservation, token>>
           /\ req'[q] = req[q] /\ prior'[q] = prior[q] /\ scan'[q] = scan[q]
           /\ SameCall(q)
           /\ pc'[q] = step /\ w'[q] = writes
           /\ \A p \in Others(q) : Stands(p)
BY DEF Write, TypeOK, database, Others, Stands, SameCall

\* The bookkeeping of a booking request, ...
LEMMA BookingShape ==
    ASSUME TypeOK, NEW q \in Requests,
           NextStart(q) \/ CheckCount(q) \/ CheckDay(q) \/ Insert(q)
    PROVE  Statement(q) /\ \A p \in Others(q) : Stands(p)
<1>w. w[q] \in Writes /\ Fits(req[q], pc[q])
  BY DEF TypeOK
<1>b. pc[q] \in {"next", "count", "day", "insert"} /\ req[q] \in BookingRequest
  BY <1>w DEF NextStart, CheckCount, CheckDay, Insert, Fits
<1>o. Open(q)
  BY <1>b DEF Open, Steps
<1>1. CASE NextStart(q)
  <2> DEFINE hi == InstantEnd(req[q].lo, LaterStarts(reservation, req[q].host, req[q].lo))
  <2>1. /\ pc[q] = "next" /\ pc' = [pc EXCEPT ![q] = "count"]
        /\ req' = [req EXCEPT ![q].hi = hi]
        /\ UNCHANGED <<now, reservation, token, scan, w, prior>>
    BY <1>1 DEF NextStart, database
  <2> HIDE DEF hi
  <2>2. /\ pc'[q] = "count" /\ req'[q] = [req[q] EXCEPT !.hi = hi]
        /\ \A p \in Others(q) : Stands(p)
    BY <2>1 DEF TypeOK, Others, Stands
  <2>3. SameCall(q) /\ TokenWritesKept(q)
    BY <2>1, <2>2, <1>b DEF SameCall, TokenWritesKept
  <2> QED BY <2>1, <2>2, <2>3, <1>b, <1>o DEF Statement, Books
<1>2. CASE CheckCount(q)
  <2>1. CASE OverCount(reservation, req[q].user, now)
    BY <1>2, <2>1, <1>o, RollbackShape DEF CheckCount, Open
  <2>2. CASE ~OverCount(reservation, req[q].user, now)
    <3>1. pc[q] = "count" /\ Goto(q, "day")
      BY <1>2, <2>2 DEF CheckCount
    <3> QED BY <2>2, <3>1, <1>b, <1>o, GotoShape DEF Statement, Books
  <2> QED BY <2>1, <2>2
<1>3. CASE CheckDay(q)
  <2>1. CASE Rollback(q, "refused")
    BY <2>1, <1>o, RollbackShape DEF Open
  <2>2. CASE ~Rollback(q, "refused")
    <3>1. pc[q] = "day" /\ Goto(q, "insert")
      BY <1>3, <2>2 DEF CheckDay
    <3> QED BY <3>1, <1>b, <1>o, GotoShape DEF Statement, Books
  <2> QED BY <2>1, <2>2
<1>4. CASE Insert(q)
  <2>1. CASE Rollback(q, "refused")
    BY <2>1, <1>o, RollbackShape DEF Open
  <2>2. CASE ~Rollback(q, "refused")
    <3> DEFINE writes == [w[q] EXCEPT !.rows = {NewRow(q)}]
    <3>1. PICK step \in {"commit", "scan"} :
            /\ pc[q] = "insert" /\ Write(q, step, writes)
            /\ step = "commit" => req[q].kind = "create"
            /\ step = "scan" => req[q].kind # "create"
      BY <1>4, <2>2 DEF Insert
    <3>2. /\ writes.mints = w[q].mints /\ writes.revokes = w[q].revokes
          /\ writes.consumes = w[q].consumes
      BY <1>w DEF Writes
    <3> HIDE DEF writes
    <3>3. TokenWritesKept(q)
      BY <3>1, <3>2, WriteShape DEF TokenWritesKept
    <3>4. Books(q)
      BY <3>1, <3>3, <1>b, WriteShape DEF Books, BookingRequest
    <3> QED BY <3>1, <3>4, <1>o, WriteShape DEF Statement
  <2> QED BY <2>1, <2>2
<1> QED BY <1>1, <1>2, <1>3, <1>4

\* ... the three statements of the token table, ...
LEMMA TokenShape ==
    ASSUME TypeOK, NEW q \in Requests, ScanTokens(q) \/ RevokeAndMint(q) \/ Consume(q)
    PROVE  Statement(q) /\ \A p \in Others(q) : Stands(p)
<1>w. w[q] \in Writes /\ Fits(req[q], pc[q])
  BY DEF TypeOK
<1>o. Open(q)
  BY DEF ScanTokens, RevokeAndMint, Consume, Open, Steps
<1>1. CASE ScanTokens(q)
  <2>1. Issuing(q)
    BY <1>1, <1>w DEF ScanTokens, Fits, Issuing
  <2> DEFINE ids == {t.id : t \in {x \in token : x.res = Target(q) /\ Live(x)}}
  <2>2. /\ pc[q] = "scan" /\ pc' = [pc EXCEPT ![q] = "revoke"]
        /\ scan' = [scan EXCEPT ![q] = ids]
        /\ UNCHANGED <<now, reservation, token, req, w, prior>>
    BY <1>1 DEF ScanTokens, database
  <2> HIDE DEF ids
  <2>3. pc'[q] = "revoke" /\ scan'[q] = ids /\ \A p \in Others(q) : Stands(p)
    BY <2>2 DEF TypeOK, Others, Stands
  <2>4. Scans(q)
    BY <2>1, <2>2, <2>3 DEF Scans, TokenWritesKept, ids
  <2> QED BY <2>2, <2>3, <2>4, <1>o DEF Statement, SameCall
<1>2. CASE RevokeAndMint(q)
  <2>1. Issuing(q)
    BY <1>2, <1>w DEF RevokeAndMint, Fits, Issuing
  <2> DEFINE rev == {t.id : t \in {x \in token : x.id \in scan[q] /\ Live(x)}}
             stat == IF req[q].kind = "instant" THEN {<<req[q].host, "IN_USE">>} ELSE {}
             writes == [w[q] EXCEPT !.revokes = rev, !.mints = {NewToken(q)}, !.status = stat]
  <2>2. pc[q] = "revoke" /\ ~TokensLocked(q, scan[q]) /\ Write(q, "commit", writes)
    BY <1>2 DEF RevokeAndMint, NewToken
  <2> HIDE DEF rev, stat
  <2>3. /\ writes.mints = {NewToken(q)} /\ writes.revokes = rev
        /\ writes.consumes = w[q].consumes
    BY <1>w DEF Writes
  <2> HIDE DEF writes
  <2>4. Mints(q)
    BY <2>1, <2>2, <2>3, WriteShape DEF Mints, rev
  <2> QED BY <2>2, <2>4, <1>o, WriteShape DEF Statement
<1>3. CASE Consume(q)
  <2>1. CASE Rollback(q, "refused")
    BY <2>1, <1>o, RollbackShape DEF Open
  <2>2. CASE ~Rollback(q, "refused")
    <3> DEFINE writes == [w[q] EXCEPT !.consumes = {Target(q)}]
    <3>1. /\ pc[q] = "consume" /\ ~TokensLocked(q, {Target(q)})
          /\ \E t \in token : t.id = Target(q) /\ Live(t)
          /\ Write(q, "commit", writes)
      BY <1>3, <2>2 DEF Consume
    <3>2. /\ writes.mints = w[q].mints /\ writes.revokes = w[q].revokes
          /\ writes.consumes = {Target(q)}
      BY <1>w DEF Writes
    <3>3. req[q].kind = "verify"
      BY <3>1, <1>w DEF Fits, VerifyRequest
    <3> HIDE DEF writes
    <3>4. Consumes(q)
      BY <3>1, <3>2, <3>3, WriteShape DEF Consumes
    <3> QED BY <3>1, <3>4, <1>o, WriteShape DEF Statement
  <2> QED BY <2>1, <2>2
<1> QED BY <1>1, <1>2, <1>3

\* ... and the two of a cancellation.
LEMMA CancelShape ==
    ASSUME TypeOK, NEW q \in Requests, Cancel(q) \/ Release(q)
    PROVE  Statement(q) /\ \A p \in Others(q) : Stands(p)
<1>w. w[q] \in Writes /\ Fits(req[q], pc[q])
  BY DEF TypeOK
<1>o. Open(q)
  BY DEF Cancel, Release, Open, Steps
<1>k. req[q].kind = "cancel"
  BY <1>w DEF Cancel, Release, Fits
<1>1. CASE Cancel(q)
  <2> DEFINE writes == [w[q] EXCEPT !.cancels = {Target(q)}]
  <2>1. pc[q] = "cancel" /\ Write(q, "release", writes)
    BY <1>1 DEF Cancel
  <2>2. /\ writes.mints = w[q].mints /\ writes.revokes = w[q].revokes
        /\ writes.consumes = w[q].consumes /\ writes.cancels = {Target(q)}
    BY <1>w DEF Writes
  <2> HIDE DEF writes
  <2>3. Cancels(q)
    BY <2>1, <2>2, <1>k, WriteShape DEF Cancels, TokenWritesKept
  <2> QED BY <2>1, <2>3, <1>o, WriteShape DEF Statement
<1>2. CASE Release(q)
  <2> DEFINE seen == {r \in reservation : r.id \notin w[q].cancels}
             stat == IF host[req[q].host] = "IN_USE" /\ InUseBy(seen, req[q].host, now) = {}
                     THEN {<<req[q].host, "IDLE">>} ELSE {}
             writes == [w[q] EXCEPT !.status = stat]
  <2>1. pc[q] = "release" /\ Write(q, "commit", writes)
    BY <1>2 DEF Release
  <2> HIDE DEF stat
  <2>2. /\ writes.mints = w[q].mints /\ writes.revokes = w[q].revokes
        /\ writes.consumes = w[q].consumes /\ writes.cancels = w[q].cancels
    BY <1>w DEF Writes
  <2> HIDE DEF writes
  <2>3. Cancels(q)
    BY <2>1, <2>2, <1>k, WriteShape DEF Cancels, TokenWritesKept
  <2> QED BY <2>1, <2>3, <1>o, WriteShape DEF Statement
<1> QED BY <1>1, <1>2

\* A commit.
LEMMA PublicationShape ==
    ASSUME TypeOK, NEW q \in Requests, Commit(q)
    PROVE  Publication(q) /\ \A p \in Others(q) : Stands(p)
BY DEF Commit, TypeOK, Publication, Others, Stands

\* A step by which no request moves.
Elsewhere ==
    /\ \A p \in Requests : Stands(p)
    /\ UNCHANGED <<reservation, token>>
    /\ now \in Nat /\ now' \in Nat /\ now <= now'

Moves(q) == Arrival(q) \/ Statement(q) \/ Publication(q)

\* Every step is of one request, or of none.
LEMMA Shapes ==
    ASSUME TypeOK, [Next]_vars
    PROVE  \/ \E q \in Requests : Moves(q) /\ \A p \in Others(q) : Stands(p)
           \/ Elsewhere
<1>n. now \in Nat
  BY RequestsAssumption DEF TypeOK, RequestsAssumption
<1>1. ASSUME NEW q \in Requests, Fail(q)
      PROVE  Statement(q) /\ \A p \in Others(q) : Stands(p)
  BY <1>1, RollbackShape DEF Fail, Open
<1>2. ASSUME NEW q \in Requests, Step(q)
      PROVE  Moves(q) /\ \A p \in Others(q) : Stands(p)
  BY <1>2, BookingShape, TokenShape, CancelShape, PublicationShape DEF Step, Moves
<1>3. ASSUME NEW h \in Hosts, Report(h)
      PROVE  Elsewhere
  BY <1>3, <1>n DEF Report, Elsewhere, Stands
<1>4. CASE Tick
  BY <1>4, <1>n DEF Tick, database, Elsewhere, Stands
<1>5. CASE UNCHANGED vars
  BY <1>5, <1>n DEF vars, database, Elsewhere, Stands
<1> QED BY <1>1, <1>2, <1>3, <1>4, <1>5, ArrivalShape DEF Next, Moves

-----------------------------------------------------------------------------
(* The ledger: whose tokens there are, and what an open transaction may     *)
(* have written to them.                                                   *)

Locked(q) == w[q].revokes \cup w[q].consumes

\* A token is that of the one request that issued it.
TokensOfRequests ==
    /\ \A s, t \in token : s.id = t.id => s = t
    /\ \A t \in token : pc[t.id] = "ok" /\ Issuing(t.id) /\ t.res = Target(t.id)

\* What q has written to tokens, and that the rows it holds locked are live.
InHand(q) ==
    /\ w[q].mints # {} => pc[q] = "commit" /\ Issuing(q) /\ w[q].mints = {NewToken(q)}
    /\ w[q].revokes # {} => pc[q] = "commit" /\ Issuing(q)
    /\ w[q].consumes # {} =>
          pc[q] = "commit" /\ Consuming(q) /\ w[q].consumes = {req[q].target}
    /\ pc[q] = "commit" /\ Consuming(q) => w[q].consumes # {}
    /\ \A i \in Locked(q) : \E t \in token : t.id = i /\ Live(t)

\* What q was called with, and the answers it came after.
Came(q) ==
    /\ \A p \in prior[q] : pc[p] = "ok" /\ q \notin prior[p]
    /\ pc[q] = "idle" => prior[q] = {}
    /\ pc[q] = "consume" => Consuming(q)
    /\ pc[q] \in {"scan", "revoke"} => Issuing(q)
    /\ pc[q] # "idle" /\ req[q].kind = "verify" => \E t \in token : t.id = req[q].target
    /\ pc[q] # "idle" /\ req[q].kind \in {"connect", "cancel"} =>
          \E r \in reservation : r.id = req[q].target

LedgerOf(q) == InHand(q) /\ Came(q)

\* No token row is locked by two transactions.
LocksApart == \A p, q \in Requests : p # q => Locked(p) \cap Locked(q) = {}

TokenLedger ==
    /\ TokensOfRequests
    /\ LocksApart
    /\ \A q \in Requests : LedgerOf(q)

\* A statement keeps the kind of its request, and of all but a creation the
\* reservation or token it is about.
LEMMA SameCallKept ==
    ASSUME NEW q \in Requests, SameCall(q)
    PROVE  /\ req'[q].kind = req[q].kind
           /\ (req[q].kind # "create" => Target(q)' = Target(q))
           /\ (req[q] \notin BookingRequest => req'[q] = req[q])
           /\ (req[q] \in BookingRequest => req'[q].user = req[q].user)
           /\ (Issuing(q)' <=> Issuing(q))
           /\ (Consuming(q)' <=> Consuming(q))
<1>1. CASE req'[q] = req[q]
  BY <1>1 DEF Target, Issuing, Consuming
<1>2. CASE req'[q] # req[q]
  <2>1. PICK hi : req[q] \in BookingRequest /\ req'[q] = [req[q] EXCEPT !.hi = hi]
    BY <1>2 DEF SameCall
  <2>2. req'[q].kind = req[q].kind /\ req'[q].user = req[q].user
    BY <2>1 DEF BookingRequest
  <2>3. req[q].kind \in {"create", "instant"}
    BY <2>1 DEF BookingRequest
  <2> QED BY <2>1, <2>2, <2>3 DEF Target, Issuing, Consuming
<1> QED BY <1>1, <1>2

\* A step of q that leaves the tables alone and answers nothing has to be looked
\* at for q only.
LEMMA LedgerFrame ==
    ASSUME TypeOK, TokenLedger, NEW q \in Requests, UNCHANGED <<reservation, token>>,
           \A p \in Others(q) : Stands(p),
           pc[q] # "ok", pc'[q] # "ok",
           LedgerOf(q)',
           \A p \in Others(q) : Locked(q)' \cap Locked(p) = {}
    PROVE  TokenLedger'
<1>1. TokensOfRequests'
  <2>1. \A t \in token : t.id \in Others(q)
    BY DEF TokenLedger, TokensOfRequests, Others, TypeOK, Token
  <2> QED BY <2>1 DEF TokenLedger, TokensOfRequests, Stands, Issuing, Target
<1>2. ASSUME NEW p \in Others(q)
      PROVE  LedgerOf(p)' /\ Locked(p)' = Locked(p)
  <2>1. LedgerOf(p) /\ Stands(p) /\ p \in Requests
    BY <1>2 DEF TokenLedger, Others
  <2>2. InHand(p)' /\ Locked(p)' = Locked(p)
    BY <2>1 DEF LedgerOf, InHand, Stands, Issuing, Consuming, NewToken, Target, Locked
  <2>3. \A x \in prior[p] : x \in Others(q)
    BY <2>1 DEF LedgerOf, Came, Others, TypeOK
  <2>4. \A x \in prior'[p] : pc'[x] = "ok" /\ p \notin prior'[x]
    BY <2>1, <2>3 DEF LedgerOf, Came, Stands
  <2>5. Came(p)'
    BY <2>1, <2>4 DEF LedgerOf, Came, Stands, Issuing, Consuming
  <2> QED BY <2>2, <2>5 DEF LedgerOf
<1>3. LocksApart'
  BY <1>2 DEF TokenLedger, LocksApart, Others
<1> QED BY <1>1, <1>2, <1>3 DEF TokenLedger, Others

\* The arrival of a request.
LEMMA ArrivalLedger ==
    ASSUME TypeOK, RowsOfRequest, TokenLedger, NEW q \in Requests,
           Arrival(q), \A p \in Others(q) : Stands(p)
    PROVE  TokenLedger'
<1>1. LedgerOf(q) /\ pc[q] = "idle" /\ prior'[q] = Answered /\ w'[q] = w[q]
  BY DEF TokenLedger, Arrival
<1>2. w[q].mints = {} /\ w[q].revokes = {} /\ w[q].consumes = {} /\ Locked(q) = {}
  BY <1>1 DEF LedgerOf, InHand, Locked
<1>3. w'[q].mints = {} /\ w'[q].revokes = {} /\ w'[q].consumes = {} /\ Locked(q)' = {}
  BY <1>1, <1>2 DEF Locked
<1>4. pc'[q] \in {"count", "next", "refused", "scan", "consume", "commit", "cancel", "release"}
  BY DEF Arrival, Found
<1>5. \A x \in prior'[q] : pc'[x] = "ok" /\ q \notin prior'[x]
  <2> SUFFICES ASSUME NEW x \in prior'[q] PROVE pc'[x] = "ok" /\ q \notin prior'[x]
    OBVIOUS
  <2>1. x \in Requests /\ pc[x] = "ok" /\ x \in Others(q)
    BY <1>1 DEF Answered, Others
  <2>2. Stands(x) /\ \A y \in prior[x] : pc[y] = "ok"
    BY <2>1 DEF TokenLedger, LedgerOf, Came
  <2> QED BY <1>1, <2>1, <2>2 DEF Stands
<1>6. /\ pc'[q] = "consume" => Consuming(q)'
      /\ pc'[q] \in {"scan", "revoke"} => Issuing(q)'
      /\ ~(pc'[q] = "commit" /\ Consuming(q)')
      /\ req'[q].kind = "verify" => \E t \in token : t.id = req'[q].target
      /\ req'[q].kind \in {"connect", "cancel"} =>
            \E r \in reservation : r.id = req'[q].target
  BY DEF Arrival, Found, Consuming, Issuing
<1>7. UNCHANGED <<reservation, token>>
  BY DEF Arrival
<1>8. LedgerOf(q)'
  BY <1>3, <1>4, <1>5, <1>6, <1>7 DEF LedgerOf, InHand, Came
<1> QED BY <1>1, <1>3, <1>4, <1>7, <1>8, LedgerFrame

\* A statement that is not a commit.
LEMMA StatementLedger ==
    ASSUME TypeOK, RowsOfRequest, TokenLedger, NEW q \in Requests,
           Statement(q), \A p \in Others(q) : Stands(p)
    PROVE  TokenLedger'
<1>1. LedgerOf(q) /\ pc[q] \in Steps /\ UNCHANGED <<reservation, token>>
  BY DEF TokenLedger, Statement, Open
<1>2. SameCall(q) /\ prior'[q] = prior[q]
  BY DEF Statement
<1>3. pc[q] # "ok" /\ pc'[q] \notin {"ok", "idle"} /\ pc[q] # "idle"
  BY <1>1 DEF Statement, Steps, GivesUp, Books, Cancels, Scans, Mints, Consumes
<1>4. \A x \in prior'[q] : pc'[x] = "ok" /\ q \notin prior'[x]
  <2> SUFFICES ASSUME NEW x \in prior[q] PROVE pc'[x] = "ok" /\ q \notin prior'[x]
    BY <1>2
  <2>1. pc[x] = "ok" /\ q \notin prior[x] /\ x \in Requests
    BY <1>1 DEF LedgerOf, Came, TypeOK
  <2>2. x \in Others(q)
    BY <2>1, <1>3 DEF Others
  <2> QED BY <2>1, <2>2 DEF Stands
<1>5. /\ req[q].kind = "verify" => \E t \in token : t.id = req[q].target
      /\ req[q].kind \in {"connect", "cancel"} => \E r \in reservation : r.id = req[q].target
  BY <1>1, <1>3 DEF LedgerOf, Came
<1>6. /\ req'[q].kind = "verify" => \E t \in token : t.id = req'[q].target
      /\ req'[q].kind \in {"connect", "cancel"} => \E r \in reservation : r.id = req'[q].target
  <2>1. req[q].kind \in {"verify", "connect", "cancel"} => req[q] \notin BookingRequest
    BY DEF BookingRequest
  <2> QED BY <1>2, <1>5, <2>1, SameCallKept
<1>7. /\ pc'[q] = "consume" => Consuming(q)'
      /\ pc'[q] \in {"scan", "revoke"} => Issuing(q)'
  <2>1. pc'[q] # "consume"
    BY DEF Statement, GivesUp, Books, Cancels, Scans, Mints, Consumes
  <2>2. pc'[q] \in {"scan", "revoke"} => Issuing(q)
    BY DEF Statement, GivesUp, Books, Cancels, Scans, Mints, Consumes, Issuing
  <2> QED BY <1>2, <2>1, <2>2, SameCallKept
<1>8. Came(q)'
  BY <1>1, <1>3, <1>4, <1>6, <1>7 DEF Came
<1>9. CASE GivesUp(q)
  <2>1. /\ w'[q].mints = {} /\ w'[q].revokes = {} /\ w'[q].consumes = {}
        /\ pc'[q] # "commit"
    BY <1>9 DEF GivesUp, NoWrites
  <2>2. InHand(q)' /\ Locked(q)' = {}
    BY <2>1 DEF InHand, Locked
  <2> QED BY <1>1, <1>3, <1>8, <2>2, LedgerFrame DEF LedgerOf
<1>10. CASE Books(q) \/ Cancels(q) \/ Scans(q)
  <2>1. pc[q] # "commit" /\ TokenWritesKept(q)
    BY <1>10 DEF Books, Cancels, Scans
  <2>2. w[q].mints = {} /\ w[q].revokes = {} /\ w[q].consumes = {}
    BY <1>1, <2>1 DEF LedgerOf, InHand
  <2>3. w'[q].mints = {} /\ w'[q].revokes = {} /\ w'[q].consumes = {}
    BY <2>1, <2>2 DEF TokenWritesKept
  <2>4. ~(pc'[q] = "commit" /\ Consuming(q)')
    BY <1>2, <1>10, SameCallKept DEF Books, Cancels, Scans, Consuming, BookingRequest
  <2>5. InHand(q)' /\ Locked(q)' = {}
    BY <2>3, <2>4 DEF InHand, Locked
  <2> QED BY <1>1, <1>3, <1>8, <2>5, LedgerFrame DEF LedgerOf
<1>11. CASE Mints(q)
  <2>1. w[q].consumes = {}
    BY <1>1, <1>11 DEF LedgerOf, InHand, Mints
  <2>2. Locked(q)' = {t.id : t \in {x \in token : x.id \in scan[q] /\ Live(x)}}
    BY <1>11, <2>1 DEF Mints, Locked
  <2>3. \A i \in Locked(q)' : i \in scan[q] /\ \E t \in token : t.id = i /\ Live(t)
    BY <2>2
  <2>4. \A p \in Others(q) : Locked(q)' \cap Locked(p) = {}
    BY <1>11, <2>3 DEF Mints, TokensLocked, Locked
  <2>5. Issuing(q)' /\ ~Consuming(q)' /\ req'[q].kind = req[q].kind
    BY <1>2, <1>11, SameCallKept DEF Mints, Issuing, Consuming
  <2>6. NewToken(q)' = NewToken(q)
    BY <1>11 DEF Mints, NewToken, Target
  <2>7. InHand(q)'
    BY <1>1, <1>11, <2>1, <2>3, <2>5, <2>6 DEF InHand, Mints
  <2> QED BY <1>1, <1>3, <1>8, <2>4, <2>7, LedgerFrame DEF LedgerOf
<1>12. CASE Consumes(q)
  <2>1. Consuming(q) /\ w[q].revokes = {} /\ w[q].mints = {}
    BY <1>1, <1>12 DEF LedgerOf, InHand, Came, Consumes
  <2>2. Target(q) = req[q].target
    BY <1>12 DEF Consumes, Target
  <2>3. Locked(q)' = {Target(q)} /\ Consuming(q)'
    BY <1>12, <2>1 DEF Consumes, Locked, Consuming
  <2>4. \A p \in Others(q) : Locked(q)' \cap Locked(p) = {}
    BY <1>12, <2>3 DEF Consumes, TokensLocked, Locked
  <2>5. \A i \in Locked(q)' : \E t \in token : t.id = i /\ Live(t)
    BY <1>12, <2>3 DEF Consumes
  <2>6. InHand(q)'
    BY <1>1, <1>12, <2>1, <2>2, <2>3, <2>5 DEF InHand, Consumes
  <2> QED BY <1>1, <1>3, <1>8, <2>4, <2>6, LedgerFrame DEF LedgerOf
<1> QED BY <1>9, <1>10, <1>11, <1>12 DEF Statement

\* What a commit does to a token: it may lose its life, never its identity.
LEMMA MarkedToken ==
    ASSUME NEW t \in Token, NEW x
    PROVE  /\ Marked(t, x) \in Token
           /\ Marked(t, x).id = t.id /\ Marked(t, x).res = t.res
           /\ Marked(t, x).revoked <=> t.revoked \/ t.id \in x.revokes
           /\ Marked(t, x).consumed <=> t.consumed \/ t.id \in x.consumes
           /\ (t.id \notin x.revokes \cup x.consumes => Marked(t, x) = t)
<1> DEFINE rv == t.revoked \/ t.id \in x.revokes
           cs == t.consumed \/ t.id \in x.consumes
<1>1. rv \in BOOLEAN /\ cs \in BOOLEAN
  OBVIOUS
<1>2. Marked(t, x) = [t EXCEPT !.revoked = rv, !.consumed = cs]
  BY DEF Marked
<1>3. t.revoked \in BOOLEAN /\ t.consumed \in BOOLEAN
  BY DEF Token
<1>4. t.id \notin x.revokes \cup x.consumes => rv = t.revoked /\ cs = t.consumed
  BY <1>3
<1>5. (rv <=> t.revoked \/ t.id \in x.revokes) /\ (cs <=> t.consumed \/ t.id \in x.consumes)
  OBVIOUS
<1> HIDE DEF rv, cs
<1>6. /\ Marked(t, x) \in Token
      /\ Marked(t, x).id = t.id /\ Marked(t, x).res = t.res
      /\ Marked(t, x).revoked = rv /\ Marked(t, x).consumed = cs
  BY <1>1, <1>2 DEF Token
<1>7. rv = t.revoked /\ cs = t.consumed => Marked(t, x) = t
  BY <1>2 DEF Token
<1>8. /\ Marked(t, x).revoked <=> t.revoked \/ t.id \in x.revokes
      /\ Marked(t, x).consumed <=> t.consumed \/ t.id \in x.consumes
  BY <1>5, <1>6
<1> QED BY <1>4, <1>6, <1>7, <1>8

\* The tokens after a commit are those there were, marked, and perhaps a new one.
LEMMA PublishedTokens ==
    ASSUME TypeOK, TokenLedger, NEW q \in Requests, Publication(q)
    PROVE  /\ \A t \in token : Marked(t, w[q]) \in token'
           /\ \A s \in token' : \/ \E t \in token : s = Marked(t, w[q])
                                \/ s = NewToken(q) /\ Issuing(q)
<1>1. w[q].mints # {} => Issuing(q) /\ w[q].mints = {NewToken(q)}
  BY DEF TokenLedger, LedgerOf, InHand
<1> QED BY <1>1 DEF Publication

\* A commit and the ledger: what the others hold locked stays live, since no row
\* is locked twice.
LEMMA PublicationLedger ==
    ASSUME TypeOK, RowsOfRequest, TokenLedger, NEW q \in Requests,
           Publication(q), \A p \in Others(q) : Stands(p)
    PROVE  TokenLedger'
<1>1. /\ pc[q] = "commit" /\ pc'[q] = "ok" /\ w'[q] = NoWrites
      /\ req'[q] = req[q] /\ prior'[q] = prior[q]
  BY DEF Publication
<1>2. token \subseteq Token /\ \A t \in token : t.id \in Others(q)
  BY <1>1 DEF TokenLedger, TokensOfRequests, Others, TypeOK, Token
<1>3. \A p \in Requests : Target(p)' = Target(p) /\ (Issuing(p)' <=> Issuing(p))
  BY <1>1 DEF Others, Stands, Target, Issuing
<1>4. TokensOfRequests'
  <2>1. ASSUME NEW s \in token'
        PROVE  /\ s.id \in Requests
               /\ pc'[s.id] = "ok" /\ Issuing(s.id)' /\ s.res = Target(s.id)'
               /\ s.id = q => s = NewToken(q)
               /\ s.id # q => \E t \in token : s = Marked(t, w[q]) /\ t.id = s.id
    <3>1. CASE \E t \in token : s = Marked(t, w[q])
      <4>1. PICK t \in token : s = Marked(t, w[q])
        BY <3>1
      <4>2. s.id = t.id /\ s.res = t.res /\ t.id \in Others(q)
        BY <4>1, <1>2, MarkedToken
      <4>3. pc[t.id] = "ok" /\ Issuing(t.id) /\ t.res = Target(t.id)
        BY DEF TokenLedger, TokensOfRequests
      <4>4. pc'[t.id] = "ok" /\ Issuing(t.id)' /\ t.res = Target(t.id)'
        BY <4>2, <4>3, <1>3 DEF Stands, Others
      <4> QED BY <4>1, <4>2, <4>4 DEF Others
    <3>2. CASE s = NewToken(q) /\ Issuing(q)
      BY <3>2, <1>1, <1>3 DEF NewToken
    <3> QED BY <3>1, <3>2, PublishedTokens
  <2>2. ASSUME NEW s \in token', NEW t \in token', s.id = t.id
        PROVE  s = t
    BY <2>1, <2>2 DEF TokenLedger, TokensOfRequests
  <2> QED BY <2>1, <2>2 DEF TokensOfRequests
<1>5. \A p \in Requests : \A i \in Locked(p)' : p \in Others(q) /\ i \in Locked(p)
  BY <1>1 DEF Locked, NoWrites, Stands, Others
<1>6. LocksApart'
  BY <1>5 DEF TokenLedger, LocksApart
<1>7. \A r \in reservation : \E x \in reservation' : x.id = r.id
  <2>1. \A r \in reservation : /\ Canceled(r, w[q].cancels) \in reservation'
                               /\ Canceled(r, w[q].cancels).id = r.id
    BY CanceledRow DEF Publication, TypeOK
  <2> QED BY <2>1
<1>8. \A t \in token : \E s \in token' : s.id = t.id
  BY <1>2, PublishedTokens, MarkedToken
<1>9. ASSUME NEW p \in Requests
      PROVE  Came(p)'
  <2>1. Came(p)
    BY DEF TokenLedger, LedgerOf
  <2>2. req'[p] = req[p] /\ prior'[p] = prior[p]
    BY <1>1 DEF Stands, Others
  <2>3. \A x \in prior[p] : x \in Others(q)
    BY <2>1, <1>1 DEF Came, Others, TypeOK
  <2>4. \A x \in prior'[p] : pc'[x] = "ok" /\ p \notin prior'[x]
    BY <2>1, <2>2, <2>3 DEF Came, Stands
  <2>5. pc'[p] = pc[p] \/ (pc'[p] = "ok" /\ pc[p] = "commit")
    BY <1>1 DEF Stands, Others
  <2> QED BY <2>1, <2>2, <2>4, <2>5, <1>7, <1>8 DEF Came, Consuming, Issuing
<1>10. InHand(q)'
  BY <1>1 DEF InHand, NoWrites, Locked
<1>11. ASSUME NEW p \in Others(q)
       PROVE  InHand(p)'
  <2>1. InHand(p) /\ Stands(p) /\ p \in Requests
    BY <1>11 DEF TokenLedger, LedgerOf, Others
  <2>2. Locked(p)' = Locked(p)
    BY <2>1 DEF Stands, Locked
  <2>3. ASSUME NEW i \in Locked(p)
        PROVE  \E t \in token' : t.id = i /\ Live(t)
    <3>1. PICK t \in token : t.id = i /\ Live(t)
      BY <2>1 DEF InHand
    <3>2. i \notin Locked(q)
      BY <2>1 DEF TokenLedger, LocksApart, Others
    <3>3. Marked(t, w[q]) = t
      BY <3>1, <3>2, <1>2, MarkedToken DEF Locked
    <3> QED BY <3>1, <3>3, PublishedTokens
  <2> QED BY <2>1, <2>2, <2>3 DEF InHand, Stands, Issuing, Consuming, NewToken, Target
<1> QED BY <1>4, <1>6, <1>9, <1>10, <1>11 DEF TokenLedger, LedgerOf, Others

\* A step of no request.
LEMMA ElsewhereLedger ==
    ASSUME TypeOK, TokenLedger, Elsewhere
    PROVE  TokenLedger'
<1>1. \A p \in Requests : Stands(p)
  BY DEF Elsewhere
<1>2. UNCHANGED <<reservation, token>>
  BY DEF Elsewhere
<1>3. \A p \in Requests : /\ (Issuing(p)' <=> Issuing(p)) /\ (Consuming(p)' <=> Consuming(p))
                          /\ Target(p)' = Target(p) /\ NewToken(p)' = NewToken(p)
                          /\ Locked(p)' = Locked(p)
  BY <1>1 DEF Stands, Issuing, Consuming, Target, NewToken, Locked
<1>4. \A t \in token : t.id \in Requests
  BY DEF TypeOK, Token
<1>5. TokensOfRequests' /\ LocksApart'
  BY <1>1, <1>2, <1>3, <1>4 DEF TokenLedger, TokensOfRequests, LocksApart, Stands
<1>6. ASSUME NEW p \in Requests
      PROVE  LedgerOf(p)'
  <2>1. prior[p] \subseteq Requests /\ LedgerOf(p)
    BY DEF TypeOK, TokenLedger
  <2>2. InHand(p)'
    BY <1>1, <1>2, <1>3, <2>1 DEF LedgerOf, InHand, Stands
  <2>3. Came(p)'
    BY <1>1, <1>2, <1>3, <2>1 DEF LedgerOf, Came, Stands
  <2> QED BY <2>2, <2>3 DEF LedgerOf
<1> QED BY <1>5, <1>6 DEF TokenLedger

\* A token belongs to the one request that issued it; what an open transaction
\* has written to a token is its own, of a live token, and of no other's.
LEMMA LedgerKept == Spec => []TokenLedger
<1>1. Init => TokenLedger
  BY DEF Init, TokenLedger, TokensOfRequests, LocksApart, LedgerOf, InHand, Came,
         Locked, NoWrites, Consuming, Issuing
<1>2. TypeOK /\ RowsOfRequest /\ TokenLedger /\ [Next]_vars => TokenLedger'
  BY Shapes, ArrivalLedger, StatementLedger, PublicationLedger, ElsewhereLedger DEF Moves
<1> QED BY <1>1, <1>2, TypeCorrect, RowsOfRequests, PTL DEF Spec

-----------------------------------------------------------------------------
(* What no step does.                                                      *)

\* s is what became of the token t.
Later(t, s) ==
    /\ s.id = t.id /\ s.res = t.res
    /\ Live(s) => Live(t)
    /\ t.consumed => s.consumed

\* Tokens and rows stay, tokens never come back to life and cancelled rows stay
\* cancelled; new ones are of a request that commits; answered requests are over.
Evolves ==
    /\ \A t \in token : \E s \in token' : Later(t, s)
    /\ \A s \in token' : pc[s.id] = "commit" \/ \E t \in token : Later(t, s)
    /\ \A x \in reservation' :
          \/ pc[x.id] = "commit"
          \/ \E r \in reservation : /\ r.id = x.id
                                    /\ r.status = "CANCELED" => x.status = "CANCELED"
    /\ \A p \in Requests : Stands(p) \/ Moves(p)
    /\ \A p \in Requests : pc[p] = "ok" => Stands(p)

\* Every step is an evolution of the two tables.
LEMMA Evolution ==
    ASSUME TypeOK, RowsOfRequest, TokenLedger, [Next]_vars
    PROVE  Evolves
<1>0. token \subseteq Token /\ reservation \subseteq Reservation
  BY DEF TypeOK
<1>s. UNCHANGED token => /\ \A t \in token : \E s \in token' : Later(t, s)
                         /\ \A s \in token' : \E t \in token : Later(t, s)
  BY DEF Later
<1>r. UNCHANGED reservation =>
        \A x \in reservation' : \E r \in reservation :
            r.id = x.id /\ (r.status = "CANCELED" => x.status = "CANCELED")
  OBVIOUS
<1>1. CASE Elsewhere
  BY <1>1, <1>s, <1>r DEF Elsewhere, Evolves
<1>2. ASSUME NEW q \in Requests, Arrival(q) \/ Statement(q), \A p \in Others(q) : Stands(p)
      PROVE  Evolves
  <2>1. UNCHANGED <<reservation, token>>
    BY <1>2 DEF Arrival, Statement
  <2>2. pc[q] # "ok"
    BY <1>2 DEF Arrival, Statement, Open, Steps
  <2>3. \A p \in Requests : /\ Stands(p) \/ Moves(p)
                            /\ pc[p] = "ok" => Stands(p)
    BY <1>2, <2>2 DEF Moves, Others
  <2> QED BY <2>1, <2>3, <1>s, <1>r DEF Evolves
<1>3. ASSUME NEW q \in Requests, Publication(q), \A p \in Others(q) : Stands(p)
      PROVE  Evolves
  <2>1. pc[q] = "commit"
    BY <1>3 DEF Publication
  <2>2. \A t \in token : Later(t, Marked(t, w[q]))
    BY <1>0, MarkedToken DEF Later, Live
  <2>3. \A t \in token : \E s \in token' : Later(t, s)
    BY <1>3, <2>2, PublishedTokens
  <2>4. \A s \in token' : pc[s.id] = "commit" \/ \E t \in token : Later(t, s)
    BY <1>3, <2>1, <2>2, PublishedTokens DEF NewToken
  <2>5. ASSUME NEW x \in reservation'
        PROVE  \/ pc[x.id] = "commit"
               \/ \E r \in reservation : /\ r.id = x.id
                                         /\ r.status = "CANCELED" => x.status = "CANCELED"
    <3>1. CASE x \in w[q].rows
      <4>1. x = NewRow(q)
        BY <3>1 DEF RowsOfRequest
      <4> QED BY <4>1, <2>1 DEF NewRow
    <3>2. CASE \E r \in reservation : x = Canceled(r, w[q].cancels)
      BY <3>2, <1>0 DEF Canceled, Reservation
    <3> QED BY <1>3, <3>1, <3>2 DEF Publication
  <2>6. \A p \in Requests : /\ Stands(p) \/ Moves(p)
                            /\ pc[p] = "ok" => Stands(p)
    BY <1>3, <2>1 DEF Moves, Others
  <2> QED BY <2>3, <2>4, <2>5, <2>6 DEF Evolves
<1> QED BY <1>1, <1>2, <1>3, Shapes DEF Moves

\* A token handed out before q came is no newer than the step.
LEMMA OldTokens ==
    ASSUME TypeOK, TokenLedger, Evolves, NEW q \in Requests, NEW s \in token',
           s.id \in prior[q]
    PROVE  \E t \in token : Later(t, s)
<1>1. pc[s.id] = "ok"
  BY DEF TokenLedger, LedgerOf, Came
<1> QED BY <1>1 DEF Evolves

-----------------------------------------------------------------------------
(* Reissuing kills older tokens.                                           *)

\* Once q has scanned the tokens of its reservation, those handed out before it
\* came are dead or about to be revoked by it.
OlderRevoked ==
    \A q \in Requests : \A t \in token :
        Issuing(q) /\ t.id \in prior[q] /\ t.res = Target(q) =>
            /\ pc[q] = "revoke" => ~Live(t) \/ t.id \in scan[q]
            /\ pc[q] = "commit" => ~Live(t) \/ t.id \in w[q].revokes
            /\ pc[q] = "ok" => ~Live(t)

\* One step.
LEMMA OlderRevokedStep ==
    ASSUME TypeOK, TokenLedger, OlderRevoked, Evolves
    PROVE  OlderRevoked'
<1> SUFFICES ASSUME NEW q \in Requests, NEW s \in token',
                    Issuing(q)', s.id \in prior'[q], s.res = Target(q)'
             PROVE  /\ pc'[q] = "revoke" => ~Live(s) \/ s.id \in scan'[q]
                    /\ pc'[q] = "commit" => ~Live(s) \/ s.id \in w'[q].revokes
                    /\ pc'[q] = "ok" => ~Live(s)
  BY DEF OlderRevoked
<1>1. CASE Stands(q)
  <2>1. Issuing(q) /\ s.id \in prior[q] /\ s.res = Target(q)
    BY <1>1 DEF Stands, Issuing, Target
  <2>2. PICK t \in token : Later(t, s)
    BY <2>1, OldTokens
  <2>3. /\ pc[q] = "revoke" => ~Live(t) \/ t.id \in scan[q]
        /\ pc[q] = "commit" => ~Live(t) \/ t.id \in w[q].revokes
        /\ pc[q] = "ok" => ~Live(t)
    BY <2>1, <2>2 DEF OlderRevoked, Later
  <2> QED BY <1>1, <2>2, <2>3 DEF Stands, Later
<1>2. CASE Arrival(q)
  <2>1. pc'[q] \notin {"revoke", "commit", "ok"}
    BY <1>2 DEF Arrival, Found, Issuing
  <2> QED BY <2>1
<1>3. CASE Statement(q)
  <2>1. SameCall(q) /\ s \in token /\ pc'[q] # "ok" /\ s.id \in prior[q]
    BY <1>3 DEF Statement, GivesUp, Books, Cancels, Scans, Mints, Consumes
  <2>2. Issuing(q)
    BY <2>1, SameCallKept
  <2>3. CASE pc'[q] = "revoke"
    <3>1. Scans(q)
      BY <1>3, <2>3 DEF Statement, GivesUp, Books, Cancels, Mints, Consumes
    <3>2. s.res = Target(q)
      BY <3>1 DEF Scans, Target
    <3> QED BY <2>1, <2>3, <3>1, <3>2 DEF Scans
  <2>4. CASE pc'[q] = "commit"
    <3>1. Mints(q)
      BY <1>3, <2>2, <2>4 DEF Statement, GivesUp, Books, Cancels, Scans, Consumes, Issuing
    <3>2. s.res = Target(q) /\ pc[q] = "revoke"
      BY <3>1 DEF Mints, Target
    <3>3. ~Live(s) \/ s.id \in scan[q]
      BY <2>1, <2>2, <3>2 DEF OlderRevoked
    <3> QED BY <2>1, <2>4, <3>1, <3>3 DEF Mints
  <2> QED BY <2>1, <2>3, <2>4
<1>4. CASE Publication(q)
  <2>1. /\ pc[q] = "commit" /\ pc'[q] = "ok"
        /\ Issuing(q) /\ s.id \in prior[q] /\ s.res = Target(q)
    BY <1>4 DEF Publication, Issuing, Target
  <2>2. s.id # q
    BY <2>1 DEF TokenLedger, LedgerOf, Came
  <2>3. PICK t \in token : s = Marked(t, w[q])
    BY <1>4, <2>2, PublishedTokens DEF NewToken
  <2>4. t \in Token
    BY DEF TypeOK
  <2>5. s.id = t.id /\ s.res = t.res
    BY <2>3, <2>4, MarkedToken
  <2>6. ~Live(t) \/ t.id \in w[q].revokes
    BY <2>1, <2>5 DEF OlderRevoked
  <2> QED BY <2>1, <2>3, <2>4, <2>6, MarkedToken DEF Live
<1> QED BY <1>1, <1>2, <1>3, <1>4 DEF Evolves, Moves

\* Issuing a token kills every token of the reservation handed out before.
LEMMA OlderDead ==
    ASSUME TypeOK, TokenLedger, OlderRevoked
    PROVE  ReissueKillsOlder
<1> SUFFICES ASSUME NEW a \in token, NEW b \in token, a.res = b.res, a.id \in prior[b.id]
             PROVE  ~Live(a)
  BY DEF ReissueKillsOlder
<1>1. pc[b.id] = "ok" /\ Issuing(b.id) /\ b.res = Target(b.id)
  BY DEF TokenLedger, TokensOfRequests
<1>2. b.id \in Requests
  BY DEF TypeOK, Token
<1> QED BY <1>1, <1>2 DEF OlderRevoked

\* However transactions interleave, issuing a token kills every token of the
\* reservation that was handed out before the request came.
THEOREM ReissuesKill == Spec => []ReissueKillsOlder
<1>1. Init => OlderRevoked
  BY DEF Init, OlderRevoked
<1>2. TypeOK /\ RowsOfRequest /\ TokenLedger /\ OlderRevoked /\ [Next]_vars => OlderRevoked'
  BY Evolution, OlderRevokedStep
<1>3. TypeOK /\ TokenLedger /\ OlderRevoked => ReissueKillsOlder
  BY OlderDead
<1> QED BY <1>1, <1>2, <1>3, TypeCorrect, RowsOfRequests, LedgerKept, PTL DEF Spec

-----------------------------------------------------------------------------
(* No token is accepted after a newer one was handed out.                  *)

\* A verification past its first read is not of a token that had been replaced
\* when it came.
ReplaysRefused ==
    \A v \in Requests : req[v].kind = "verify" /\ pc[v] \in {"consume", "commit", "ok"} =>
        \A a, b \in token :
            ~(a.id = req[v].target /\ a.res = b.res /\ b.id \in prior[v] /\ a.id \in prior[b.id])

\* One step.
LEMMA ReplaysRefusedStep ==
    ASSUME TypeOK, TokenLedger, ReissueKillsOlder, ReplaysRefused, Evolves
    PROVE  ReplaysRefused'
<1> SUFFICES ASSUME NEW v \in Requests, req'[v].kind = "verify",
                    pc'[v] \in {"consume", "commit", "ok"},
                    NEW c \in token', NEW d \in token',
                    c.id = req'[v].target, c.res = d.res,
                    d.id \in prior'[v], c.id \in prior'[d.id]
             PROVE  FALSE
  BY DEF ReplaysRefused
<1>1. \A x \in prior'[v] : pc[x] = "ok" /\ x \in Requests /\ prior'[x] = prior[x]
  <2>1. prior'[v] = prior[v] \/ prior'[v] = Answered
    BY DEF Evolves, Moves, Stands, Arrival, Statement, Publication
  <2>2. \A x \in prior'[v] : pc[x] = "ok" /\ x \in Requests
    BY <2>1 DEF TokenLedger, LedgerOf, Came, Answered, TypeOK
  <2> QED BY <2>2 DEF Evolves, Stands
<1>2. PICK b \in token : Later(b, d)
  BY <1>1 DEF Evolves
<1>3. c.id \in prior[d.id] /\ d.id \in Requests
  BY <1>1
<1>4. PICK a \in token : Later(a, c)
  BY <1>3, OldTokens
<1>5. a.res = b.res /\ a.id \in prior[b.id] /\ a.id = req'[v].target /\ b.id \in prior'[v]
  BY <1>2, <1>3, <1>4 DEF Later
<1>6. CASE Stands(v)
  BY <1>5, <1>6 DEF ReplaysRefused, Stands
<1>7. CASE Arrival(v)
  <2>1. \E t \in token : req'[v].target = t.id /\ Live(t)
    BY <1>7 DEF Arrival, Found
  <2>2. Live(a)
    BY <1>5, <2>1 DEF TokenLedger, TokensOfRequests
  <2> QED BY <1>5, <2>2 DEF ReissueKillsOlder
<1>8. CASE Statement(v)
  <2>1. req[v].kind = "verify" /\ prior'[v] = prior[v]
    BY <1>8, SameCallKept DEF Statement
  <2>2. Consumes(v)
    BY <1>8, <2>1 DEF Statement, GivesUp, Books, Cancels, Scans, Mints, Issuing, BookingRequest
  <2>3. pc[v] = "consume" /\ req'[v] = req[v]
    BY <2>2 DEF Consumes
  <2> QED BY <1>5, <2>1, <2>3 DEF ReplaysRefused
<1>9. CASE Publication(v)
  <2>1. pc[v] = "commit" /\ req'[v] = req[v] /\ prior'[v] = prior[v]
    BY <1>9 DEF Publication
  <2> QED BY <1>5, <2>1 DEF ReplaysRefused
<1> QED BY <1>6, <1>7, <1>8, <1>9 DEF Evolves, Moves

\* Once a newer token of a reservation has been handed out, no verification that
\* comes after it accepts an older one, consumed or not.
THEOREM ReplaysNeverPass == Spec => []NoReplay
<1>1. Init => ReplaysRefused
  BY DEF Init, ReplaysRefused
<1>2. TypeOK /\ RowsOfRequest /\ TokenLedger /\ ReissueKillsOlder /\ ReplaysRefused
        /\ [Next]_vars => ReplaysRefused'
  BY Evolution, ReplaysRefusedStep
<1>3. ReplaysRefused => NoReplay
  BY DEF ReplaysRefused, NoReplay
<1> QED BY <1>1, <1>2, <1>3, TypeCorrect, RowsOfRequests, LedgerKept, ReissuesKill, PTL DEF Spec

-----------------------------------------------------------------------------
(* A token is consumed at most once.                                       *)

\* A consuming verification that was answered valid has left its mark.
ConsumptionsStand ==
    \A v \in Requests : Consuming(v) /\ pc[v] = "ok" =>
        \E t \in token : t.id = req[v].target /\ t.consumed

\* The mark of a commit, and that of one before, stay.
LEMMA ConsumptionsStep ==
    ASSUME TypeOK, TokenLedger, ConsumptionsStand, Evolves
    PROVE  ConsumptionsStand'
<1> SUFFICES ASSUME NEW v \in Requests, Consuming(v)', pc'[v] = "ok"
             PROVE  \E s \in token' : s.id = req'[v].target /\ s.consumed
  BY DEF ConsumptionsStand
<1>1. CASE Stands(v)
  <2>1. PICK t \in token : t.id = req[v].target /\ t.consumed
    BY <1>1 DEF Stands, ConsumptionsStand, Consuming
  <2>2. PICK s \in token' : Later(t, s)
    BY DEF Evolves
  <2> QED BY <1>1, <2>1, <2>2 DEF Stands, Later
<1>2. CASE Publication(v)
  <2>1. Consuming(v) /\ pc[v] = "commit" /\ req'[v] = req[v]
    BY <1>2 DEF Publication, Consuming
  <2>2. w[v].consumes = {req[v].target}
    BY <2>1 DEF TokenLedger, LedgerOf, InHand
  <2>3. PICK t \in token : t.id = req[v].target
    BY <2>1 DEF TokenLedger, LedgerOf, Came, Consuming
  <2>4. Marked(t, w[v]) \in token' /\ t \in Token
    BY <1>2, PublishedTokens DEF TypeOK
  <2>5. Marked(t, w[v]).id = t.id /\ Marked(t, w[v]).consumed
    BY <2>2, <2>3, <2>4, MarkedToken
  <2> QED BY <2>1, <2>3, <2>4, <2>5
<1>3. ~Arrival(v) /\ ~Statement(v)
  BY DEF Arrival, Found, Statement, GivesUp, Books, Cancels, Scans, Mints, Consumes
<1> QED BY <1>1, <1>2, <1>3 DEF Evolves, Moves

\* One step: a token that is consumed by a commit was live until then, so nobody
\* had consumed or revoked it.
LEMMA ConsumedOnceStep ==
    ASSUME TypeOK, RowsOfRequest, TokenLedger, ConsumptionsStand, ConsumedOnce, [Next]_vars
    PROVE  ConsumedOnce'
<1>e. Evolves
  BY Evolution
<1>t. token \subseteq Token
  BY DEF TypeOK
<1>1. ASSUME NEW v \in Requests, NEW x \in Requests, v # x,
             req'[v].kind = "verify", req'[x].kind = "verify",
             pc'[v] = "ok", pc'[x] = "ok", req'[v].consume, req'[x].consume,
             req'[v].target = req'[x].target
      PROVE  FALSE
  <2>1. ASSUME NEW p \in Requests, pc'[p] = "ok", Moves(p)
        PROVE  Publication(p)
    BY <2>1 DEF Moves, Arrival, Found, Statement, GivesUp, Books, Cancels, Scans,
                Mints, Consumes
  <2>2. ASSUME NEW p \in Requests, NEW o \in Requests, Publication(p), Stands(o),
               Consuming(p), Consuming(o), pc[o] = "ok", req[p].target = req[o].target
        PROVE  FALSE
    <3>1. PICK t \in token : t.id = req[o].target /\ t.consumed
      BY <2>2 DEF ConsumptionsStand
    <3>2. w[p].consumes = {req[p].target}
      BY <2>2 DEF TokenLedger, LedgerOf, InHand, Publication
    <3>3. req[p].target \in Locked(p)
      BY <3>2 DEF Locked
    <3>4. PICK s \in token : s.id = req[p].target /\ Live(s)
      BY <3>3 DEF TokenLedger, LedgerOf, InHand
    <3>5. s = t
      BY <2>2, <3>1, <3>4 DEF TokenLedger, TokensOfRequests
    <3> QED BY <3>1, <3>4, <3>5 DEF Live
  <2>3. CASE Stands(v) /\ Stands(x)
    BY <1>1, <2>3 DEF Stands, ConsumedOnce
  <2>4. CASE Moves(v) /\ Stands(x)
    <3>1. Publication(v)
      BY <1>1, <2>1, <2>4
    <3> QED BY <1>1, <2>2, <2>4, <3>1 DEF Publication, Stands, Consuming
  <2>5. CASE Stands(v) /\ Moves(x)
    <3>1. Publication(x)
      BY <1>1, <2>1, <2>5
    <3> QED BY <1>1, <2>2, <2>5, <3>1 DEF Publication, Stands, Consuming
  <2> QED BY <1>1, <2>3, <2>4, <2>5, Shapes DEF Elsewhere, Others
<1>2. ASSUME NEW s \in token'
      PROVE  ~(s.revoked /\ s.consumed)
  <2>1. CASE s \in token
    BY <2>1 DEF ConsumedOnce
  <2>2. ASSUME NEW q \in Requests, Publication(q)
        PROVE  ~(s.revoked /\ s.consumed)
    <3>1. CASE s = NewToken(q)
      BY <3>1 DEF NewToken
    <3>2. ASSUME NEW t \in token, s = Marked(t, w[q])
          PROVE  ~(s.revoked /\ s.consumed)
      <4>1. ~(t.revoked /\ t.consumed)
        BY DEF ConsumedOnce
      <4>2. t.id \in Locked(q) => Live(t)
        BY DEF TokenLedger, LedgerOf, InHand, TokensOfRequests
      <4>3. ~(t.id \in w[q].revokes /\ t.id \in w[q].consumes)
        BY DEF TokenLedger, LedgerOf, InHand, Issuing, Consuming
      <4> QED BY <1>t, <3>2, <4>1, <4>2, <4>3, MarkedToken DEF Live, Locked
    <3> QED BY <2>2, <3>1, <3>2, PublishedTokens
  <2> QED BY <2>1, <2>2, Shapes DEF Elsewhere, Moves, Arrival, Statement
<1> QED BY <1>1, <1>2 DEF ConsumedOnce

\* Of any number of concurrent consuming verifications of a token at most one is
\* answered valid, and no consumed token was revoked as well.
THEOREM ConsumedAtMostOnce == Spec => []ConsumedOnce
<1>1. Init => ConsumptionsStand /\ ConsumedOnce
  BY DEF Init, ConsumptionsStand, ConsumedOnce
<1>2. TypeOK /\ RowsOfRequest /\ TokenLedger /\ ConsumptionsStand /\ ConsumedOnce
        /\ [Next]_vars => ConsumptionsStand' /\ ConsumedOnce'
  BY Evolution, ConsumptionsStep, ConsumedOnceStep
<1> QED BY <1>1, <1>2, TypeCorrect, RowsOfRequests, LedgerKept, PTL DEF Spec

-----------------------------------------------------------------------------
(* No token after a cancellation.                                          *)

\* The row a cancellation is about is cancelled, or about to be by it.
CancelsStand ==
    \A c \in Requests : \A r \in reservation :
        pc[c] # "idle" /\ req[c].kind = "cancel" /\ r.id = req[c].target =>
            /\ pc[c] \in {"release", "commit"} => r.status = "CANCELED" \/ r.id \in w[c].cancels
            /\ pc[c] = "ok" => r.status = "CANCELED"

\* A request that may issue a token is about no reservation whose cancellation
\* had been answered when it came.
IssuedBeforeCancel ==
    \A q \in Requests : Issuing(q) /\ pc[q] \notin {"idle", "refused", "failed"} =>
        \A c \in prior[q] : req[c].kind = "cancel" => req[c].target # Target(q)

\* One step of the cancellations.
LEMMA CancelsStep ==
    ASSUME TypeOK, RowsOfRequest, TokenLedger, CancelsStand, Evolves
    PROVE  CancelsStand'
<1> SUFFICES ASSUME NEW c \in Requests, NEW x \in reservation',
                    pc'[c] # "idle", req'[c].kind = "cancel", x.id = req'[c].target
             PROVE  /\ pc'[c] \in {"release", "commit"} =>
                          x.status = "CANCELED" \/ x.id \in w'[c].cancels
                    /\ pc'[c] = "ok" => x.status = "CANCELED"
  BY DEF CancelsStand
<1>1. CASE Arrival(c)
  <2>1. PICK r \in reservation :
          /\ x.id = r.id
          /\ \/ pc'[c] \in {"refused", "cancel"}
             \/ pc'[c] = "release" /\ r.status = "CANCELED"
    BY <1>1 DEF Arrival, Found
  <2>2. x \in reservation
    BY <1>1 DEF Arrival
  <2>3. x = r
    BY <2>1, <2>2 DEF RowsOfRequest
  <2> QED BY <2>1, <2>3
<1>2. CASE ~Arrival(c)
  <2>1. pc[c] # "idle" /\ req[c].kind = "cancel" /\ req'[c].target = req[c].target
    <3>1. CASE Stands(c)
      BY <3>1 DEF Stands
    <3>2. CASE Statement(c)
      <4>1. req[c].kind = "cancel" /\ req[c] \notin BookingRequest
        BY <3>2, SameCallKept DEF Statement, BookingRequest
      <4>2. req'[c] = req[c]
        BY <3>2, <4>1 DEF Statement, SameCall
      <4> QED BY <3>2, <4>1, <4>2 DEF Statement, Open, Steps
    <3>3. CASE Publication(c)
      BY <3>3 DEF Publication
    <3> QED BY <1>2, <3>1, <3>2, <3>3 DEF Evolves, Moves
  <2>2. \E r \in reservation : r.id = x.id /\ (r.status = "CANCELED" => x.status = "CANCELED")
    <3>1. PICK r \in reservation : r.id = req[c].target
      BY <2>1 DEF TokenLedger, LedgerOf, Came
    <3>2. pc[x.id] = "ok"
      BY <2>1, <3>1 DEF RowsOfRequest
    <3> QED BY <3>2 DEF Evolves
  <2>3. PICK r \in reservation : r.id = x.id /\ (r.status = "CANCELED" => x.status = "CANCELED")
    BY <2>2
  <2>4. /\ pc[c] \in {"release", "commit"} => r.status = "CANCELED" \/ r.id \in w[c].cancels
        /\ pc[c] = "ok" => r.status = "CANCELED"
    BY <2>1, <2>3 DEF CancelsStand
  <2>5. CASE Stands(c)
    BY <2>3, <2>4, <2>5 DEF Stands
  <2>6. CASE Statement(c)
    <3>1. pc'[c] # "ok"
      BY <2>6 DEF Statement, GivesUp, Books, Cancels, Scans, Mints, Consumes
    <3>2. pc'[c] \in {"release", "commit"} => Cancels(c)
      BY <2>1, <2>6 DEF Statement, GivesUp, Books, Scans, Mints, Consumes, Issuing,
                        BookingRequest
    <3>3. Cancels(c) => r.status = "CANCELED" \/ r.id \in w'[c].cancels
      BY <2>1, <2>3, <2>4 DEF Cancels, Target
    <3> QED BY <2>3, <3>1, <3>2, <3>3
  <2>7. CASE Publication(c)
    <3>1. pc[c] = "commit" /\ pc'[c] = "ok" /\ w[c].rows = {}
      BY <2>1, <2>7 DEF Publication, RowsOfRequest, BookingRequest
    <3>2. PICK o \in reservation : x = Canceled(o, w[c].cancels)
      BY <2>7, <3>1 DEF Publication
    <3>3. x.id = o.id /\ o \in Reservation
      BY <3>2 DEF Canceled, TypeOK, Reservation
    <3>4. o = r
      BY <2>3, <3>3 DEF RowsOfRequest
    <3>5. o.status = "CANCELED" \/ o.id \in w[c].cancels
      BY <2>4, <3>1, <3>4
    <3>6. x.status = "CANCELED"
      BY <3>2, <3>3, <3>5 DEF Canceled, Reservation
    <3> QED BY <3>1, <3>6
  <2> QED BY <1>2, <2>5, <2>6, <2>7 DEF Evolves, Moves
<1> QED BY <1>1, <1>2

\* One step of the issuing requests.
LEMMA IssuedBeforeStep ==
    ASSUME TypeOK, RowsOfRequest, TokenLedger, CancelsStand, IssuedBeforeCancel, Evolves
    PROVE  IssuedBeforeCancel'
<1> SUFFICES ASSUME NEW q \in Requests, Issuing(q)',
                    pc'[q] \notin {"idle", "refused", "failed"},
                    NEW c \in prior'[q], req'[c].kind = "cancel", req'[c].target = Target(q)'
             PROVE  FALSE
  BY DEF IssuedBeforeCancel
<1>1. pc[c] = "ok" /\ c \in Requests
  <2>1. prior'[q] = prior[q] \/ prior'[q] = Answered
    BY DEF Evolves, Moves, Stands, Arrival, Statement, Publication
  <2> QED BY <2>1 DEF TokenLedger, LedgerOf, Came, Answered, TypeOK
<1>2. req'[c] = req[c]
  BY <1>1 DEF Evolves, Stands
<1>3. CASE Arrival(q)
  <2>1. PICK x \in reservation : x.id = req[c].target
    BY <1>1, <1>2 DEF TokenLedger, LedgerOf, Came
  <2>2. x.status = "CANCELED" /\ pc[x.id] = "ok"
    BY <1>1, <1>2, <2>1 DEF CancelsStand, RowsOfRequest
  <2>3. CASE req'[q].kind = "instant"
    <3>1. x.id = q
      BY <1>2, <2>1, <2>3 DEF Target
    <3> QED BY <1>3, <2>2, <3>1 DEF Arrival
  <2>4. CASE req'[q].kind = "connect"
    <3>1. PICK r \in reservation : req'[q].target = r.id /\ r.status = "CONFIRMED"
      BY <1>3, <2>4 DEF Arrival, Found
    <3>2. r = x
      BY <1>2, <2>1, <2>4, <3>1 DEF Target, RowsOfRequest
    <3> QED BY <2>2, <3>1, <3>2
  <2> QED BY <2>3, <2>4 DEF Issuing
<1>4. CASE Stands(q) \/ Publication(q)
  <2>1. /\ req'[q] = req[q] /\ prior'[q] = prior[q]
        /\ pc[q] \notin {"idle", "refused", "failed"}
    BY <1>4 DEF Stands, Publication
  <2> QED BY <1>2, <2>1 DEF IssuedBeforeCancel, Issuing, Target
<1>5. CASE Statement(q)
  <2>1. /\ Issuing(q) /\ Target(q)' = Target(q) /\ prior'[q] = prior[q]
        /\ pc[q] \notin {"idle", "refused", "failed"}
    BY <1>5, SameCallKept DEF Statement, Issuing, Open, Steps
  <2> QED BY <1>2, <2>1 DEF IssuedBeforeCancel
<1> QED BY <1>3, <1>4, <1>5 DEF Evolves, Moves

\* After the answer to a cancellation no request obtains a token any more.
THEOREM CancellationsEndIssuing == Spec => []NoTokenAfterCancel
<1>1. Init => CancelsStand /\ IssuedBeforeCancel
  BY DEF Init, CancelsStand, IssuedBeforeCancel
<1>2. TypeOK /\ RowsOfRequest /\ TokenLedger /\ CancelsStand /\ IssuedBeforeCancel
        /\ [Next]_vars => CancelsStand' /\ IssuedBeforeCancel'
  BY Evolution, CancelsStep, IssuedBeforeStep
<1>3. TypeOK /\ TokenLedger /\ IssuedBeforeCancel => NoTokenAfterCancel
  BY DEF TypeOK, Token, TokenLedger, TokensOfRequests, IssuedBeforeCancel, NoTokenAfterCancel
<1> QED BY <1>1, <1>2, <1>3, TypeCorrect, RowsOfRequests, LedgerKept, PTL DEF Spec

-----------------------------------------------------------------------------
(* The quota of outstanding reservations.                                  *)

\* The outstanding rows of its user that had been answered when q came.
Seen(q) == {r \in Outstanding(reservation, req[q].user, now) : r.id \in prior[q]}

\* A booking that has passed the count has fewer than MaxConcurrent of them.
CountedEarlier ==
    \A q \in Requests :
        req[q] \in BookingRequest /\ pc[q] \in {"day", "insert", "scan", "revoke", "commit"} =>
            Cardinality(Seen(q)) < MaxConcurrent

\* QuotaUnlessRaced, of every set of outstanding rows of a user: cancelling one
\* of two that raced must leave the others within the quota.
QuotaOfSubsets ==
    \A u \in Users : \A S \in SUBSET Outstanding(reservation, u, now) :
        Cardinality(S) > MaxConcurrent => \E r, s \in S : Raced(r.id, s.id)

Quota ==
    /\ IsFiniteSet(reservation)
    /\ CountedEarlier
    /\ QuotaOfSubsets

\* Fewer rows, fewer outstanding ones.
LEMMA SmallerCount ==
    ASSUME NEW S, NEW T, IsFiniteSet(T), S \subseteq T
    PROVE  /\ IsFiniteSet(S)
           /\ Cardinality(S) \in Nat /\ Cardinality(T) \in Nat
           /\ Cardinality(S) <= Cardinality(T)
BY FS_Subset, FS_CardinalityType

\* Time only takes rows away from the outstanding ones, and so does a commit but
\* for the row it inserts.
LEMMA OutstandingShrinks ==
    ASSUME TypeOK, RowsOfRequest, [Next]_vars, NEW u
    PROVE  \A r \in Outstanding(reservation, u, now)' :
              \/ r \in Outstanding(reservation, u, now)
              \/ \E q \in Requests : Publication(q) /\ r \in w[q].rows /\ r = NewRow(q)
<1>n. now \in Nat /\ now' \in Nat /\ now <= now'
  BY RequestsAssumption, Shapes DEF TypeOK, RequestsAssumption, Elsewhere, Moves, Arrival, Statement, Publication
<1> SUFFICES ASSUME NEW r \in reservation', r.user = u, ActiveRow(r), now' < r.hi
             PROVE  \/ r \in Outstanding(reservation, u, now)
                    \/ \E q \in Requests : Publication(q) /\ r \in w[q].rows /\ r = NewRow(q)
  BY DEF Outstanding
<1>1. CASE r \in reservation
  <2>1. now < r.hi
    BY <1>n, <1>1 DEF TypeOK, Reservation
  <2> QED BY <1>1, <2>1 DEF Outstanding
<1>2. CASE r \notin reservation
  <2>1. PICK q \in Requests : Publication(q)
    BY <1>2, Shapes DEF Elsewhere, Moves, Arrival, Statement
  <2>2. ASSUME NEW x \in reservation, r = Canceled(x, w[q].cancels)
        PROVE  FALSE
    <3>1. x \in Reservation
      BY DEF TypeOK
    <3>2. x.id \notin w[q].cancels
      BY <2>2, <3>1 DEF Canceled, ActiveRow, Reservation
    <3> QED BY <1>2, <2>2, <3>2 DEF Canceled
  <2>3. r \in w[q].rows
    BY <2>1, <2>2 DEF Publication
  <2>4. r = NewRow(q)
    BY <2>3 DEF RowsOfRequest
  <2> QED BY <2>1, <2>3, <2>4
<1> QED BY <1>1, <1>2

\* The table stays finite.
LEMMA FiniteStep ==
    ASSUME TypeOK, RowsOfRequest, IsFiniteSet(reservation), [Next]_vars
    PROVE  IsFiniteSet(reservation')
<1>1. CASE UNCHANGED reservation
  BY <1>1
<1>2. ASSUME NEW q \in Requests, Publication(q)
      PROVE  IsFiniteSet(reservation')
  <2> DEFINE rows == {Canceled(r, w[q].cancels) : r \in reservation}
             f == [r \in reservation |-> Canceled(r, w[q].cancels)]
  <2>1. IsFiniteSet(rows)
    <3>1. f \in Surjection(reservation, rows)
      BY DEF Surjection
    <3> HIDE DEF f, rows
    <3> QED BY <3>1, FS_Surjection
  <2>2. w[q].rows = {} \/ w[q].rows = {NewRow(q)}
    BY DEF RowsOfRequest
  <2>3. IsFiniteSet(w[q].rows)
    BY <2>2, FS_EmptySet, FS_Singleton
  <2> QED BY <1>2, <2>1, <2>3, FS_Union DEF Publication
<1> QED BY <1>1, <1>2, Shapes DEF Elsewhere, Moves, Arrival, Statement

\* One step of the count: what q has seen only shrinks.
LEMMA CountedStep ==
    ASSUME TypeOK, RowsOfRequest, TokenLedger, Quota, Evolves, [Next]_vars
    PROVE  CountedEarlier'
<1> DEFINE Past == {"day", "insert", "scan", "revoke", "commit"}
<1> SUFFICES ASSUME NEW q \in Requests, req'[q] \in BookingRequest, pc'[q] \in Past
             PROVE  Cardinality(Seen(q)') < MaxConcurrent
  BY DEF CountedEarlier
<1>1. ~Arrival(q) /\ ~Publication(q)
  BY DEF Arrival, Found, Publication, BookingRequest
<1>2. prior'[q] = prior[q]
  BY <1>1 DEF Evolves, Moves, Stands, Statement
<1>3. req[q] \in BookingRequest /\ req'[q].user = req[q].user
  <2>1. req'[q] = req[q] \/ SameCall(q)
    BY <1>1 DEF Evolves, Moves, Stands, Statement
  <2> QED BY <2>1, SameCallKept
<1>4. Seen(q)' \subseteq Seen(q)
  <2>0. PICK u : u = req[q].user
    OBVIOUS
  <2> SUFFICES ASSUME NEW r \in Outstanding(reservation, u, now)', r.id \in prior[q]
               PROVE  r \in Outstanding(reservation, u, now)
    BY <2>0, <1>2, <1>3 DEF Seen, Outstanding
  <2>1. ASSUME NEW p \in Requests, Publication(p), r = NewRow(p)
        PROVE  FALSE
    <3>1. r.id = p /\ pc[p] = "commit"
      BY <2>1 DEF NewRow, Publication
    <3> QED BY <3>1 DEF TokenLedger, LedgerOf, Came
  <2> QED BY <2>1, OutstandingShrinks
<1>5. IsFiniteSet(Outstanding(reservation, req[q].user, now))
  BY FS_Subset DEF Quota, Outstanding
<1>6. IsFiniteSet(Seen(q)) /\ Cardinality(Seen(q)) <= Cardinality(Outstanding(reservation, req[q].user, now))
  BY <1>5, SmallerCount DEF Seen
<1>7. Cardinality(Seen(q)) < MaxConcurrent
  <2>1. pc[q] \in Past \/ (pc[q] = "count" /\ ~OverCount(reservation, req[q].user, now))
    BY <1>1, <1>3 DEF Evolves, Moves, Stands, Statement, GivesUp, Books, Cancels, Scans,
                     Mints, Consumes, BookingRequest
  <2>2. CASE pc[q] \in Past
    BY <1>3, <2>2 DEF Quota, CountedEarlier
  <2>3. CASE pc[q] = "count" /\ ~OverCount(reservation, req[q].user, now)
    <3>1. /\ Cardinality(Outstanding(reservation, req[q].user, now)) \in Nat
          /\ Cardinality(Seen(q)) \in Nat /\ MaxConcurrent \in Nat
      BY <1>5, <1>6, FS_CardinalityType, RulesAssumption DEF RulesAssumption
    <3> QED BY <1>6, <2>3, <3>1 DEF OverCount
  <2> QED BY <2>1, <2>2, <2>3
<1>8. Cardinality(Seen(q)') <= Cardinality(Seen(q)) /\ Cardinality(Seen(q)') \in Nat
      /\ Cardinality(Seen(q)) \in Nat /\ MaxConcurrent \in Nat
  BY <1>4, <1>6, SmallerCount, RulesAssumption DEF RulesAssumption
<1> QED BY <1>7, <1>8

\* One step of the quota: the row a commit adds raced with one of the others, or
\* had seen them all and counted them.
LEMMA QuotaStep ==
    ASSUME TypeOK, RowsOfRequest, TokenLedger, Quota, Evolves, [Next]_vars
    PROVE  QuotaOfSubsets'
<1> SUFFICES ASSUME NEW u \in Users, NEW S, S \subseteq Outstanding(reservation, u, now)',
                    Cardinality(S) > MaxConcurrent
             PROVE  \E r, s \in S : Raced(r.id, s.id)'
  BY DEF QuotaOfSubsets
<1>1. \A r \in reservation : prior'[r.id] = prior[r.id] /\ pc[r.id] = "ok" /\ r.id \in Requests
  <2>1. \A r \in reservation : pc[r.id] = "ok" /\ r.id \in Requests
    BY DEF RowsOfRequest, TypeOK, Reservation
  <2> QED BY <2>1 DEF Evolves, Stands
<1>2. CASE S \subseteq Outstanding(reservation, u, now)
  <2>1. PICK r \in S, s \in S : Raced(r.id, s.id)
    BY <1>2 DEF Quota, QuotaOfSubsets
  <2>2. r \in reservation /\ s \in reservation
    BY <1>2 DEF Outstanding
  <2> QED BY <1>1, <2>1, <2>2 DEF Raced
<1>3. CASE ~(S \subseteq Outstanding(reservation, u, now))
  <2>1. PICK n \in S, q \in Requests :
          n \notin Outstanding(reservation, u, now) /\ Publication(q) /\ n \in w[q].rows
          /\ n = NewRow(q)
    BY <1>3, OutstandingShrinks
  <2>2. /\ n.id = q /\ n.user = req[q].user /\ n.user = u
        /\ pc[q] = "commit" /\ prior'[q] = prior[q] /\ req[q] \in BookingRequest
    BY <2>1 DEF NewRow, Outstanding, Publication, RowsOfRequest
  <2>3. \A p \in Requests : Publication(p) => p = q
    <3>1. ASSUME NEW p \in Requests, Publication(p)
          PROVE  ~Stands(p)
      BY <3>1 DEF Publication, Stands
    <3> QED BY <2>1, <3>1, Shapes DEF Elsewhere, Others
  <2> DEFINE T == S \ {n}
  <2>4. T \subseteq Outstanding(reservation, u, now)
    BY <2>1, <2>3, OutstandingShrinks
  <2>5. CASE \E r \in T : r.id \notin prior[q]
    <3>1. PICK r \in T : r.id \notin prior[q]
      BY <2>5
    <3>2. r \in reservation /\ r \in S
      BY <2>4 DEF Outstanding
    <3>3. r.id # q /\ r.id \in Requests
      BY <1>1, <2>2, <3>2
    <3>4. q \notin prior[r.id]
      BY <2>2, <3>3 DEF TokenLedger, LedgerOf, Came
    <3>5. Raced(r.id, n.id)'
      BY <1>1, <2>2, <3>1, <3>2, <3>3, <3>4 DEF Raced
    <3> QED BY <3>2, <3>5
  <2>6. CASE \A r \in T : r.id \in prior[q]
    <3>1. T \subseteq Seen(q)
      BY <2>2, <2>4, <2>6 DEF Seen
    <3>2. Cardinality(Seen(q)) < MaxConcurrent
      BY <2>2 DEF Quota, CountedEarlier
    <3>3. IsFiniteSet(Seen(q))
      BY FS_Subset DEF Quota, Seen, Outstanding
    <3>4. IsFiniteSet(T) /\ Cardinality(T) <= Cardinality(Seen(q))
          /\ Cardinality(T) \in Nat /\ Cardinality(Seen(q)) \in Nat /\ MaxConcurrent \in Nat
      BY <3>1, <3>3, SmallerCount, RulesAssumption DEF RulesAssumption
    <3>5. S = T \cup {n} /\ n \notin T
      OBVIOUS
    <3> HIDE DEF T
    <3>6. Cardinality(S) = Cardinality(T) + 1
      BY <3>4, <3>5, FS_AddElement
    <3> QED BY <3>2, <3>4, <3>6
  <2> QED BY <2>5, <2>6
<1> QED BY <1>2, <1>3

\* A user holds more than MaxConcurrent outstanding reservations only through
\* requests that overlapped.
THEOREM QuotaHolds == Spec => []QuotaUnlessRaced
<1>1. Init => Quota
  <2> SUFFICES ASSUME Init PROVE Quota
    OBVIOUS
  <2>1. IsFiniteSet(reservation)
    BY FS_EmptySet DEF Init
  <2>2. CountedEarlier
    BY DEF Init, CountedEarlier
  <2>3. \A u : Outstanding(reservation, u, now) = {}
    BY DEF Init, Outstanding
  <2>4. QuotaOfSubsets
    <3>1. Cardinality({}) = 0 /\ MaxConcurrent \in Nat
      BY FS_EmptySet, RulesAssumption DEF RulesAssumption
    <3>2. \A u \in Users : \A S \in SUBSET Outstanding(reservation, u, now) : S = {}
      BY <2>3
    <3> QED BY <3>1, <3>2 DEF QuotaOfSubsets
  <2> QED BY <2>1, <2>2, <2>4 DEF Quota
<1>2. TypeOK /\ RowsOfRequest /\ TokenLedger /\ Quota /\ [Next]_vars => Quota'
  BY Evolution, FiniteStep, CountedStep, QuotaStep DEF Quota
<1>3. Quota => QuotaUnlessRaced
  BY DEF Quota, QuotaOfSubsets, QuotaUnlessRaced
<1> QED BY <1>1, <1>2, <1>3, TypeCorrect, RowsOfRequests, LedgerKept, PTL DEF Spec
=============================================================================
