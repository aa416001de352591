------------------------- MODULE ReservationsProofs -------------------------
(***************************************************************************)
(* Proofs about Reservations, for every set of requests, users and hosts   *)
(* and every value of the service's limits.                                *)
(***************************************************************************)
EXTENDS Reservations, WellFoundedInduction, TLAPS

-----------------------------------------------------------------------------
(* The end of an instant use is a minimum over a set of naturals.          *)

Below == {p \in Nat \X Nat : p[1] < p[2]}

\* The order of the naturals is well founded, with the order as a set of pairs.
LEMMA BelowWellFounded == IsWellFoundedOn(Below, Nat)
<1>1. OpToRel(<, Nat) = Below
  BY DEF OpToRel, Below
<1> QED BY <1>1, NatLessThanWellFounded

\* Min picks an element, and a least one.
LEMMA LeastNatural ==
    ASSUME NEW S, S \subseteq Nat, S # {}
    PROVE  /\ Min(S) \in S
           /\ \A x \in S : Min(S) <= x
<1>1. \A x, m \in Nat : ~(<<x, m>> \in Below) => m <= x
  <2>1. TAKE x, m \in Nat
  <2>2. x < m => <<x, m>> \in Below
    <3>1. <<x, m>> \in Nat \X Nat
      OBVIOUS
    <3>2. <<x, m>>[1] = x /\ <<x, m>>[2] = m
      OBVIOUS
    <3> QED BY <3>1, <3>2, Zenon DEF Below
  <2> QED BY <2>2
<1>2. PICK m \in S : \A x \in S : ~(<<x, m>> \in Below)
  BY WFMin, BelowWellFounded
<1>3. \A x \in S : m <= x
  BY <1>1, <1>2
<1> QED BY <1>3 DEF Min

\* The end of the slot reached is strictly later than the instant itself.
LEMMA SlotEndLater ==
    ASSUME NEW t \in Nat
    PROVE  /\ ((t + InstantUse) \div Slot) * Slot + Slot \in Nat
           /\ t < ((t + InstantUse) \div Slot) * Slot + Slot
<1> DEFINE n == t + InstantUse
<1>1. n \in Nat /\ t <= n /\ Slot \in Nat \ {0}
  BY RulesAssumption DEF RulesAssumption
<1> HIDE DEF n
<1>2. n \div Slot \in Nat /\ n % Slot \in 0..(Slot - 1)
  BY <1>1
<1>3. n = (n \div Slot) * Slot + (n % Slot)
  BY <1>1
<1>4. (n \div Slot) * Slot \in Nat
  BY <1>1, <1>2
<1>5. (n \div Slot) * Slot + Slot \in Nat /\ n < (n \div Slot) * Slot + Slot
  BY <1>1, <1>2, <1>3, <1>4
<1> QED BY <1>1, <1>5 DEF n

\* _instant_window returns a proper window: it ends after it begins, and not
\* after the start of any later reservation it was cut at.
LEMMA InstantEndProper ==
    ASSUME NEW t \in Nat, NEW starts, starts \subseteq Nat,
           \A s \in starts : t < s
    PROVE  /\ InstantEnd(t, starts) \in Nat
           /\ t < InstantEnd(t, starts)
           /\ \A s \in starts : InstantEnd(t, starts) <= s
<1> DEFINE e == ((t + InstantUse) \div Slot) * Slot + Slot
<1>1. e \in Nat /\ t < e
  BY SlotEndLater
<1>2. InstantEnd(t, starts) = Min({e} \cup starts)
  BY DEF InstantEnd
<1> HIDE DEF e
<1>3. /\ Min({e} \cup starts) \in {e} \cup starts
      /\ \A x \in {e} \cup starts : Min({e} \cup starts) <= x
  <2>1. {e} \cup starts \subseteq Nat /\ {e} \cup starts # {}
    BY <1>1
  <2> HIDE DEF e
  <2> QED BY <2>1, LeastNatural
<1> QED BY <1>1, <1>2, <1>3

-----------------------------------------------------------------------------
(* Type correctness.                                                       *)

\* The statements and answers a request can move to, as one set.
Stage == {"idle"} \cup Steps \cup Answers

\* The arrival of a request keeps the types.
LEMMA BeginType ==
    ASSUME TypeOK, NEW q \in Requests, NEW r \in Request, NEW step \in Stage,
           Fits(r, step), Begin(q, r, step)
    PROVE  TypeOK'
<1>1. pc' \in [Requests -> Stage]
  BY DEF TypeOK, Begin, Stage
<1>2. req' \in [Requests -> Request \cup {NoRequest}]
  BY DEF TypeOK, Begin
<1>3. prior' \in [Requests -> SUBSET Requests]
  BY DEF TypeOK, Begin
<1>4. \A p \in Requests : Fits(req'[p], pc'[p])
  BY DEF TypeOK, Begin
<1>5. UNCHANGED <<now, reservation, token, host, scan, w>>
  BY DEF Begin, database
<1> QED BY <1>1, <1>2, <1>3, <1>4, <1>5 DEF TypeOK, Stage

\* A statement that leaves its effect in the transaction keeps the types.
LEMMA WriteType ==
    ASSUME TypeOK, NEW q \in Requests, NEW step \in Stage, NEW writes \in Writes,
           Fits(req[q], step), Write(q, step, writes)
    PROVE  TypeOK'
<1>1. pc' \in [Requests -> Stage]
  BY DEF TypeOK, Write, Stage
<1>2. w' \in [Requests -> Writes]
  BY DEF TypeOK, Write
<1>3. \A p \in Requests : Fits(req'[p], pc'[p])
  BY DEF TypeOK, Write
<1>4. UNCHANGED <<now, reservation, token, host, scan, req, prior>>
  BY DEF Write, database
<1> QED BY <1>1, <1>2, <1>3, <1>4 DEF TypeOK, Stage

\* So does a statement that only reads,
LEMMA GotoType ==
    ASSUME TypeOK, NEW q \in Requests, NEW step \in Stage,
           Fits(req[q], step), Goto(q, step)
    PROVE  TypeOK'
<1>1. pc' \in [Requests -> Stage]
  BY DEF TypeOK, Goto, Stage
<1>2. \A p \in Requests : Fits(req'[p], pc'[p])
  BY DEF TypeOK, Goto
<1>3. UNCHANGED <<now, reservation, token, host, scan, req, w, prior>>
  BY DEF Goto, database
<1> QED BY <1>1, <1>2, <1>3 DEF TypeOK, Stage

\* ... and the end of a transaction that is not committed.
LEMMA RollbackType ==
    ASSUME TypeOK, NEW q \in Requests, NEW answer \in Answers, Rollback(q, answer)
    PROVE  TypeOK'
<1>1. pc' \in [Requests -> Stage]
  BY DEF TypeOK, Rollback, Stage
<1>2. w' \in [Requests -> Writes]
  BY DEF TypeOK, Rollback, Writes, NoWrites
<1>3. scan' \in [Requests -> SUBSET Requests]
  BY DEF TypeOK, Rollback
<1>4. \A p \in Requests : Fits(req'[p], pc'[p])
  BY DEF TypeOK, Rollback, Answers, Fits
<1>5. UNCHANGED <<now, reservation, token, host, req, prior>>
  BY DEF Rollback, database
<1> QED BY <1>1, <1>2, <1>3, <1>4, <1>5 DEF TypeOK, Stage

\* Every arrival.
LEMMA ArriveType ==
    ASSUME TypeOK, NEW q \in Requests, Arrive(q)
    PROVE  TypeOK'
<1>1. CASE BeginCreate(q)
  <2>1. PICK u \in Users, h \in Hosts, lo \in Starts, d \in 1..MaxDuration, z \in Zones :
          Begin(q, [kind |-> "create", user |-> u, host |-> h, lo |-> lo,
                    hi |-> lo + d, zone |-> z], "count")
    BY <1>1 DEF BeginCreate
  <2>2. lo \in Nat /\ lo + d \in Nat /\ z \in Nat
    BY RequestsAssumption, RulesAssumption DEF RequestsAssumption, RulesAssumption
  <2> DEFINE r == [kind |-> "create", user |-> u, host |-> h, lo |-> lo,
                   hi |-> lo + d, zone |-> z]
  <2>3. r \in BookingRequest
    BY <2>2 DEF BookingRequest
  <2>4. r \in Request /\ Fits(r, "count") /\ "count" \in Stage
    BY <2>3 DEF Request, Fits, Stage, Steps
  <2> QED BY <2>1, <2>4, BeginType
<1>2. CASE BeginInstant(q)
  <2>1. PICK u \in Users, h \in Hosts :
          Begin(q, [kind |-> "instant", user |-> u, host |-> h, lo |-> now,
                    hi |-> now, zone |-> 0],
                IF host[h] = "IDLE" THEN "next" ELSE "refused")
    BY <1>2 DEF BeginInstant
  <2> DEFINE r == [kind |-> "instant", user |-> u, host |-> h, lo |-> now,
                   hi |-> now, zone |-> 0]
             step == IF host[h] = "IDLE" THEN "next" ELSE "refused"
  <2>2. r \in BookingRequest
    BY RequestsAssumption DEF BookingRequest, TypeOK, RequestsAssumption
  <2>3. r \in Request /\ Fits(r, step) /\ step \in Stage
    BY <2>2 DEF Request, Fits, Stage, Steps, Answers
  <2> QED BY <2>1, <2>3, BeginType
<1>3. CASE BeginConnect(q)
  <2>1. PICK u \in Users, r \in reservation, step \in {"scan", "refused"} :
          Begin(q, [kind |-> "connect", user |-> u, target |-> r.id,
                    host |-> r.host, hi |-> r.hi], step)
    BY <1>3 DEF BeginConnect
  <2> DEFINE x == [kind |-> "connect", user |-> u, target |-> r.id,
                   host |-> r.host, hi |-> r.hi]
  <2>2. x \in AccessRequest
    BY DEF AccessRequest, TypeOK, Reservation
  <2>3. x \in Request /\ Fits(x, step) /\ step \in Stage
    BY <2>2 DEF Request, Fits, Stage, Steps, Answers
  <2> QED BY <2>1, <2>3, BeginType
<1>4. CASE BeginVerify(q)
  <2>1. PICK t \in token, c \in BOOLEAN, step \in {"consume", "commit", "refused"} :
          Begin(q, [kind |-> "verify", target |-> t.id, consume |-> c], step)
    BY <1>4 DEF BeginVerify
  <2> DEFINE x == [kind |-> "verify", target |-> t.id, consume |-> c]
  <2>2. x \in VerifyRequest
    BY DEF VerifyRequest, TypeOK, Token
  <2>3. x \in Request /\ Fits(x, step) /\ step \in Stage
    BY <2>2 DEF Request, Fits, Stage, Steps, Answers
  <2> QED BY <2>1, <2>3, BeginType
<1>5. CASE BeginCancel(q)
  <2>1. PICK u \in Users, r \in reservation, step \in {"cancel", "release", "refused"} :
          Begin(q, [kind |-> "cancel", user |-> u, target |-> r.id,
                    host |-> r.host, hi |-> r.hi], step)
    BY <1>5 DEF BeginCancel
  <2> DEFINE x == [kind |-> "cancel", user |-> u, target |-> r.id,
                   host |-> r.host, hi |-> r.hi]
  <2>2. x \in AccessRequest
    BY DEF AccessRequest, TypeOK, Reservation
  <2>3. x \in Request /\ Fits(x, step) /\ step \in Stage
    BY <2>2 DEF Request, Fits, Stage, Steps, Answers
  <2> QED BY <2>1, <2>3, BeginType
<1> QED BY <1>1, <1>2, <1>3, <1>4, <1>5 DEF Arrive

\* The row a creation or an instant use inserts is a row.
LEMMA NewRowType ==
    ASSUME NEW q \in Requests, req[q] \in BookingRequest
    PROVE  NewRow(q) \in Reservation
BY DEF NewRow, Reservation, BookingRequest, Status

\* A commit: what it publishes has the types of the tables.
LEMMA CommitType ==
    ASSUME TypeOK, NEW q \in Requests, Commit(q)
    PROVE  TypeOK'
<1>1. pc' \in [Requests -> Stage] /\ scan' \in [Requests -> SUBSET Requests]
  BY DEF TypeOK, Commit, Stage, Answers
<1>2. w' \in [Requests -> Writes]
  BY DEF TypeOK, Commit, Writes, NoWrites
<1>3. \A p \in Requests : Fits(req'[p], pc'[p])
  BY DEF TypeOK, Commit, Fits
<1>4. reservation' \subseteq Reservation
  <2>1. w[q].rows \subseteq Reservation
    BY DEF TypeOK, Writes
  <2>2. \A r \in reservation : Canceled(r, w[q].cancels) \in Reservation
    BY DEF TypeOK, Canceled, Reservation, Status
  <2> QED BY <2>1, <2>2 DEF Commit
<1>5. token' \subseteq Token
  <2>1. w[q].mints \subseteq Token
    BY DEF TypeOK, Writes
  <2>2. \A t \in token : Marked(t, w[q]) \in Token
    BY DEF TypeOK, Marked, Token
  <2> QED BY <2>1, <2>2 DEF Commit
<1>6. host' \in [Hosts -> HostStates]
  BY DEF TypeOK, Commit
<1>7. UNCHANGED <<now, req, prior>>
  BY DEF Commit
<1> QED BY <1>1, <1>2, <1>3, <1>4, <1>5, <1>6, <1>7 DEF TypeOK, Stage

\* Every statement of a request under way.
LEMMA StepType ==
    ASSUME TypeOK, NEW q \in Requests, Step(q)
    PROVE  TypeOK'
<1> USE DEF Stage, Steps, Answers
<1>w. w[q] \in Writes /\ Fits(req[q], pc[q])
  BY DEF TypeOK
<1>1. CASE NextStart(q)
  <2> DEFINE hi == InstantEnd(req[q].lo, LaterStarts(reservation, req[q].host, req[q].lo))
  <2>1. req[q] \in BookingRequest
    BY <1>1, <1>w DEF NextStart, Fits
  <2>2. hi \in Nat
    <3>1. req[q].lo \in Nat
      BY <2>1 DEF BookingRequest
    <3>2. /\ LaterStarts(reservation, req[q].host, req[q].lo) \subseteq Nat
          /\ \A s \in LaterStarts(reservation, req[q].host, req[q].lo) : req[q].lo < s
      BY DEF LaterStarts, TypeOK, Reservation
    <3> QED BY <3>1, <3>2, InstantEndProper
  <2> HIDE DEF hi
  <2>3. req' = [req EXCEPT ![q].hi = hi] /\ pc' = [pc EXCEPT ![q] = "count"]
    BY <1>1 DEF NextStart, hi
  <2>4. [req[q] EXCEPT !.hi = hi] \in BookingRequest
    BY <2>1, <2>2 DEF BookingRequest
  <2>5. /\ req' \in [Requests -> Request \cup {NoRequest}]
        /\ \A p \in Requests : Fits(req'[p], pc'[p])
    BY <2>3, <2>4 DEF TypeOK, Request, Fits
  <2>6. pc' \in [Requests -> Stage]
    BY <2>3 DEF TypeOK
  <2>7. UNCHANGED <<now, reservation, token, host, scan, w, prior>>
    BY <1>1 DEF NextStart, database
  <2> QED BY <2>5, <2>6, <2>7 DEF TypeOK
<1>2. CASE CheckCount(q)
  <2>1. Fits(req[q], "day")
    BY <1>2, <1>w DEF CheckCount, Fits
  <2>2. Rollback(q, "refused") \/ Goto(q, "day")
    BY <1>2 DEF CheckCount
  <2> QED BY <2>1, <2>2, RollbackType, GotoType
<1>3. CASE CheckDay(q)
  <2>1. Fits(req[q], "insert")
    BY <1>3, <1>w DEF CheckDay, Fits
  <2>2. Rollback(q, "refused") \/ Goto(q, "insert")
    BY <1>3 DEF CheckDay
  <2> QED BY <2>1, <2>2, RollbackType, GotoType
<1>4. CASE Insert(q)
  <2>1. req[q] \in BookingRequest
    BY <1>4, <1>w DEF Insert, Fits
  <2>2. NewRow(q) \in Reservation
    BY <2>1, NewRowType
  <2> DEFINE writes == [w[q] EXCEPT !.rows = {NewRow(q)}]
  <2>3. writes \in Writes
    BY <1>w, <2>2 DEF Writes
  <2>4. Fits(req[q], "commit")
    BY DEF Fits
  <2>5. req[q].kind # "create" => Fits(req[q], "scan")
    BY <2>1 DEF Fits, BookingRequest
  <2> HIDE DEF writes
  <2>6. \/ Rollback(q, "refused")
        \/ Write(q, "commit", writes)
        \/ req[q].kind # "create" /\ Write(q, "scan", writes)
    BY <1>4 DEF Insert, writes
  <2> QED BY <2>3, <2>4, <2>5, <2>6, RollbackType, WriteType
<1>5. CASE ScanTokens(q)
  <2>1. scan' \in [Requests -> SUBSET Requests]
    BY <1>5 DEF ScanTokens, TypeOK, Token
  <2>2. pc' \in [Requests -> Stage]
    BY <1>5 DEF ScanTokens, TypeOK
  <2>3. \A p \in Requests : Fits(req'[p], pc'[p])
    BY <1>5 DEF ScanTokens, TypeOK, Fits
  <2>4. UNCHANGED <<now, reservation, token, host, req, w, prior>>
    BY <1>5 DEF ScanTokens, database
  <2> QED BY <2>1, <2>2, <2>3, <2>4 DEF TypeOK
<1>6. CASE RevokeAndMint(q)
  <2>1. req[q] \in AccessRequest \cup {x \in BookingRequest : x.kind = "instant"}
    BY <1>6, <1>w DEF RevokeAndMint, Fits
  <2>2. Target(q) \in Requests /\ req[q].hi \in Nat /\ req[q].host \in Hosts
    BY <2>1 DEF Target, AccessRequest, BookingRequest
  <2> DEFINE rev == {t.id : t \in {x \in token : x.id \in scan[q] /\ Live(x)}}
             mint == {[id |-> q, res |-> Target(q), expires |-> req[q].hi,
                       revoked |-> FALSE, consumed |-> FALSE]}
             stat == IF req[q].kind = "instant" THEN {<<req[q].host, "IN_USE">>} ELSE {}
             writes == [w[q] EXCEPT !.revokes = rev, !.mints = mint, !.status = stat]
  <2>3. rev \subseteq Requests
    BY DEF TypeOK, Token
  <2>4. mint \subseteq Token
    BY <2>2 DEF Token
  <2>5. stat \subseteq Hosts \X HostStates
    BY <2>2 DEF HostStates
  <2>6. Write(q, "commit", writes)
    BY <1>6 DEF RevokeAndMint
  <2> HIDE DEF rev, mint, stat
  <2>7. writes \in Writes
    BY <1>w, <2>3, <2>4, <2>5 DEF Writes
  <2>8. Fits(req[q], "commit")
    BY DEF Fits
  <2> HIDE DEF writes
  <2> QED BY <2>6, <2>7, <2>8, WriteType
<1>7. CASE Consume(q)
  <2>1. Target(q) \in Requests
    BY <1>7, <1>w DEF Consume, Fits, Target, VerifyRequest
  <2> DEFINE writes == [w[q] EXCEPT !.consumes = {Target(q)}]
  <2>2. writes \in Writes
    BY <1>w, <2>1 DEF Writes
  <2>3. Fits(req[q], "commit")
    BY DEF Fits
  <2>4. Write(q, "commit", writes) \/ Rollback(q, "refused")
    BY <1>7 DEF Consume
  <2> HIDE DEF writes
  <2> QED BY <2>2, <2>3, <2>4, WriteType, RollbackType
<1>8. CASE Cancel(q)
  <2>1. req[q] \in AccessRequest /\ req[q].kind = "cancel"
    BY <1>8, <1>w DEF Cancel, Fits
  <2>2. Target(q) \in Requests
    BY <2>1 DEF Target, AccessRequest
  <2> DEFINE writes == [w[q] EXCEPT !.cancels = {Target(q)}]
  <2>3. writes \in Writes
    BY <1>w, <2>2 DEF Writes
  <2>4. Fits(req[q], "release")
    BY <2>1 DEF Fits
  <2>5. Write(q, "release", writes)
    BY <1>8 DEF Cancel
  <2> HIDE DEF writes
  <2> QED BY <2>3, <2>4, <2>5, WriteType
<1>9. CASE Release(q)
  <2>1. req[q].host \in Hosts
    BY <1>9, <1>w DEF Release, Fits, AccessRequest
  <2> DEFINE seen == {r \in reservation : r.id \notin w[q].cancels}
             stat == IF host[req[q].host] = "IN_USE" /\ InUseBy(seen, req[q].host, now) = {}
                     THEN {<<req[q].host, "IDLE">>} ELSE {}
  <2>2. Write(q, "commit", [w[q] EXCEPT !.status = stat])
    BY <1>9 DEF Release
  <2>3. stat \subseteq Hosts \X HostStates
    BY <2>1 DEF HostStates
  <2> HIDE DEF stat
  <2> DEFINE writes == [w[q] EXCEPT !.status = stat]
  <2>4. writes \in Writes
    BY <1>w, <2>3 DEF Writes
  <2>5. Fits(req[q], "commit")
    BY DEF Fits
  <2> HIDE DEF writes
  <2>6. Write(q, "commit", writes)
    BY <2>2 DEF writes
  <2> QED BY <2>4, <2>5, <2>6, WriteType
<1>10. CASE Commit(q)
  BY <1>10, CommitType
<1> QED
  BY <1>1, <1>2, <1>3, <1>4, <1>5, <1>6, <1>7, <1>8, <1>9, <1>10 DEF Step

\* The types hold of every reachable state, whatever the number of requests,
\* users and hosts, the clock and the limits.
THEOREM TypeCorrect == Spec => []TypeOK
<1>1. Init => TypeOK
  <2> SUFFICES ASSUME Init PROVE TypeOK
    OBVIOUS
  <2>1. NoWrites \in Writes
    BY DEF NoWrites, Writes
  <2>2. now \in 0..Horizon
    BY RequestsAssumption DEF Init, RequestsAssumption
  <2> QED BY <2>1, <2>2 DEF Init, TypeOK, Fits, HostStates
<1>2. TypeOK /\ [Next]_vars => TypeOK'
  <2> SUFFICES ASSUME TypeOK, [Next]_vars PROVE TypeOK'
    OBVIOUS
  <2>1. ASSUME NEW q \in Requests, Arrive(q) \/ Step(q) \/ Fail(q)
        PROVE  TypeOK'
    <3>1. CASE Fail(q)
      BY <3>1, RollbackType DEF Fail, Answers
    <3> QED BY <2>1, <3>1, ArriveType, StepType
  <2>2. ASSUME NEW h \in Hosts, Report(h)
        PROVE  TypeOK'
    <3>1. host' \in [Hosts -> HostStates]
      BY <2>2, RequestsAssumption DEF Report, TypeOK, RequestsAssumption
    <3>2. UNCHANGED <<now, reservation, token, pc, req, scan, w, prior>>
      BY <2>2 DEF Report
    <3> QED BY <3>1, <3>2 DEF TypeOK
  <2>3. CASE Tick
    <3>1. now' \in 0..Horizon
      BY <2>3, RequestsAssumption DEF Tick, TypeOK, RequestsAssumption
    <3>2. UNCHANGED <<reservation, token, host, pc, req, scan, w, prior>>
      BY <2>3 DEF Tick, database
    <3> QED BY <3>1, <3>2 DEF TypeOK
  <2>4. CASE UNCHANGED vars
    BY <2>4 DEF vars, database, TypeOK
  <2> QED BY <2>1, <2>2, <2>3, <2>4 DEF Next
<1> QED BY <1>1, <1>2, PTL DEF Spec

-----------------------------------------------------------------------------
(* The calendar: no two active reservations of a host overlap.             *)

\* Clashing is symmetric.
LEMMA ClashSymmetric ==
    ASSUME NEW a, NEW b
    PROVE  Clash(a, b) <=> Clash(b, a)
BY DEF Clash, Overlaps

\* A step under which no claim appears.
LEMMA NoNewClaim ==
    ASSUME ClaimsDisjoint, UNCHANGED reservation,
           \A p \in Requests : w'[p].rows \subseteq w[p].rows
    PROVE  ClaimsDisjoint'
<1>1. Claimed' \subseteq Claimed
  BY DEF Claimed
<1> QED BY <1>1 DEF ClaimsDisjoint

\* A claim that clashes with no active row and with no row another transaction
\* has inserted may replace what q has inserted.
LEMMA NewClaim ==
    ASSUME ClaimsDisjoint, TypeOK, UNCHANGED reservation, NEW q \in Requests, NEW n,
           w'[q].rows = {n}, \A p \in Others(q) : w'[p] = w[p],
           \A p \in Others(q) : \A r \in w[p].rows : ~Clash(r, n),
           \A r \in reservation : ActiveRow(r) => ~Clash(r, n)
    PROVE  ClaimsDisjoint'
<1>1. \A r \in Claimed' : r = n \/ (r \in Claimed /\ ~Clash(r, n))
  <2> SUFFICES ASSUME NEW r \in Claimed', r # n
               PROVE  r \in Claimed /\ ~Clash(r, n)
    OBVIOUS
  <2>1. CASE r \in reservation /\ ActiveRow(r)
    BY <2>1 DEF Claimed
  <2>2. CASE ~(r \in reservation /\ ActiveRow(r))
    <3>1. PICK p \in Requests : r \in w'[p].rows
      BY <2>2 DEF Claimed
    <3>2. p \in Others(q)
      BY <3>1 DEF Others
    <3> QED BY <3>1, <3>2 DEF Claimed
  <2> QED BY <2>1, <2>2
<1>2. ASSUME NEW r \in Claimed', NEW s \in Claimed', r # s
      PROVE  ~Clash(r, s)
  BY <1>1, <1>2, ClashSymmetric DEF ClaimsDisjoint
<1> QED BY <1>2 DEF ClaimsDisjoint

\* The rows of the open transactions change only at an INSERT, the table only at
\* a commit.
LEMMA ClaimFrame ==
    ASSUME TypeOK, ClaimsDisjoint, [Next]_vars,
           \A q \in Requests : ~Insert(q) /\ ~Commit(q)
    PROVE  ClaimsDisjoint'
<1> USE DEF TypeOK, Writes
<1>1. UNCHANGED reservation /\ \A p \in Requests : w'[p].rows \subseteq w[p].rows
  <2>1. ASSUME NEW q \in Requests, Arrive(q)
        PROVE  UNCHANGED <<reservation, w>>
    BY <2>1 DEF Arrive, BeginCreate, BeginInstant, BeginConnect, BeginVerify,
                BeginCancel, Begin, database
  <2>2. ASSUME NEW q \in Requests, NextStart(q) \/ ScanTokens(q)
        PROVE  UNCHANGED <<reservation, w>>
    BY <2>2 DEF NextStart, ScanTokens, database
  <2>3. ASSUME NEW q \in Requests, NEW answer, Rollback(q, answer)
        PROVE  UNCHANGED reservation /\ \A p \in Requests : w'[p].rows \subseteq w[p].rows
    BY <2>3 DEF Rollback, NoWrites, database
  <2>4. ASSUME NEW q \in Requests, NEW step, Goto(q, step)
        PROVE  UNCHANGED <<reservation, w>>
    BY <2>4 DEF Goto, database
  <2>5. ASSUME NEW q \in Requests, NEW step, NEW writes, writes.rows = w[q].rows,
               Write(q, step, writes)
        PROVE  UNCHANGED reservation /\ \A p \in Requests : w'[p].rows \subseteq w[p].rows
    BY <2>5 DEF Write, database
  <2>6. ASSUME NEW q \in Requests, RevokeAndMint(q) \/ Consume(q) \/ Cancel(q) \/ Release(q)
        PROVE  UNCHANGED reservation /\ \A p \in Requests : w'[p].rows \subseteq w[p].rows
    <3>1. CASE RevokeAndMint(q)
      <4>1. PICK a, b, c : Write(q, "commit", [w[q] EXCEPT !.revokes = a, !.mints = b, !.status = c])
        BY <3>1 DEF RevokeAndMint
      <4> DEFINE writes == [w[q] EXCEPT !.revokes = a, !.mints = b, !.status = c]
      <4>2. writes.rows = w[q].rows
        OBVIOUS
      <4> HIDE DEF writes
      <4>3. Write(q, "commit", writes)
        BY <4>1 DEF writes
      <4> QED BY <4>2, <4>3, <2>5
    <3>2. CASE Consume(q)
      <4> DEFINE writes == [w[q] EXCEPT !.consumes = {Target(q)}]
      <4>1. writes.rows = w[q].rows
        OBVIOUS
      <4>2. Write(q, "commit", writes) \/ Rollback(q, "refused")
        BY <3>2 DEF Consume
      <4> HIDE DEF writes
      <4> QED BY <4>1, <4>2, <2>3, <2>5
    <3>3. CASE Cancel(q)
      <4> DEFINE writes == [w[q] EXCEPT !.cancels = {Target(q)}]
      <4>1. writes.rows = w[q].rows
        OBVIOUS
      <4>2. Write(q, "release", writes)
        BY <3>3 DEF Cancel
      <4> HIDE DEF writes
      <4> QED BY <4>1, <4>2, <2>5
    <3>4. CASE Release(q)
      <4> DEFINE seen == {r \in reservation : r.id \notin w[q].cancels}
                 stat == IF host[req[q].host] = "IN_USE" /\ InUseBy(seen, req[q].host, now) = {}
                         THEN {<<req[q].host, "IDLE">>} ELSE {}
                 writes == [w[q] EXCEPT !.status = stat]
      <4>1. Write(q, "commit", writes)
        BY <3>4 DEF Release
      <4> HIDE DEF stat
      <4>2. writes.rows = w[q].rows
        OBVIOUS
      <4> HIDE DEF writes
      <4> QED BY <4>1, <4>2, <2>5
    <3> QED BY <2>6, <3>1, <3>2, <3>3, <3>4
  <2>7. ASSUME NEW q \in Requests, CheckCount(q) \/ CheckDay(q) \/ Fail(q)
        PROVE  UNCHANGED reservation /\ \A p \in Requests : w'[p].rows \subseteq w[p].rows
    BY <2>3, <2>4, <2>7 DEF CheckCount, CheckDay, Fail
  <2>8. ASSUME NEW h \in Hosts, Report(h)
        PROVE  UNCHANGED <<reservation, w>>
    BY <2>8 DEF Report
  <2>9. CASE Tick
    BY <2>9 DEF Tick, database
  <2>10. CASE UNCHANGED vars
    BY <2>10 DEF vars, database
  <2> QED BY <2>1, <2>2, <2>6, <2>7, <2>8, <2>9, <2>10 DEF Next, Step
<1> QED BY <1>1, NoNewClaim

\* An INSERT that goes through adds a claim that clashes with no other.
LEMMA InsertClaim ==
    ASSUME TypeOK, ClaimsDisjoint, NEW q \in Requests, Insert(q)
    PROVE  ClaimsDisjoint'
<1> USE DEF TypeOK, Writes
<1>1. CASE Rollback(q, "refused")
  <2>1. UNCHANGED reservation /\ \A p \in Requests : w'[p].rows \subseteq w[p].rows
    BY <1>1 DEF Rollback, NoWrites, database
  <2> QED BY <2>1, NoNewClaim
<1>2. CASE ~Rollback(q, "refused")
  <2>1. /\ ~MustWait(q) /\ Conflicts(q) = {}
        /\ \E step : Write(q, step, [w[q] EXCEPT !.rows = {NewRow(q)}])
    BY <1>2 DEF Insert
  <2>2. \A p \in Others(q) : \A r \in w[p].rows : ~Clash(r, NewRow(q))
    BY <2>1 DEF MustWait
  <2>3. \A r \in reservation : ActiveRow(r) => ~Clash(r, NewRow(q))
    BY <2>1 DEF Conflicts
  <2>4. UNCHANGED reservation /\ w' = [w EXCEPT ![q] = [w[q] EXCEPT !.rows = {NewRow(q)}]]
    BY <2>1 DEF Write, database
  <2>5. w'[q].rows = {NewRow(q)} /\ \A p \in Others(q) : w'[p] = w[p]
    BY <2>4 DEF Others
  <2> QED BY <2>2, <2>3, <2>4, <2>5, NewClaim
<1> QED BY <1>1, <1>2

\* A commit turns claims into rows, and drops those it cancels.
LEMMA CommitClaim ==
    ASSUME TypeOK, ClaimsDisjoint, NEW q \in Requests, Commit(q)
    PROVE  ClaimsDisjoint'
<1>1. Claimed' \subseteq Claimed
  <2> SUFFICES ASSUME NEW r \in Claimed'
               PROVE  r \in Claimed
    OBVIOUS
  <2>1. CASE r \in reservation' /\ ActiveRow(r)
    <3>1. CASE r \in w[q].rows
      BY <3>1 DEF Claimed
    <3>2. CASE \E x \in reservation : r = Canceled(x, w[q].cancels)
      <4>1. PICK x \in reservation : r = Canceled(x, w[q].cancels)
        BY <3>2
      <4>2. x.id \notin w[q].cancels
        BY <2>1, <4>1 DEF Canceled, ActiveRow, TypeOK, Reservation
      <4> QED BY <2>1, <4>1, <4>2 DEF Canceled, Claimed
    <3> QED BY <2>1, <3>1, <3>2 DEF Commit
  <2>2. CASE \E p \in Requests : r \in w'[p].rows
    <3>1. PICK p \in Requests : r \in w'[p].rows
      BY <2>2
    <3>2. w'[q].rows = {} /\ (p # q => w'[p] = w[p])
      BY DEF Commit, TypeOK, NoWrites
    <3> QED BY <3>1, <3>2 DEF Claimed
  <2> QED BY <2>1, <2>2 DEF Claimed
<1> QED BY <1>1 DEF ClaimsDisjoint

\* No reachable state has two clashing claims: neither in the table, nor among
\* the rows open transactions have inserted, nor between the two.
THEOREM ClaimsNeverClash == Spec => []ClaimsDisjoint
<1>1. Init => ClaimsDisjoint
  BY DEF Init, ClaimsDisjoint, Claimed, NoWrites
<1>2. TypeOK /\ ClaimsDisjoint /\ [Next]_vars => ClaimsDisjoint'
  BY ClaimFrame, InsertClaim, CommitClaim
<1> QED BY <1>1, <1>2, TypeCorrect, PTL DEF Spec

\* Whatever the requests and however their statements interleave, a host is
\* never given to two active reservations at once.
THEOREM CalendarSafe == Spec => []NoDoubleBooking
<1>1. ClaimsDisjoint => NoDoubleBooking
  BY DEF ClaimsDisjoint, Claimed, NoDoubleBooking
<1> QED BY <1>1, ClaimsNeverClash, PTL

-----------------------------------------------------------------------------
(* The rows of each request.                                               *)

\* What RowsOfRequest says of one request.
RowsOf(q) ==
    /\ pc[q] \in {"count", "day", "insert"} => req[q].lo < req[q].hi
    /\ w[q].rows # {} =>
          /\ pc[q] \in {"scan", "revoke", "commit"}
          /\ w[q].rows = {NewRow(q)}
          /\ req[q] \in BookingRequest /\ req[q].lo < req[q].hi
    /\ w[q].cancels # {} =>
          /\ pc[q] \in {"release", "commit"}
          /\ req[q].kind = "cancel" /\ w[q].cancels = {Target(q)}

\* A step that leaves the table alone, and no answered request, needs to be
\* looked at for the request that takes it only.
LEMMA RowsFrame ==
    ASSUME TypeOK, RowsOfRequest, NEW q \in Requests, UNCHANGED reservation, pc[q] # "ok",
           \A p \in Others(q) : pc'[p] = pc[p] /\ req'[p] = req[p] /\ w'[p] = w[p],
           RowsOf(q)'
    PROVE  RowsOfRequest'
<1>1. \A p \in Others(q) : RowsOf(p)'
  BY DEF RowsOfRequest, RowsOf, Others, NewRow, Target
<1>2. \A p \in Requests : RowsOf(p)'
  BY <1>1 DEF Others
<1>3. \A r \in reservation : r.id \in Requests => pc'[r.id] = "ok"
  BY DEF RowsOfRequest, Others
<1> QED BY <1>2, <1>3 DEF TypeOK, Reservation, RowsOfRequest, RowsOf

\* The arrival of a request.
LEMMA ArriveRows ==
    ASSUME TypeOK, RowsOfRequest, NEW q \in Requests, Arrive(q)
    PROVE  RowsOfRequest'
<1>1. PICK r, step : /\ Begin(q, r, step)
                     /\ step \notin {"day", "insert"}
                     /\ step = "count" => r.lo < r.hi
  <2>1. CASE BeginCreate(q)
    <3>1. PICK u \in Users, h \in Hosts, lo \in Starts, d \in 1..MaxDuration, z \in Zones :
            /\ ValidWindow(lo, lo + d, now)
            /\ Begin(q, [kind |-> "create", user |-> u, host |-> h, lo |-> lo,
                         hi |-> lo + d, zone |-> z], "count")
      BY <2>1 DEF BeginCreate
    <3> QED BY <3>1 DEF ValidWindow
  <2>2. CASE BeginInstant(q)
    BY <2>2 DEF BeginInstant
  <2>3. CASE BeginConnect(q)
    BY <2>3 DEF BeginConnect
  <2>4. CASE BeginVerify(q)
    BY <2>4 DEF BeginVerify
  <2>5. CASE BeginCancel(q)
    BY <2>5 DEF BeginCancel
  <2> QED BY <2>1, <2>2, <2>3, <2>4, <2>5 DEF Arrive
<1>2. /\ UNCHANGED reservation /\ UNCHANGED w /\ pc[q] = "idle"
      /\ pc'[q] = step /\ req'[q] = r
      /\ \A p \in Others(q) : pc'[p] = pc[p] /\ req'[p] = req[p]
  BY <1>1 DEF Begin, database, TypeOK, Others
<1>3. w[q].rows = {} /\ w[q].cancels = {}
  BY <1>2 DEF RowsOfRequest
<1>4. RowsOf(q)'
  BY <1>1, <1>2, <1>3 DEF RowsOf
<1> QED BY <1>2, <1>4, RowsFrame

\* The end of a transaction that is not committed.
LEMMA RollbackRows ==
    ASSUME TypeOK, RowsOfRequest, NEW q \in Requests, NEW answer \in Answers,
           pc[q] \in Steps, Rollback(q, answer)
    PROVE  RowsOfRequest'
<1>1. /\ UNCHANGED <<reservation, req>> /\ pc'[q] = answer /\ w'[q] = NoWrites
      /\ \A p \in Others(q) : pc'[p] = pc[p] /\ w'[p] = w[p]
  BY DEF Rollback, database, TypeOK, Others
<1>2. RowsOf(q)'
  BY <1>1 DEF RowsOf, NoWrites, Answers
<1>3. pc[q] # "ok"
  BY DEF Steps
<1> QED BY <1>1, <1>2, <1>3, RowsFrame

\* A statement that inserts and cancels nothing, of a request that has not
\* inserted a row, or that has and goes on to issue a token or to commit.
LEMMA QuietRows ==
    ASSUME TypeOK, RowsOfRequest, NEW q \in Requests, NEW step,
           pc[q] \in Steps, pc'[q] = step,
           UNCHANGED <<reservation, req>>,
           w'[q].rows = w[q].rows, w'[q].cancels = w[q].cancels,
           \A p \in Others(q) : pc'[p] = pc[p] /\ w'[p] = w[p],
           \/ step \in {"day", "insert"} /\ pc[q] \in {"count", "day"}
           \/ step = "revoke" /\ pc[q] = "scan"
           \/ step = "commit"
    PROVE  RowsOfRequest'
<1>1. pc[q] # "ok"
  BY DEF Steps
<1>2. RowsOf(q)
  BY DEF RowsOfRequest, RowsOf
<1>3. RowsOf(q)'
  BY <1>2 DEF RowsOf, NewRow, Target
<1> QED BY <1>1, <1>3, RowsFrame

\* Every statement but the commit.
LEMMA StatementRows ==
    ASSUME TypeOK, RowsOfRequest, NEW q \in Requests, Step(q), ~Commit(q)
    PROVE  RowsOfRequest'
<1>w. /\ w[q] \in Writes /\ Fits(req[q], pc[q]) /\ RowsOf(q)
      /\ q \in DOMAIN pc /\ q \in DOMAIN w
  BY DEF TypeOK, RowsOfRequest, RowsOf
<1>g. ASSUME NEW step, Goto(q, step)
      PROVE  /\ UNCHANGED <<reservation, req, w>> /\ pc'[q] = step
             /\ \A p \in Others(q) : pc'[p] = pc[p]
  BY <1>g DEF Goto, database, TypeOK, Others
<1>u. ASSUME NEW step, NEW writes, Write(q, step, writes)
      PROVE  /\ UNCHANGED <<reservation, req>> /\ pc'[q] = step /\ w'[q] = writes
             /\ \A p \in Others(q) : pc'[p] = pc[p] /\ w'[p] = w[p]
  BY <1>u DEF Write, database, TypeOK, Others
<1>1. CASE NextStart(q)
  <2> DEFINE later == LaterStarts(reservation, req[q].host, req[q].lo)
             hi    == InstantEnd(req[q].lo, later)
  <2>1. req[q] \in BookingRequest
    BY <1>1, <1>w DEF NextStart, Fits
  <2>2. req[q].lo < hi
    <3>1. req[q].lo \in Nat
      BY <2>1 DEF BookingRequest
    <3>2. later \subseteq Nat /\ \A s \in later : req[q].lo < s
      BY DEF LaterStarts, TypeOK, Reservation
    <3> HIDE DEF later
    <3> QED BY <3>1, <3>2, InstantEndProper
  <2>3. /\ UNCHANGED reservation /\ UNCHANGED w /\ pc[q] = "next"
        /\ req' = [req EXCEPT ![q].hi = hi] /\ pc' = [pc EXCEPT ![q] = "count"]
    BY <1>1 DEF NextStart, database
  <2> HIDE DEF hi
  <2>4. req'[q].lo = req[q].lo /\ req'[q].hi = hi /\ pc'[q] = "count"
    BY <2>1, <2>3, <1>w DEF TypeOK, BookingRequest
  <2>5. w'[q].rows = {} /\ w'[q].cancels = {}
    BY <1>w, <2>3 DEF RowsOf
  <2>6. RowsOf(q)'
    BY <2>2, <2>4, <2>5 DEF RowsOf
  <2>7. \A p \in Others(q) : pc'[p] = pc[p] /\ req'[p] = req[p] /\ w'[p] = w[p]
    BY <2>3 DEF Others, TypeOK
  <2> QED BY <2>3, <2>6, <2>7, RowsFrame
<1>2. CASE CheckCount(q)
  <2>1. pc[q] = "count" /\ (Rollback(q, "refused") \/ Goto(q, "day"))
    BY <1>2 DEF CheckCount
  <2> QED BY <2>1, <1>g, RollbackRows, QuietRows DEF Steps, Answers
<1>3. CASE CheckDay(q)
  <2>1. pc[q] = "day" /\ (Rollback(q, "refused") \/ Goto(q, "insert"))
    BY <1>3 DEF CheckDay
  <2> QED BY <2>1, <1>g, RollbackRows, QuietRows DEF Steps, Answers
<1>4. CASE Insert(q)
  <2>1. pc[q] = "insert" /\ req[q] \in BookingRequest /\ req[q].lo < req[q].hi
    BY <1>4, <1>w DEF Insert, Fits, RowsOf
  <2>2. CASE Rollback(q, "refused")
    BY <2>1, <2>2, RollbackRows DEF Steps, Answers
  <2>3. CASE ~Rollback(q, "refused")
    <3> DEFINE writes == [w[q] EXCEPT !.rows = {NewRow(q)}]
    <3>1. PICK step \in {"commit", "scan"} : Write(q, step, writes)
      BY <1>4, <2>3 DEF Insert
    <3>2. writes.rows = {NewRow(q)} /\ writes.cancels = {}
      BY <1>w, <2>1 DEF Writes, RowsOf
    <3> HIDE DEF writes
    <3>3. /\ UNCHANGED <<reservation, req>> /\ pc'[q] = step /\ w'[q] = writes
          /\ \A p \in Others(q) : pc'[p] = pc[p] /\ w'[p] = w[p]
      BY <3>1, <1>u
    <3>4. RowsOf(q)'
      BY <2>1, <3>2, <3>3 DEF RowsOf, NewRow
    <3> QED BY <2>1, <3>3, <3>4, RowsFrame
  <2> QED BY <2>2, <2>3
<1>5. CASE ScanTokens(q)
  <2>1. /\ pc[q] = "scan" /\ pc'[q] = "revoke" /\ UNCHANGED <<reservation, req, w>>
        /\ \A p \in Others(q) : pc'[p] = pc[p]
    BY <1>5 DEF ScanTokens, database, TypeOK, Others
  <2> QED BY <2>1, QuietRows DEF Steps
<1>6. CASE RevokeAndMint(q)
  <2>1. PICK a, b, c :
          Write(q, "commit", [w[q] EXCEPT !.revokes = a, !.mints = b, !.status = c])
    BY <1>6 DEF RevokeAndMint
  <2> DEFINE writes == [w[q] EXCEPT !.revokes = a, !.mints = b, !.status = c]
  <2>2. writes.rows = w[q].rows /\ writes.cancels = w[q].cancels
    BY <1>w DEF Writes
  <2> HIDE DEF writes
  <2>3. Write(q, "commit", writes) /\ pc[q] = "revoke"
    BY <2>1, <1>6 DEF writes, RevokeAndMint
  <2> QED BY <2>2, <2>3, <1>u, QuietRows DEF Steps
<1>7. CASE Consume(q)
  <2> DEFINE writes == [w[q] EXCEPT !.consumes = {Target(q)}]
  <2>1. pc[q] = "consume" /\ (Write(q, "commit", writes) \/ Rollback(q, "refused"))
    BY <1>7 DEF Consume
  <2>2. writes.rows = w[q].rows /\ writes.cancels = w[q].cancels
    BY <1>w DEF Writes
  <2> HIDE DEF writes
  <2> QED BY <2>1, <2>2, <1>u, RollbackRows, QuietRows DEF Steps, Answers
<1>8. CASE Cancel(q)
  <2> DEFINE writes == [w[q] EXCEPT !.cancels = {Target(q)}]
  <2>1. pc[q] = "cancel" /\ Write(q, "release", writes) /\ req[q].kind = "cancel"
    BY <1>8, <1>w DEF Cancel, Fits
  <2>2. writes.rows = {} /\ writes.cancels = {Target(q)}
    BY <2>1, <1>w DEF Writes, RowsOf
  <2> HIDE DEF writes
  <2>3. /\ UNCHANGED <<reservation, req>> /\ pc'[q] = "release" /\ w'[q] = writes
        /\ \A p \in Others(q) : pc'[p] = pc[p] /\ w'[p] = w[p]
    BY <2>1, <1>u
  <2>4. RowsOf(q)'
    BY <2>1, <2>2, <2>3 DEF RowsOf, Target
  <2> QED BY <2>1, <2>3, <2>4, RowsFrame
<1>9. CASE Release(q)
  <2> DEFINE seen == {r \in reservation : r.id \notin w[q].cancels}
             stat == IF host[req[q].host] = "IN_USE" /\ InUseBy(seen, req[q].host, now) = {}
                     THEN {<<req[q].host, "IDLE">>} ELSE {}
             writes == [w[q] EXCEPT !.status = stat]
  <2>1. pc[q] = "release" /\ Write(q, "commit", writes)
    BY <1>9 DEF Release
  <2> HIDE DEF stat
  <2>2. writes.rows = w[q].rows /\ writes.cancels = w[q].cancels
    BY <1>w DEF Writes
  <2> HIDE DEF writes
  <2> QED BY <2>1, <2>2, <1>u, QuietRows DEF Steps
<1> QED BY <1>1, <1>2, <1>3, <1>4, <1>5, <1>6, <1>7, <1>8, <1>9 DEF Step

\* What a commit publishes: nothing, one new row, or one cancellation.
LEMMA CommitCases ==
    ASSUME TypeOK, RowsOfRequest, NEW q \in Requests, Commit(q)
    PROVE  \/ UNCHANGED reservation
           \/ /\ reservation' = reservation \cup {NewRow(q)}
              /\ req[q] \in BookingRequest /\ req[q].lo < req[q].hi
           \/ reservation' = {Canceled(r, {Target(q)}) : r \in reservation}
<1>1. /\ w[q].rows # {} => /\ w[q].rows = {NewRow(q)}
                           /\ req[q] \in BookingRequest /\ req[q].lo < req[q].hi
      /\ w[q].cancels # {} => req[q].kind = "cancel" /\ w[q].cancels = {Target(q)}
  BY DEF RowsOfRequest
<1>2. reservation' = {Canceled(r, w[q].cancels) : r \in reservation} \cup w[q].rows
  BY DEF Commit
<1>3. w[q].cancels = {} => {Canceled(r, w[q].cancels) : r \in reservation} = reservation
  BY DEF Canceled
<1>4. w[q].rows # {} => w[q].cancels = {}
  BY <1>1 DEF BookingRequest
<1>5. CASE w[q].rows # {}
  BY <1>1, <1>2, <1>3, <1>4, <1>5
<1>6. CASE w[q].rows = {} /\ w[q].cancels = {}
  BY <1>2, <1>3, <1>6
<1>7. CASE w[q].rows = {} /\ w[q].cancels # {}
  BY <1>1, <1>2, <1>7
<1> QED BY <1>5, <1>6, <1>7

\* A cancellation changes a row in nothing but its status.
LEMMA CanceledRow ==
    ASSUME NEW r \in Reservation, NEW ids
    PROVE  LET c == Canceled(r, ids) IN
           /\ c.id = r.id /\ c.host = r.host /\ c.lo = r.lo /\ c.hi = r.hi
           /\ ActiveRow(c) <=> ActiveRow(r) /\ r.id \notin ids
BY DEF Canceled, Reservation, ActiveRow, Status

\* The commit.
LEMMA CommitRows ==
    ASSUME TypeOK, RowsOfRequest, NEW q \in Requests, Commit(q)
    PROVE  RowsOfRequest'
<1>1. /\ pc[q] = "commit" /\ pc'[q] = "ok" /\ UNCHANGED req
      /\ w'[q].rows = {} /\ w'[q].cancels = {}
      /\ \A p \in Others(q) : pc'[p] = pc[p] /\ w'[p] = w[p]
  BY DEF Commit, TypeOK, Others, NoWrites
<1>2. RowsOf(q)'
  BY <1>1 DEF RowsOf
<1>3. \A p \in Others(q) : RowsOf(p)'
  BY <1>1 DEF RowsOfRequest, RowsOf, Others, NewRow, Target
<1>4. \A p \in Requests : RowsOf(p)'
  BY <1>2, <1>3 DEF Others
<1>5. \A r \in reservation : r \in Reservation /\ r.id # q /\ pc'[r.id] = "ok" /\ r.lo < r.hi
  BY <1>1 DEF RowsOfRequest, TypeOK, Reservation, Others
<1>6. /\ \A r, s \in reservation' : r.id = s.id => r = s
      /\ \A r \in reservation' : r.lo < r.hi /\ pc'[r.id] = "ok"
  <2>1. CASE UNCHANGED reservation
    BY <2>1, <1>5 DEF RowsOfRequest
  <2>2. CASE /\ reservation' = reservation \cup {NewRow(q)}
             /\ req[q] \in BookingRequest /\ req[q].lo < req[q].hi
    <3>1. NewRow(q).id = q /\ NewRow(q).lo < NewRow(q).hi
      BY <2>2 DEF NewRow
    <3> QED BY <2>2, <3>1, <1>1, <1>5 DEF RowsOfRequest
  <2>3. CASE reservation' = {Canceled(r, {Target(q)}) : r \in reservation}
    <3>1. ASSUME NEW r \in reservation', NEW s \in reservation', r.id = s.id
          PROVE  r = s
      <4>1. PICK x \in reservation : r = Canceled(x, {Target(q)})
        BY <2>3
      <4>2. PICK y \in reservation : s = Canceled(y, {Target(q)})
        BY <2>3
      <4>3. x.id = y.id
        BY <3>1, <4>1, <4>2, <1>5, CanceledRow
      <4> QED BY <4>1, <4>2, <4>3 DEF RowsOfRequest
    <3>2. ASSUME NEW r \in reservation'
          PROVE  r.lo < r.hi /\ pc'[r.id] = "ok"
      <4>1. PICK x \in reservation : r = Canceled(x, {Target(q)})
        BY <2>3
      <4> QED BY <4>1, <1>5, CanceledRow
    <3> QED BY <3>1, <3>2
  <2> QED BY <2>1, <2>2, <2>3, CommitCases
<1> QED BY <1>4, <1>6 DEF RowsOfRequest, RowsOf

\* Every request inserts or cancels one row at most, its window is never empty
\* and what it leaves in the table is there only if it was answered "ok".
THEOREM RowsOfRequests == Spec => []RowsOfRequest
<1>1. Init => RowsOfRequest
  BY DEF Init, RowsOfRequest, NoWrites
<1>2. TypeOK /\ RowsOfRequest /\ [Next]_vars => RowsOfRequest'
  <2> SUFFICES ASSUME TypeOK, RowsOfRequest, [Next]_vars PROVE RowsOfRequest'
    OBVIOUS
  <2>1. ASSUME NEW q \in Requests, Fail(q)
        PROVE  RowsOfRequest'
    BY <2>1, RollbackRows DEF Fail, Open, Answers
  <2>2. CASE UNCHANGED <<reservation, pc, req, w>>
    BY <2>2 DEF RowsOfRequest, NewRow, Target
  <2>3. ASSUME NEW h \in Hosts, Report(h)
        PROVE  UNCHANGED <<reservation, pc, req, w>>
    BY <2>3 DEF Report
  <2>4. Tick \/ UNCHANGED vars => UNCHANGED <<reservation, pc, req, w>>
    BY DEF Tick, vars, database
  <2> QED BY <2>1, <2>2, <2>3, <2>4, ArriveRows, StatementRows, CommitRows DEF Next
<1> QED BY <1>1, <1>2, TypeCorrect, PTL DEF Spec

-----------------------------------------------------------------------------
(* The service implements the calendar of Booking.                         *)

Entry(r) == [id |-> r.id, host |-> r.host, lo |-> r.lo, hi |-> r.hi]

\* Only a commit changes the table.
LEMMA OnlyCommits ==
    ASSUME [Next]_vars, \A q \in Requests : ~Commit(q)
    PROVE  UNCHANGED reservation
<1>1. ASSUME NEW q \in Requests, NEW answer, Rollback(q, answer) PROVE UNCHANGED reservation
  BY <1>1 DEF Rollback, database
<1>2. ASSUME NEW q \in Requests, NEW step, Goto(q, step) PROVE UNCHANGED reservation
  BY <1>2 DEF Goto, database
<1>3. ASSUME NEW q \in Requests, NEW step, NEW writes, Write(q, step, writes)
      PROVE  UNCHANGED reservation
  BY <1>3 DEF Write, database
<1>4. ASSUME NEW q \in Requests, Arrive(q) PROVE UNCHANGED reservation
  BY <1>4 DEF Arrive, BeginCreate, BeginInstant, BeginConnect, BeginVerify,
              BeginCancel, Begin, database
<1>5. ASSUME NEW q \in Requests, Fail(q) PROVE UNCHANGED reservation
  BY <1>1, <1>5 DEF Fail
<1>6. ASSUME NEW q \in Requests, Step(q) PROVE UNCHANGED reservation
  <2>1. NextStart(q) \/ ScanTokens(q) => UNCHANGED reservation
    BY DEF NextStart, ScanTokens, database
  <2>2. CheckCount(q) \/ CheckDay(q) => UNCHANGED reservation
    BY <1>1, <1>2 DEF CheckCount, CheckDay
  <2>3. Insert(q) \/ Consume(q) => UNCHANGED reservation
    BY <1>1, <1>3 DEF Insert, Consume
  <2>4. RevokeAndMint(q) \/ Cancel(q) \/ Release(q) => UNCHANGED reservation
    BY <1>3 DEF RevokeAndMint, Cancel, Release
  <2> QED BY <1>6, <2>1, <2>2, <2>3, <2>4 DEF Step
<1>7. ASSUME NEW h \in Hosts, Report(h) PROVE UNCHANGED reservation
  BY <1>7 DEF Report
<1>8. Tick \/ UNCHANGED vars => UNCHANGED reservation
  BY DEF Tick, vars, database
<1> QED BY <1>4, <1>5, <1>6, <1>7, <1>8 DEF Next

\* The commit of a creation books its entry,
LEMMA CommitBooks ==
    ASSUME TypeOK, RowsOfRequest, ClaimsDisjoint', NEW q \in Requests, pc[q] = "commit",
           reservation' = reservation \cup {NewRow(q)},
           req[q] \in BookingRequest, req[q].lo < req[q].hi
    PROVE  Calendar!Next
<1> DEFINE n == NewRow(q)
           e == Entry(n)
<1>1. n \in Reservation /\ n.id = q /\ n.lo < n.hi /\ ActiveRow(n)
  BY NewRowType DEF NewRow, ActiveRow
<1>2. \A r \in reservation : r.id # q
  BY DEF RowsOfRequest
<1> HIDE DEF n
<1>3. reservation' = reservation \cup {n}
  BY DEF n
<1>4. Entries' = Entries \cup {e} /\ ReleasedIds' = ReleasedIds
  BY <1>1, <1>3 DEF Entries, ReleasedIds, Entry, ActiveRow
<1>5. e \in Calendar!Entry
  BY <1>1 DEF Calendar!Entry, Entry, Reservation
<1>6. e.id = n.id /\ e.host = n.host /\ e.lo = n.lo /\ e.hi = n.hi
  BY DEF Entry
<1>7. e.id \notin ReleasedIds /\ \A b \in Entries : b.id # e.id
  BY <1>1, <1>2, <1>6 DEF ReleasedIds, Entries
<1>8. ASSUME NEW b \in Entries, b.host = e.host
      PROVE  e.hi <= b.lo \/ b.hi <= e.lo
  <2>1. PICK r \in reservation : ActiveRow(r) /\ b = Entry(r)
    BY DEF Entries, Entry
  <2>2. b.host = r.host /\ b.lo = r.lo /\ b.hi = r.hi
    BY <2>1 DEF Entry
  <2>3. r # n /\ n \in Claimed' /\ r \in Claimed'
    BY <1>1, <1>2, <1>3, <2>1 DEF Claimed
  <2>4. ~Clash(n, r)
    BY <2>3 DEF ClaimsDisjoint
  <2>5. r.lo \in Int /\ r.hi \in Int /\ n.lo \in Int /\ n.hi \in Int
    BY <1>1 DEF TypeOK, Reservation
  <2> QED BY <1>6, <1>8, <2>2, <2>4, <2>5 DEF Clash, Overlaps
<1> HIDE DEF e
<1>9. Calendar!Book(e)
  BY <1>1, <1>4, <1>6, <1>7, <1>8 DEF Calendar!Book, Calendar!Free
<1> QED BY <1>4, <1>5, <1>9 DEF Calendar!Next

\* ... and the commit of a cancellation releases one, or finds it released.
LEMMA CommitReleases ==
    ASSUME TypeOK, RowsOfRequest, NEW i,
           reservation' = {Canceled(r, {i}) : r \in reservation}
    PROVE  Calendar!Next \/ UNCHANGED <<Entries, ReleasedIds>>
<1>1. \A r \in reservation :
        LET c == Canceled(r, {i}) IN
        Entry(c) = Entry(r) /\ c.id = r.id /\ (ActiveRow(c) <=> ActiveRow(r) /\ r.id # i)
  BY CanceledRow DEF TypeOK, Entry
<1>2. Entries' = {Entry(r) : r \in {x \in reservation : ActiveRow(x) /\ x.id # i}}
  <2>1. Entries' = {Entry(c) : c \in {x \in reservation' : ActiveRow(x)}}
    BY DEF Entries, Entry
  <2> QED BY <1>1, <2>1
<1>3. ReleasedIds' = {r.id : r \in {x \in reservation : ~ActiveRow(x) \/ x.id = i}}
  <2> DEFINE gone == {x \in reservation : ~ActiveRow(x) \/ x.id = i}
  <2>1. ASSUME NEW j \in ReleasedIds'
        PROVE  \E r \in gone : j = r.id
    <3>1. PICK c \in reservation' : ~ActiveRow(c) /\ j = c.id
      BY DEF ReleasedIds
    <3>2. PICK r \in reservation : c = Canceled(r, {i})
      BY <3>1
    <3> QED BY <1>1, <3>1, <3>2
  <2>2. ASSUME NEW r \in gone
        PROVE  r.id \in ReleasedIds'
    <3>1. Canceled(r, {i}) \in reservation' /\ ~ActiveRow(Canceled(r, {i}))
      BY <1>1
    <3> QED BY <1>1, <3>1 DEF ReleasedIds
  <2> QED BY <2>1, <2>2
<1>4. CASE \E r \in reservation : ActiveRow(r) /\ r.id = i
  <2>1. PICK r \in reservation : ActiveRow(r) /\ r.id = i
    BY <1>4
  <2>2. \A x \in reservation : x.id = i <=> x = r
    BY <2>1 DEF RowsOfRequest
  <2>3. \A x \in reservation : Entry(x) = Entry(r) <=> x = r
    BY <2>2 DEF Entry
  <2>4. Entries' = Entries \ {Entry(r)} /\ Entry(r) \in Entries
    BY <1>2, <2>1, <2>2, <2>3 DEF Entries, Entry
  <2>5. ReleasedIds' = ReleasedIds \cup {Entry(r).id}
    BY <1>3, <2>1, <2>2 DEF ReleasedIds, Entry
  <2> QED BY <2>4, <2>5 DEF Calendar!Next, Calendar!Release
<1>5. CASE \A r \in reservation : ActiveRow(r) => r.id # i
  <2>1. UNCHANGED <<Entries, ReleasedIds>>
    BY <1>2, <1>3, <1>5 DEF Entries, ReleasedIds, Entry
  <2> QED BY <2>1
<1> QED BY <1>4, <1>5

\* The statement-by-statement service implements the calendar with indivisible
\* bookings and releases.
THEOREM Implementation == Spec => ImplementsBooking
<1>1. Init => Calendar!Init
  BY DEF Init, Calendar!Init, Entries, ReleasedIds
<1>2. TypeOK /\ RowsOfRequest /\ ClaimsDisjoint' /\ [Next]_vars
        => [Calendar!Next]_<<Entries, ReleasedIds>>
  <2> SUFFICES ASSUME TypeOK, RowsOfRequest, ClaimsDisjoint', [Next]_vars
               PROVE  Calendar!Next \/ UNCHANGED <<Entries, ReleasedIds>>
    OBVIOUS
  <2>1. CASE UNCHANGED reservation
    BY <2>1 DEF Entries, ReleasedIds
  <2>2. ASSUME NEW q \in Requests, Commit(q)
        PROVE  Calendar!Next \/ UNCHANGED <<Entries, ReleasedIds>>
    <3>1. pc[q] = "commit"
      BY <2>2 DEF Commit
    <3> QED BY <2>1, <2>2, <3>1, CommitCases, CommitBooks, CommitReleases
  <2> QED BY <2>1, <2>2, OnlyCommits
<1> QED
  BY <1>1, <1>2, TypeCorrect, RowsOfRequests, ClaimsNeverClash, PTL
  DEF Spec, ImplementsBooking, Calendar!Spec
=============================================================================
