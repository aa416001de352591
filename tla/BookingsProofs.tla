--------------------------- MODULE BookingsProofs ---------------------------
(***************************************************************************)
(* Proofs about what the calendar shows (ReservationViews) and about the   *)
(* quota of a day, for every set of requests, users and hosts, every grid  *)
(* and every limit.                                                        *)
(*                                                                         *)
(* First arithmetic, then where windows end (EndsOnGrid), from which the   *)
(* views follow, then sums over sets, from which the quota does.           *)
(***************************************************************************)
EXTENDS ReservationViews, TokensProofs

-----------------------------------------------------------------------------
(* Multiples, quotients, minima.                                           *)

\* Multiples of a number S are ordered as what they are multiples by, ...
LEMMA Products ==
    ASSUME NEW S \in Nat \ {0}, NEW i \in Int, NEW j \in Int
    PROVE  /\ i * S \in Int
           /\ i * S < (j + 1) * S => i <= j
           /\ i <= j => i * S <= j * S
           /\ (i + 1) * S = i * S + S
           /\ (i - j) * S = i * S - j * S
           /\ (i + j) * S = i * S + j * S
OBVIOUS

\* ... every number is a multiple and a remainder, ...
LEMMA Quotient ==
    ASSUME NEW S \in Nat \ {0}, NEW n \in Int
    PROVE  /\ n \div S \in Int /\ n % S \in 0..S - 1
           /\ n = (n \div S) * S + (n % S)
<1>1. n \div S \in Int
  OBVIOUS
<1>2. n % S \in 0..S - 1
  OBVIOUS
<1>3. n = S * (n \div S) + (n % S)
  OBVIOUS
<1> QED BY <1>1, <1>2, <1>3

\* ... in one way, ...
LEMMA UniqueQuotient ==
    ASSUME NEW S \in Nat \ {0}, NEW n \in Int, NEW k \in Int,
           k * S <= n, n < (k + 1) * S
    PROVE  n \div S = k /\ n % S = n - k * S
<1> DEFINE m == n \div S
<1>1. m \in Int /\ n % S \in 0..S - 1 /\ n = m * S + (n % S)
  BY Quotient
<1> HIDE DEF m
<1>2. m * S \in Int /\ k * S \in Int
  BY <1>1, Products
<1>3. (m + 1) * S = m * S + S /\ (k + 1) * S = k * S + S
  BY <1>1, Products
<1>4. m * S < (k + 1) * S /\ k * S < (m + 1) * S
  BY <1>1, <1>2, <1>3
<1>5. m = k
  BY <1>1, <1>4, Products
<1> QED BY <1>1, <1>2, <1>5 DEF m

\* ... and a multiple has the remainder 0.
LEMMA Multiples ==
    ASSUME NEW S \in Nat \ {0}, NEW n \in Int
    PROVE  n % S = 0 <=> \E k \in Int : n = k * S
<1>1. ASSUME n % S = 0 PROVE \E k \in Int : n = k * S
  <2>1. n \div S \in Int /\ n = (n \div S) * S + (n % S)
    BY Quotient
  <2>2. (n \div S) * S \in Int
    BY <2>1, Products
  <2>3. n = (n \div S) * S
    BY <1>1, <2>1, <2>2
  <2> QED BY <2>1, <2>3
<1>2. ASSUME NEW k \in Int, n = k * S PROVE n % S = 0
  <2>1. k * S \in Int /\ (k + 1) * S = k * S + S
    BY Products
  <2>2. n < (k + 1) * S /\ k * S <= n
    BY <1>2, <2>1
  <2> QED BY <1>2, <2>1, <2>2, UniqueQuotient
<1> QED BY <1>1, <1>2

\* Min and Max of two numbers.
LEMMA OfTwo ==
    ASSUME NEW a \in Int, NEW b \in Int
    PROVE  /\ Min({a, b}) \in {a, b} /\ Min({a, b}) <= a /\ Min({a, b}) <= b
           /\ Max({a, b}) \in {a, b} /\ a <= Max({a, b}) /\ b <= Max({a, b})
<1>1. \E x \in {a, b} : \A y \in {a, b} : x =< y
  BY a <= b \/ b <= a
<1>2. \E x \in {a, b} : \A y \in {a, b} : x >= y
  BY a <= b \/ b <= a
<1> QED BY <1>1, <1>2 DEF Min, Max

-----------------------------------------------------------------------------
(* The grid.                                                               *)

\* The grid points are the multiples of Slot.
LEMMA GridPoints ==
    /\ Slot \in Nat \ {0}
    /\ \A t \in Int : OnGrid(t) <=> \E k \in Int : t = k * Slot
BY Multiples, RulesAssumption DEF OnGrid, RulesAssumption

\* Between two neighbouring grid points there is none.
LEMMA NextPoint ==
    ASSUME NEW a \in Int, NEW b \in Int, OnGrid(a), OnGrid(b), a < b
    PROVE  a + Slot <= b
<1>1. Slot \in Nat \ {0}
  BY GridPoints
<1>2. PICK i \in Int : a = i * Slot
  BY GridPoints
<1>3. PICK j \in Int : b = j * Slot
  BY GridPoints
<1>4. j * Slot \in Int /\ i * Slot \in Int /\ i + 1 \in Int
  BY <1>1, Products
<1>5. i + 1 <= j
  <2>1. j <= i => j * Slot <= i * Slot
    BY <1>1, Products
  <2> QED BY <1>2, <1>3, <1>4, <2>1
<1>6. (i + 1) * Slot <= j * Slot /\ (i + 1) * Slot = i * Slot + Slot
  BY <1>1, <1>4, <1>5, Products
<1> QED BY <1>1, <1>2, <1>3, <1>4, <1>6

\* A cell of a window is a grid point, and its slot is inside the window.
LEMMA CellOnGrid ==
    ASSUME NEW f \in Nat, NEW t \in Nat, OnGrid(f), OnGrid(t), NEW c \in Cells(f, t)
    PROVE  /\ c \in Nat /\ f <= c /\ c + Slot <= t /\ OnGrid(c)
           /\ \E j \in Int : c = f + j * Slot
<1>1. c \in Nat /\ f <= c /\ c < t /\ (c - f) % Slot = 0 /\ Slot \in Nat \ {0}
  BY GridPoints DEF Cells
<1>d. c - f \in Int
  BY <1>1
<1>2. PICK j \in Int : c - f = j * Slot
  BY <1>1, <1>d, Multiples, Zenon
<1>3. PICK i \in Int : f = i * Slot
  BY GridPoints
<1>4. i * Slot \in Int /\ j * Slot \in Int /\ (i + j) * Slot = i * Slot + j * Slot /\ i + j \in Int
  BY <1>1, Products
<1>5. OnGrid(c)
  <2>1. c = (i + j) * Slot
    BY <1>1, <1>2, <1>3, <1>4
  <2> QED BY <1>1, <1>4, <2>1, GridPoints
<1>6. c = f + j * Slot
  BY <1>1, <1>2, <1>4
<1> QED BY <1>1, <1>5, <1>6, NextPoint

\* The part of a reservation that a window shows begins in one of its cells.
LEMMA FirstCell ==
    ASSUME NEW r \in Reservation, r.lo < r.hi,
           NEW f \in Nat, NEW t \in Nat, f < t, r.lo < t, f < r.hi
    PROVE  LET from  == Max({r.lo, f})
               first == from - ((from - f) % Slot)
           IN  /\ from \in Nat /\ r.lo <= from /\ f <= from /\ from < t /\ from < r.hi
               /\ first \in Cells(f, t) /\ first <= from /\ from < first + Slot
               /\ \E k \in Int : first = f + k * Slot
<1> DEFINE from  == Max({r.lo, f})
           m     == (from - f) % Slot
           k     == (from - f) \div Slot
           first == from - m
<1>0. Slot \in Nat \ {0} /\ r.lo \in Nat /\ r.hi \in Nat
  BY GridPoints DEF Reservation
<1>1. from \in Nat /\ r.lo <= from /\ f <= from /\ from < t /\ from < r.hi
  <2>0. r.lo \in Int /\ f \in Int
    BY <1>0
  <2>1. from \in {r.lo, f} /\ r.lo <= from /\ f <= from
    BY <2>0, OfTwo, Zenon
  <2> HIDE DEF from
  <2> QED BY <1>0, <2>1
<1> HIDE DEF from
<1>d. from - f \in Int
  BY <1>1
<1>2. k \in Int /\ m \in 0..Slot - 1 /\ from - f = k * Slot + m
  BY <1>0, <1>d, Quotient, Zenon
<1> HIDE DEF k, m
<1>3. k * Slot \in Int
  BY <1>0, <1>2, Products
<1>4. first = f + k * Slot /\ first <= from /\ from < first + Slot
  BY <1>0, <1>1, <1>2, <1>3
<1>5. f <= first
  <2>1. k < 0 => (k + 1) * Slot <= 0 * Slot /\ 0 * Slot = 0 /\ (k + 1) * Slot = k * Slot + Slot
    BY <1>0, <1>2, Products
  <2> QED BY <1>0, <1>1, <1>2, <1>3, <1>4, <2>1
<1>6. first \in Cells(f, t)
  <2>1. first - f = k * Slot /\ first \in f..t - 1 /\ first - f \in Int
    BY <1>1, <1>3, <1>4, <1>5
  <2> HIDE DEF first
  <2>2. (first - f) % Slot = 0
    BY <1>0, <1>2, <2>1, Multiples
  <2> QED BY <2>1, <2>2 DEF Cells
<1> QED BY <1>1, <1>2, <1>4, <1>6 DEF from, m

\* build_calendar_matrix enters a reservation in the cells whose slot it takes some of.
LEMMA CursorsCover ==
    ASSUME NEW r \in Reservation, r.lo < r.hi,
           NEW f \in Nat, NEW t \in Nat, OnGrid(f), OnGrid(t), f < t, NEW c \in Cells(f, t)
    PROVE  Overlaps(r, [lo |-> f, hi |-> t]) /\ c \in Cursors(r, f, t)
             <=> r.lo < c + Slot /\ c < r.hi
<1>0. /\ Slot \in Nat \ {0} /\ r.lo \in Nat /\ r.hi \in Nat
      /\ c \in Nat /\ f <= c /\ c + Slot <= t
  BY GridPoints, CellOnGrid DEF Reservation
<1>1. Overlaps(r, [lo |-> f, hi |-> t]) <=> r.lo < t /\ f < r.hi
  BY DEF Overlaps
<1>2. r.lo < c + Slot /\ c < r.hi => r.lo < t /\ f < r.hi
  BY <1>0
<1> SUFFICES ASSUME r.lo < t, f < r.hi
             PROVE  c \in Cursors(r, f, t) <=> r.lo < c + Slot /\ c < r.hi
  BY <1>1, <1>2
<1> DEFINE from  == Max({r.lo, f})
           first == from - ((from - f) % Slot)
<1>a. r.lo \in Int /\ f \in Int /\ r.hi \in Int /\ t \in Int
  BY <1>0
<1>b. from \in {r.lo, f}
  BY <1>a, OfTwo, Zenon
<1>c. /\ from \in Nat /\ r.lo <= from /\ f <= from
      /\ first <= from /\ from < first + Slot /\ first \in Cells(f, t)
  BY FirstCell, Zenon
<1>4. c \in Cursors(r, f, t) <=> c \in first..Min({r.hi, t}) - 1 /\ (c - first) % Slot = 0
  BY DEF Cursors
<1>7. Min({r.hi, t}) \in {r.hi, t} /\ Min({r.hi, t}) <= r.hi /\ Min({r.hi, t}) <= t
  BY <1>a, OfTwo, Zenon
<1> HIDE DEF first, from
<1>3. first \in Nat
  BY <1>c, CellOnGrid
<1>5. OnGrid(c) /\ OnGrid(first)
  BY <1>c, CellOnGrid
<1>6. (c - first) % Slot = 0
  <2>1. PICK i \in Int : c = i * Slot
    BY <1>0, <1>5, GridPoints
  <2>2. PICK j \in Int : first = j * Slot
    BY <1>3, <1>5, GridPoints
  <2>3. c - first = (i - j) * Slot /\ i - j \in Int /\ c - first \in Int
    BY <1>0, <1>b, <1>c, <1>3, <2>1, <2>2, Products
  <2> QED BY <1>0, <2>3, Multiples
<1>8. r.lo < c + Slot => first <= c
  <2>1. c < first => c + Slot <= first
    BY <1>0, <1>b, <1>c, <1>3, <1>5, NextPoint
  <2> QED BY <1>0, <1>b, <1>c, <1>3, <2>1
<1>9. first <= c => r.lo < c + Slot
  BY <1>0, <1>b, <1>c, <1>3
<1> QED BY <1>0, <1>b, <1>c, <1>3, <1>4, <1>6, <1>7, <1>8, <1>9

-----------------------------------------------------------------------------
(* What the steps of a booking do to its window.                           *)

\* The statements that neither compute a window, nor insert a row, nor publish one.
LEMMA QuietStatement ==
    ASSUME TypeOK, NEW q \in Requests, Step(q) \/ Fail(q),
           ~NextStart(q), ~Insert(q), ~Commit(q)
    PROVE  /\ UNCHANGED <<now, reservation, req, prior>>
           /\ \A p \in Others(q) : pc'[p] = pc[p] /\ w'[p] = w[p]
           /\ w'[q].rows = w[q].rows \/ w'[q].rows = {}
           /\ pc[q] \notin {"idle", "ok"} /\ pc'[q] \notin {"next", "ok"}
           /\ pc'[q] \in {"count", "day", "insert"} =>
                \/ pc[q] = "count" /\ pc'[q] = "day"
                \/ /\ pc[q] = "day" /\ pc'[q] = "insert"
                   /\ ~OverDay(reservation, req[q].user, req[q].lo, req[q].hi, req[q].zone)
           /\ pc'[q] \in {"scan", "revoke", "commit"} /\ req[q] \in BookingRequest =>
                pc[q] \in {"scan", "revoke"}
<1>w. w[q] \in Writes /\ Fits(req[q], pc[q])
  BY DEF TypeOK
<1>o. pc[q] \in Steps => pc[q] \notin {"idle", "ok"}
  BY DEF Steps
<1>g. ASSUME NEW step, Goto(q, step)
      PROVE  /\ UNCHANGED <<now, reservation, req, prior, w>> /\ pc'[q] = step
             /\ \A p \in Others(q) : pc'[p] = pc[p] /\ w'[p] = w[p]
  BY <1>g DEF Goto, database, TypeOK, Others
<1>u. ASSUME NEW step, NEW writes, Write(q, step, writes)
      PROVE  /\ UNCHANGED <<now, reservation, req, prior>> /\ pc'[q] = step /\ w'[q] = writes
             /\ \A p \in Others(q) : pc'[p] = pc[p] /\ w'[p] = w[p]
  BY <1>u DEF Write, database, TypeOK, Others
<1>r. ASSUME NEW answer \in {"refused", "failed"}, Rollback(q, answer)
      PROVE  /\ UNCHANGED <<now, reservation, req, prior>> /\ pc'[q] = answer
             /\ w'[q].rows = {}
             /\ \A p \in Others(q) : pc'[p] = pc[p] /\ w'[p] = w[p]
  BY <1>r DEF Rollback, database, TypeOK, Others, NoWrites
<1>1. CASE CheckCount(q)
  <2>1. pc[q] = "count" /\ (Rollback(q, "refused") \/ Goto(q, "day"))
    BY <1>1 DEF CheckCount
  <2>2. CASE Rollback(q, "refused")
    BY <2>1, <2>2, <1>r
  <2>3. CASE Goto(q, "day")
    BY <2>1, <2>3, <1>g
  <2> QED BY <2>1, <2>2, <2>3
<1>2. CASE CheckDay(q)
  <2>1. pc[q] = "day"
    BY <1>2 DEF CheckDay
  <2>2. CASE Rollback(q, "refused")
    BY <2>1, <2>2, <1>r
  <2>3. CASE ~Rollback(q, "refused")
    <3>1. /\ Goto(q, "insert")
          /\ ~OverDay(reservation, req[q].user, req[q].lo, req[q].hi, req[q].zone)
      BY <1>2, <2>3 DEF CheckDay
    <3> QED BY <2>1, <3>1, <1>g
  <2> QED BY <2>2, <2>3
<1>3. CASE ScanTokens(q)
  BY <1>3 DEF ScanTokens, database, TypeOK, Others
<1>4. CASE RevokeAndMint(q)
  <2>1. PICK a, b, c :
          Write(q, "commit", [w[q] EXCEPT !.revokes = a, !.mints = b, !.status = c])
    BY <1>4 DEF RevokeAndMint
  <2> DEFINE writes == [w[q] EXCEPT !.revokes = a, !.mints = b, !.status = c]
  <2>2. writes.rows = w[q].rows
    BY <1>w DEF Writes
  <2> HIDE DEF writes
  <2>3. Write(q, "commit", writes) /\ pc[q] = "revoke"
    BY <2>1, <1>4 DEF writes, RevokeAndMint
  <2> QED BY <2>2, <2>3, <1>u
<1>5. CASE Consume(q)
  <2> DEFINE writes == [w[q] EXCEPT !.consumes = {Target(q)}]
  <2>1. /\ pc[q] = "consume" /\ (Write(q, "commit", writes) \/ Rollback(q, "refused"))
        /\ req[q] \notin BookingRequest
    BY <1>5, <1>w DEF Consume, Fits, VerifyRequest, BookingRequest
  <2>2. writes.rows = w[q].rows
    BY <1>w DEF Writes
  <2> HIDE DEF writes
  <2>3. CASE Write(q, "commit", writes)
    BY <2>1, <2>2, <2>3, <1>u
  <2>4. CASE Rollback(q, "refused")
    BY <2>1, <2>4, <1>r
  <2> QED BY <2>1, <2>3, <2>4
<1>6. CASE Cancel(q)
  <2> DEFINE writes == [w[q] EXCEPT !.cancels = {Target(q)}]
  <2>1. pc[q] = "cancel" /\ Write(q, "release", writes)
    BY <1>6 DEF Cancel
  <2>2. writes.rows = w[q].rows
    BY <1>w DEF Writes
  <2> HIDE DEF writes
  <2> QED BY <2>1, <2>2, <1>u
<1>7. CASE Release(q)
  <2>1. PICK c : Write(q, "commit", [w[q] EXCEPT !.status = c])
    BY <1>7 DEF Release
  <2> DEFINE writes == [w[q] EXCEPT !.status = c]
  <2>2. writes.rows = w[q].rows /\ req[q] \notin BookingRequest
    BY <1>w, <1>7 DEF Writes, Release, Fits, AccessRequest, BookingRequest
  <2> HIDE DEF writes
  <2>3. pc[q] = "release" /\ Write(q, "commit", writes)
    BY <2>1, <1>7 DEF writes, Release
  <2> QED BY <2>2, <2>3, <1>u
<1>8. CASE Fail(q)
  <2>1. pc[q] \in Steps /\ Rollback(q, "failed")
    BY <1>8 DEF Fail, Open
  <2> QED BY <2>1, <1>r, <1>o
<1> QED BY <1>1, <1>2, <1>3, <1>4, <1>5, <1>6, <1>7, <1>8 DEF Step

-----------------------------------------------------------------------------
(* Windows end on the grid.                                                *)

\* A row that exists ends on the grid and begins on it, or has begun.
OnGridRow(r) ==
    /\ r.status # "COMPLETED"
    /\ OnGrid(r.hi)
    /\ OnGrid(r.lo) \/ r.lo <= now

\* The window of an instant use may end off the grid, at the start of another
\* instant use: then it has passed when its row could be inserted.
OnGridRequest(q) ==
    req[q] \in BookingRequest =>
        /\ req[q].kind = "create" => OnGrid(req[q].lo) /\ OnGrid(req[q].hi)
        /\ req[q].kind = "instant" => req[q].lo <= now
        /\ pc[q] = "next" => req[q].kind = "instant"
        /\ pc[q] \in {"count", "day", "insert"} => OnGrid(req[q].hi) \/ req[q].hi <= now
        /\ w[q].rows # {} => OnGrid(req[q].hi)

EndsOnGrid ==
    /\ \A r \in reservation : OnGridRow(r)
    /\ \A q \in Requests : OnGridRequest(q)

\* A step of q that leaves the table and the clock alone.
LEMMA GridFrame ==
    ASSUME TypeOK, EndsOnGrid, NEW q \in Requests, UNCHANGED <<now, reservation>>,
           \A p \in Others(q) : pc'[p] = pc[p] /\ req'[p] = req[p] /\ w'[p] = w[p],
           OnGridRequest(q)'
    PROVE  EndsOnGrid'
<1>1. \A r \in reservation : OnGridRow(r)'
  BY DEF EndsOnGrid, OnGridRow
<1>2. \A p \in Others(q) : OnGridRequest(p)'
  BY DEF EndsOnGrid, OnGridRequest, Others
<1> QED BY <1>1, <1>2 DEF EndsOnGrid, Others

\* The arrival of a request.
LEMMA ArriveGrid ==
    ASSUME TypeOK, RowsOfRequest, EndsOnGrid, NEW q \in Requests, Arrive(q)
    PROVE  EndsOnGrid'
<1>n. now \in Nat
  BY RequestsAssumption DEF TypeOK, RequestsAssumption
<1>1. PICK r, step :
        /\ Begin(q, r, step)
        /\ r \in BookingRequest =>
             /\ r.kind = "create" => OnGrid(r.lo) /\ OnGrid(r.hi)
             /\ r.kind = "instant" => r.lo <= now /\ step \notin {"count", "day", "insert"}
             /\ step = "next" => r.kind = "instant"
  <2>1. CASE BeginCreate(q)
    <3>1. PICK u \in Users, h \in Hosts, lo \in Starts, d \in 1..MaxDuration, z \in Zones :
            /\ ValidWindow(lo, lo + d, now)
            /\ Begin(q, [kind |-> "create", user |-> u, host |-> h, lo |-> lo,
                         hi |-> lo + d, zone |-> z], "count")
      BY <2>1 DEF BeginCreate
    <3> QED BY <3>1 DEF ValidWindow
  <2>2. CASE BeginInstant(q)
    BY <2>2, <1>n DEF BeginInstant
  <2>3. CASE BeginConnect(q)
    BY <2>3 DEF BeginConnect, BookingRequest
  <2>4. CASE BeginVerify(q)
    BY <2>4 DEF BeginVerify, BookingRequest
  <2>5. CASE BeginCancel(q)
    BY <2>5 DEF BeginCancel, BookingRequest
  <2> QED BY <2>1, <2>2, <2>3, <2>4, <2>5 DEF Arrive
<1>2. /\ UNCHANGED <<now, reservation>> /\ UNCHANGED w /\ pc[q] = "idle"
      /\ pc'[q] = step /\ req'[q] = r
      /\ \A p \in Others(q) : pc'[p] = pc[p] /\ req'[p] = req[p] /\ w'[p] = w[p]
  BY <1>1 DEF Begin, database, TypeOK, Others
<1>3. w'[q].rows = {}
  BY <1>2 DEF RowsOfRequest
<1>4. OnGridRequest(q)'
  BY <1>1, <1>2, <1>3 DEF OnGridRequest, BookingRequest
<1> QED BY <1>2, <1>4, GridFrame

\* The end computed for an instant use: the end of a slot, or the start of a row.
LEMMA NextStartGrid ==
    ASSUME TypeOK, RowsOfRequest, EndsOnGrid, NEW q \in Requests, NextStart(q)
    PROVE  EndsOnGrid'
<1> DEFINE later == LaterStarts(reservation, req[q].host, req[q].lo)
           hi    == InstantEnd(req[q].lo, later)
           e     == ((req[q].lo + InstantUse) \div Slot) * Slot + Slot
<1>n. now \in Nat
  BY RequestsAssumption DEF TypeOK, RequestsAssumption
<1>1. req[q] \in BookingRequest /\ req[q].lo \in Nat /\ pc[q] = "next"
  BY DEF NextStart, TypeOK, Fits, BookingRequest
<1>2. OnGrid(e) /\ e \in Nat
  <2>1. e \in Nat
    BY <1>1, SlotEndLater
  <2> DEFINE k == (req[q].lo + InstantUse) \div Slot
  <2>2. Slot \in Nat \ {0} /\ req[q].lo + InstantUse \in Int
    BY <1>1, GridPoints, RulesAssumption DEF RulesAssumption
  <2>3. k \in Int
    BY <2>2, Quotient, Zenon
  <2> HIDE DEF k
  <2>4. k + 1 \in Int /\ (k + 1) * Slot = k * Slot + Slot
    BY <2>2, <2>3, Products
  <2>5. e = (k + 1) * Slot
    BY <2>4 DEF k
  <2> HIDE DEF e
  <2> QED BY <2>1, <2>4, <2>5, GridPoints
<1>3. hi = e \/ hi \in later
  <2>1. hi = Min({e} \cup later)
    BY DEF InstantEnd
  <2>2. {e} \cup later \subseteq Nat /\ {e} \cup later # {}
    <3> HIDE DEF e
    <3> QED BY <1>2 DEF LaterStarts, TypeOK, Reservation
  <2> HIDE DEF e, hi, later
  <2>3. Min({e} \cup later) \in {e} \cup later
    BY <2>2, LeastNatural
  <2> QED BY <2>1, <2>3
<1>4. OnGrid(hi) \/ hi <= now
  <2>1. \A x \in later : OnGrid(x) \/ x <= now
    BY DEF LaterStarts, EndsOnGrid, OnGridRow
  <2> HIDE DEF e, hi, later
  <2> QED BY <1>2, <1>3, <2>1
<1>5. /\ UNCHANGED <<now, reservation>> /\ UNCHANGED w
      /\ req' = [req EXCEPT ![q].hi = hi] /\ pc' = [pc EXCEPT ![q] = "count"]
  BY DEF NextStart, database
<1> HIDE DEF hi
<1>6. /\ req'[q].lo = req[q].lo /\ req'[q].hi = hi /\ req'[q].kind = req[q].kind
      /\ w'[q].rows = {}
      /\ \A p \in Others(q) : pc'[p] = pc[p] /\ req'[p] = req[p] /\ w'[p] = w[p]
  BY <1>1, <1>5 DEF TypeOK, BookingRequest, Others, RowsOfRequest
<1>7. req[q].kind = "instant"
  BY <1>1 DEF EndsOnGrid, OnGridRequest
<1>8. OnGridRequest(q)'
  BY <1>1, <1>4, <1>5, <1>6, <1>7 DEF OnGridRequest, EndsOnGrid
<1> QED BY <1>5, <1>6, <1>8, GridFrame

\* The INSERT: of an instant use it goes on only while the window has not passed.
LEMMA InsertGrid ==
    ASSUME TypeOK, RowsOfRequest, EndsOnGrid, NEW q \in Requests, Insert(q)
    PROVE  EndsOnGrid'
<1>1. /\ req[q] \in BookingRequest /\ req[q].hi \in Nat /\ pc[q] = "insert" /\ now \in Nat
      /\ w[q] \in Writes
  BY RequestsAssumption DEF Insert, TypeOK, Fits, BookingRequest, RequestsAssumption
<1>2. CASE Rollback(q, "refused")
  <2>1. /\ UNCHANGED <<now, reservation, req>> /\ pc'[q] = "refused" /\ w'[q].rows = {}
        /\ \A p \in Others(q) : pc'[p] = pc[p] /\ w'[p] = w[p]
    BY <1>2 DEF Rollback, database, TypeOK, Others, NoWrites
  <2>2. OnGridRequest(q)'
    BY <1>1, <2>1 DEF EndsOnGrid, OnGridRequest
  <2> QED BY <2>1, <2>2, GridFrame
<1>3. CASE ~Rollback(q, "refused")
  <2> DEFINE writes == [w[q] EXCEPT !.rows = {NewRow(q)}]
  <2>1. PICK step \in {"commit", "scan"} :
          /\ Write(q, step, writes)
          /\ req[q].kind = "create" \/ IssueWindow(req[q].lo, req[q].hi, now)
    BY <1>3 DEF Insert
  <2>2. writes.rows = {NewRow(q)}
    BY <1>1 DEF Writes
  <2> HIDE DEF writes
  <2>3. OnGrid(req[q].hi)
    <3>1. req[q].kind = "create" => OnGrid(req[q].hi)
      BY <1>1 DEF EndsOnGrid, OnGridRequest
    <3>2. OnGrid(req[q].hi) \/ req[q].hi <= now
      BY <1>1 DEF EndsOnGrid, OnGridRequest
    <3> QED BY <1>1, <2>1, <3>1, <3>2 DEF IssueWindow
  <2>4. /\ UNCHANGED <<now, reservation, req>> /\ pc'[q] = step
        /\ \A p \in Others(q) : pc'[p] = pc[p] /\ w'[p] = w[p]
    BY <2>1 DEF Write, database, TypeOK, Others
  <2>5. OnGridRequest(q)'
    BY <1>1, <2>3, <2>4 DEF EndsOnGrid, OnGridRequest
  <2> QED BY <2>4, <2>5, GridFrame
<1> QED BY <1>2, <1>3

\* The commit.
LEMMA CommitGrid ==
    ASSUME TypeOK, RowsOfRequest, EndsOnGrid, NEW q \in Requests, Commit(q)
    PROVE  EndsOnGrid'
<1>1. /\ UNCHANGED <<now, req>> /\ pc'[q] = "ok" /\ w'[q].rows = {}
      /\ \A p \in Others(q) : pc'[p] = pc[p] /\ w'[p] = w[p]
  BY DEF Commit, TypeOK, Others, NoWrites
<1>2. \A p \in Requests : OnGridRequest(p)'
  <2>1. OnGridRequest(q)'
    BY <1>1 DEF EndsOnGrid, OnGridRequest
  <2>2. \A p \in Others(q) : OnGridRequest(p)'
    BY <1>1 DEF EndsOnGrid, OnGridRequest, Others
  <2> QED BY <2>1, <2>2 DEF Others
<1>3. ASSUME NEW x \in reservation'
      PROVE  OnGridRow(x)'
  <2>1. CASE x \in w[q].rows
    <3>1. /\ x = NewRow(q) /\ req[q] \in BookingRequest /\ w[q].rows # {}
      BY <2>1 DEF RowsOfRequest
    <3>2. OnGrid(req[q].hi) /\ (OnGrid(req[q].lo) \/ req[q].lo <= now)
      BY <3>1 DEF EndsOnGrid, OnGridRequest, BookingRequest
    <3> QED BY <1>1, <3>1, <3>2 DEF OnGridRow, NewRow
  <2>2. CASE x \notin w[q].rows
    <3>1. PICK r \in reservation : x = Canceled(r, w[q].cancels)
      BY <2>2 DEF Commit
    <3>2. r \in Reservation /\ OnGridRow(r)
      BY DEF TypeOK, EndsOnGrid
    <3>3. x.lo = r.lo /\ x.hi = r.hi /\ (x.status = r.status \/ x.status = "CANCELED")
      BY <3>1, <3>2 DEF Canceled, Reservation
    <3> QED BY <1>1, <3>2, <3>3 DEF OnGridRow
  <2> QED BY <2>1, <2>2
<1> QED BY <1>2, <1>3 DEF EndsOnGrid

\* Every row ends on the grid, and begins on it or has begun.
LEMMA GridKept == Spec => []EndsOnGrid
<1>1. Init => EndsOnGrid
  BY DEF Init, EndsOnGrid, OnGridRequest, NoRequest, BookingRequest
<1>2. TypeOK /\ RowsOfRequest /\ EndsOnGrid /\ [Next]_vars => EndsOnGrid'
  <2> SUFFICES ASSUME TypeOK, RowsOfRequest, EndsOnGrid, [Next]_vars PROVE EndsOnGrid'
    OBVIOUS
  <2>1. ASSUME NEW q \in Requests, Step(q) \/ Fail(q),
               ~NextStart(q), ~Insert(q), ~Commit(q)
        PROVE  EndsOnGrid'
    <3>1. OnGridRequest(q)'
      BY <2>1, QuietStatement DEF EndsOnGrid, OnGridRequest
    <3> QED BY <2>1, <3>1, QuietStatement, GridFrame
  <2>2. ASSUME UNCHANGED <<reservation, pc, req, w>>, now' \in Nat, now <= now'
        PROVE  EndsOnGrid'
    <3>0. now \in Nat
      BY RequestsAssumption DEF TypeOK, RequestsAssumption
    <3>1. ASSUME NEW r \in reservation
          PROVE  OnGridRow(r)'
      <4>1. r.lo \in Nat
        BY DEF TypeOK, Reservation
      <4> QED BY <2>2, <3>0, <4>1 DEF EndsOnGrid, OnGridRow
    <3>2. ASSUME NEW q \in Requests
          PROVE  OnGridRequest(q)'
      <4>1. req[q] \in BookingRequest => req[q].lo \in Nat /\ req[q].hi \in Nat
        BY DEF BookingRequest
      <4> QED BY <2>2, <3>0, <4>1 DEF EndsOnGrid, OnGridRequest
    <3> QED BY <2>2, <3>1, <3>2 DEF EndsOnGrid
  <2>3. ASSUME NEW h \in Hosts, Report(h)
        PROVE  UNCHANGED <<reservation, pc, req, w>> /\ now' = now
    BY <2>3 DEF Report
  <2>4. CASE Tick
    BY <2>2, <2>4, RequestsAssumption DEF Tick, database, TypeOK, RequestsAssumption
  <2>5. CASE UNCHANGED <<reservation, pc, req, w>> /\ now' = now
    BY <2>2, <2>5, RequestsAssumption DEF TypeOK, RequestsAssumption
  <2>6. UNCHANGED vars => UNCHANGED <<reservation, pc, req, w>> /\ now' = now
    BY DEF vars, database
  <2>7. ASSUME NEW q \in Requests, Step(q)
        PROVE  EndsOnGrid'
    BY <2>1, <2>7, NextStartGrid, InsertGrid, CommitGrid
  <2>8. ASSUME NEW q \in Requests, Fail(q)
        PROVE  EndsOnGrid'
    <3>1. Commit(q) => FALSE
      BY <2>8 DEF Fail, Rollback, Commit, TypeOK
    <3>2. NextStart(q) => FALSE
      BY <2>8 DEF Fail, Rollback, NextStart, TypeOK
    <3> QED BY <2>1, <2>8, <3>1, <3>2, InsertGrid
  <2> QED BY <2>3, <2>4, <2>5, <2>6, <2>7, <2>8, ArriveGrid DEF Next
<1> QED BY <1>1, <1>2, TypeCorrect, RowsOfRequests, PTL DEF Spec

-----------------------------------------------------------------------------
(* What the views show.                                                    *)

\* The active rows of a host that take some of the slot at c.
Taking(h, c) ==
    {x \in reservation : ActiveRow(x) /\ Clash(x, [host |-> h, lo |-> c, hi |-> c + Slot])}

\* A slot is never shared: of two rows in it one would end, off the grid, before the
\* other begins.
LEMMA OneInSlot ==
    ASSUME TypeOK, RowsOfRequest, NoDoubleBooking, EndsOnGrid,
           NEW h, NEW c \in Nat, OnGrid(c), NEW r \in Taking(h, c), NEW s \in Taking(h, c)
    PROVE  r = s
<1>1. /\ r \in reservation /\ ActiveRow(r) /\ r.host = h /\ r.lo < c + Slot /\ c < r.hi
      /\ s \in reservation /\ ActiveRow(s) /\ s.host = h /\ s.lo < c + Slot /\ c < s.hi
  BY DEF Taking, Clash, Overlaps
<1>2. /\ r.lo \in Nat /\ r.hi \in Nat /\ s.lo \in Nat /\ s.hi \in Nat
      /\ OnGrid(r.hi) /\ OnGrid(s.hi) /\ Slot \in Nat
  BY <1>1, GridPoints DEF TypeOK, Reservation, EndsOnGrid, OnGridRow
<1>3. c + Slot <= r.hi /\ c + Slot <= s.hi
  BY <1>1, <1>2, NextPoint
<1>4. Clash(r, s)
  BY <1>1, <1>2, <1>3 DEF Clash, Overlaps
<1> QED BY <1>1, <1>4 DEF NoDoubleBooking

\* A cell is entered by exactly the rows that take some of its slot.
LEMMA EnteredTakes ==
    ASSUME TypeOK, RowsOfRequest, NEW f \in Nat, NEW t \in Nat, OnGrid(f), OnGrid(t), f < t,
           NEW h, NEW c \in Cells(f, t)
    PROVE  Entered(h, c, f, t) = Taking(h, c)
<1>1. ASSUME NEW r \in reservation
      PROVE  Overlaps(r, [lo |-> f, hi |-> t]) /\ c \in Cursors(r, f, t)
               <=> r.lo < c + Slot /\ c < r.hi
  BY CursorsCover DEF TypeOK, RowsOfRequest
<1> QED BY <1>1 DEF Entered, Taking, Clash, Overlaps

\* What a cell shows: nothing if no row takes any of its slot, and else the one that does.
LEMMA CellShows ==
    ASSUME TypeOK, RowsOfRequest, NoDoubleBooking, EndsOnGrid,
           NEW f \in Nat, NEW t \in Nat, OnGrid(f), OnGrid(t), f < t,
           NEW u, NEW h, NEW c \in Cells(f, t)
    PROVE  LET cell == MatrixCell(u, h, c, f, t) IN
           /\ Taking(h, c) = {} => cell = Free
           /\ \A r \in Taking(h, c) :
                /\ Taking(h, c) = {r} /\ cell # Free /\ cell.id = r.id
                /\ cell.user = IF Access(u, r) THEN r.user ELSE "none"
<1>1. Entered(h, c, f, t) = Taking(h, c)
  BY EnteredTakes
<1>2. Taking(h, c) = {} => MatrixCell(u, h, c, f, t) = Free
  BY <1>1 DEF MatrixCell
<1>3. ASSUME NEW r \in Taking(h, c)
      PROVE  LET cell == MatrixCell(u, h, c, f, t) IN
             /\ Taking(h, c) = {r} /\ cell # Free /\ cell.id = r.id
             /\ cell.user = IF Access(u, r) THEN r.user ELSE "none"
  <2>1. Taking(h, c) = {r}
    <3>1. c \in Nat /\ OnGrid(c)
      BY CellOnGrid
    <3> QED BY <3>1, OneInSlot
  <2>2. (CHOOSE x \in Entered(h, c, f, t) : TRUE) = r
    BY <1>1, <2>1
  <2>3. MatrixCell(u, h, c, f, t)
          = [status |-> "OCCUPIED", id |-> r.id,
             user |-> IF Access(u, r) THEN r.user ELSE "none"]
    BY <1>1, <2>1, <2>2, Zenon DEF MatrixCell
  <2>4. MatrixCell(u, h, c, f, t) # Free
    BY <2>3 DEF Free
  <2> QED BY <2>1, <2>3, <2>4
<1> QED BY <1>2, <1>3

\* A reservation that overlaps a window takes some of one of its cells' slots, and
\* the slot of a cell only rows that overlap the window.
LEMMA SomeCell ==
    ASSUME TypeOK, RowsOfRequest, NEW f \in Nat, NEW t \in Nat, OnGrid(f), OnGrid(t), f < t,
           NEW h, NEW r \in reservation, ActiveRow(r), r.host = h
    PROVE  Overlaps(r, [lo |-> f, hi |-> t]) <=> \E c \in Cells(f, t) : r \in Taking(h, c)
<1>1. r \in Reservation /\ r.lo < r.hi /\ r.lo \in Nat /\ r.hi \in Nat /\ Slot \in Nat
  BY GridPoints DEF TypeOK, RowsOfRequest, Reservation
<1>2. ASSUME r.lo < t, f < r.hi
      PROVE  \E c \in Cells(f, t) : r \in Taking(h, c)
  <2>1. PICK from \in Nat, first \in Cells(f, t) :
          r.lo <= from /\ from < r.hi /\ first <= from /\ from < first + Slot
    <3> DEFINE start == Max({r.lo, f})
               cell  == start - ((start - f) % Slot)
    <3>1. /\ start \in Nat /\ r.lo <= start /\ start < r.hi
          /\ cell \in Cells(f, t) /\ cell <= start /\ start < cell + Slot
      BY <1>1, <1>2, FirstCell, Zenon
    <3> HIDE DEF start, cell
    <3> QED BY <3>1
  <2>2. first \in Nat
    BY CellOnGrid
  <2>3. r.lo < first + Slot /\ first < r.hi
    BY <1>1, <2>1, <2>2
  <2> QED BY <2>3 DEF Taking, Clash, Overlaps
<1>3. ASSUME NEW c \in Cells(f, t), r \in Taking(h, c)
      PROVE  r.lo < t /\ f < r.hi
  <2>1. c \in Nat /\ f <= c /\ c + Slot <= t
    BY CellOnGrid
  <2>2. r.lo < c + Slot /\ c < r.hi
    BY <1>3 DEF Taking, Clash, Overlaps
  <2> QED BY <1>1, <2>1, <2>2
<1> QED BY <1>2, <1>3 DEF Overlaps

\* The windows that clients ask for.
LEMMA Asked ==
    ASSUME NEW v \in Windows
    PROVE  v[1] \in Nat /\ v[2] \in Nat /\ OnGrid(v[1]) /\ OnGrid(v[2]) /\ v[1] < v[2]
BY WindowsAssumption DEF WindowsAssumption

\* A cell shows a reservation exactly if the reservation takes some of its slot, and
\* never has to hide one behind another.
THEOREM MatrixComplete == Spec => []MatrixShowsAll
<1>1. TypeOK /\ RowsOfRequest /\ NoDoubleBooking /\ EndsOnGrid => MatrixShowsAll
  <2> SUFFICES ASSUME TypeOK, RowsOfRequest, NoDoubleBooking, EndsOnGrid,
                      NEW v \in Windows, NEW u \in Users, NEW h \in Hosts,
                      NEW c \in Cells(v[1], v[2])
               PROVE  {r.id : r \in Taking(h, c)}
                        = IF MatrixCell(u, h, c, v[1], v[2]) = Free THEN {}
                          ELSE {MatrixCell(u, h, c, v[1], v[2]).id}
    BY DEF MatrixShowsAll, Matrix, Taking
  <2>1. /\ v[1] \in Nat /\ v[2] \in Nat /\ OnGrid(v[1]) /\ OnGrid(v[2]) /\ v[1] < v[2]
    BY Asked
  <2> DEFINE cell == MatrixCell(u, h, c, v[1], v[2])
  <2>2. /\ Taking(h, c) = {} => cell = Free
        /\ \A r \in Taking(h, c) : Taking(h, c) = {r} /\ cell # Free /\ cell.id = r.id
    BY <2>1, CellShows
  <2> HIDE DEF cell
  <2>3. CASE Taking(h, c) = {}
    BY <2>2, <2>3 DEF cell
  <2>4. ASSUME NEW r \in Taking(h, c)
        PROVE  {x.id : x \in Taking(h, c)} = IF cell = Free THEN {} ELSE {cell.id}
    <3>1. Taking(h, c) = {r} /\ cell # Free /\ cell.id = r.id
      BY <2>2
    <3> QED BY <3>1
  <2> QED BY <2>3, <2>4 DEF cell
<1> QED BY <1>1, TypeCorrect, RowsOfRequests, CalendarSafe, GridKept, PTL

\* The list, the matrix and the hosts offered for a window tell the same story.
THEOREM ViewsAgree == Spec => []QueriesAgree
<1>1. TypeOK /\ RowsOfRequest /\ NoDoubleBooking /\ EndsOnGrid => QueriesAgree
  <2> SUFFICES ASSUME TypeOK, RowsOfRequest, NoDoubleBooking, EndsOnGrid,
                      NEW v \in Windows, NEW u \in Users, NEW h \in Hosts
               PROVE  LET row == Matrix(u, h, v[1], v[2]) IN
                      /\ {r.id : r \in {x \in Listed(u, h, v[1], v[2]) : x.user = u}}
                           = {row[c].id : c \in {x \in DOMAIN row : row[x].user = u}}
                      /\ host[h] = "IDLE" =>
                           (h \in AvailableIn(v[1], v[2]) <=> \A c \in DOMAIN row : row[c] = Free)
    BY Zenon DEF QueriesAgree
  <2> DEFINE f == v[1]
             t == v[2]
             row == Matrix(u, h, f, t)
             mine == {x \in Listed(u, h, f, t) : x.user = u}
             own  == {x \in DOMAIN row : row[x].user = u}
  <2>1. f \in Nat /\ t \in Nat /\ OnGrid(f) /\ OnGrid(t) /\ f < t
    BY Asked
  <2> HIDE DEF f, t
  <2>2. DOMAIN row = Cells(f, t) /\ \A c \in Cells(f, t) : row[c] = MatrixCell(u, h, c, f, t)
    BY DEF Matrix
  <2> HIDE DEF row
  <2>3. \A c \in Cells(f, t) :
          /\ Taking(h, c) = {} => row[c] = Free
          /\ \A r \in Taking(h, c) :
               /\ row[c] # Free /\ row[c].id = r.id
               /\ row[c].user = IF Access(u, r) THEN r.user ELSE "none"
    BY <2>1, <2>2, CellShows
  <2>4. \A r \in reservation : ActiveRow(r) /\ r.host = h =>
          (Overlaps(r, [lo |-> f, hi |-> t]) <=> \E c \in Cells(f, t) : r \in Taking(h, c))
    BY <2>1, SomeCell
  <2>5. ASSUME NEW r \in mine
        PROVE  \E c \in own : r.id = row[c].id
    <3>1. /\ r \in reservation /\ ActiveRow(r) /\ r.host = h /\ r.user = u
          /\ Overlaps(r, [lo |-> f, hi |-> t])
      BY <2>5 DEF Listed, Overlaps
    <3>2. PICK c \in Cells(f, t) : r \in Taking(h, c)
      BY <2>4, <3>1
    <3>3. row[c].id = r.id /\ row[c].user = u
      BY <2>3, <3>1, <3>2 DEF Access
    <3> QED BY <2>2, <3>3
  <2>6. ASSUME NEW c \in own
        PROVE  \E r \in mine : r.id = row[c].id
    <3>1. c \in Cells(f, t) /\ row[c].user = u
      BY <2>2
    <3>2. PICK r \in Taking(h, c) : TRUE
      BY <2>3, <3>1, HiddenAssumption DEF Free, HiddenAssumption
    <3>3. row[c].id = r.id /\ Access(u, r) /\ r.user = u
      BY <2>3, <3>1, HiddenAssumption DEF HiddenAssumption
    <3>4. r \in reservation /\ ActiveRow(r) /\ r.host = h
      BY DEF Taking, Clash
    <3>5. Overlaps(r, [lo |-> f, hi |-> t])
      BY <2>4, <3>1, <3>4
    <3>6. r \in mine
      BY <3>3, <3>4, <3>5 DEF Listed, Overlaps
    <3> QED BY <3>3, <3>6
  <2>7. \A r \in reservation : r.status = "CONFIRMED" <=> ActiveRow(r)
    BY DEF EndsOnGrid, OnGridRow, ActiveRow
  <2>8. host[h] = "IDLE" => (h \in AvailableIn(f, t) <=> \A c \in Cells(f, t) : row[c] = Free)
    <3>1. (\A c \in Cells(f, t) : row[c] = Free) <=> \A c \in Cells(f, t) : Taking(h, c) = {}
      BY <2>3
    <3>2. (\A c \in Cells(f, t) : Taking(h, c) = {})
            <=> ~\E r \in reservation : /\ r.host = h /\ ActiveRow(r)
                                        /\ Overlaps(r, [lo |-> f, hi |-> t])
      BY <2>4 DEF Taking, Clash
    <3> QED BY <2>7, <3>1, <3>2 DEF AvailableIn
  <2>9. {r.id : r \in mine} = {row[c].id : c \in own}
    <3> HIDE DEF mine, own
    <3> QED BY <2>5, <2>6
  <2> QED BY <2>2, <2>8, <2>9, Zenon DEF f, t, row
<1> QED BY <1>1, TypeCorrect, RowsOfRequests, CalendarSafe, GridKept, PTL

\* A host offered for instant use can be taken at once, up to the time promised.
THEOREM OffersCanBeTaken == Spec => []OffersHold
<1>1. TypeOK /\ RowsOfRequest /\ EndsOnGrid => OffersHold
  <2> SUFFICES ASSUME TypeOK, RowsOfRequest, EndsOnGrid, NEW h \in AvailableNow
               PROVE  /\ now < AvailableUntil(h)
                      /\ \A r \in reservation : ActiveRow(r) =>
                           ~Clash(r, [host |-> h, lo |-> now, hi |-> AvailableUntil(h)])
    BY DEF OffersHold
  <2> DEFINE later == LaterStarts(reservation, h, now)
             until == InstantEnd(now, later)
  <2>1. now \in Nat
    BY RequestsAssumption DEF TypeOK, RequestsAssumption
  <2>2. later \subseteq Nat /\ \A s \in later : now < s
    BY DEF LaterStarts, TypeOK, Reservation
  <2>3. until \in Nat /\ now < until /\ \A s \in later : until <= s
    <3> HIDE DEF later
    <3> QED BY <2>1, <2>2, InstantEndProper
  <2>4. until = AvailableUntil(h)
    BY DEF AvailableUntil
  <2> HIDE DEF until
  <2>5. ASSUME NEW r \in reservation, ActiveRow(r), r.host = h, now < r.hi
        PROVE  until <= r.lo
    <3>1. r.lo \in Nat /\ r.status = "CONFIRMED"
      BY <2>5 DEF TypeOK, Reservation, EndsOnGrid, OnGridRow, ActiveRow
    <3>2. now < r.lo
      BY <2>1, <2>5, <3>1 DEF AvailableNow, Contains
    <3>3. r.lo \in later
      BY <2>5, <3>1, <3>2 DEF LaterStarts
    <3> QED BY <2>3, <3>3
  <2>6. ASSUME NEW r \in reservation, ActiveRow(r),
               Clash(r, [host |-> h, lo |-> now, hi |-> until])
        PROVE  FALSE
    <3>1. r.host = h /\ r.lo < until /\ now < r.hi /\ r.lo \in Nat
      BY <2>6 DEF Clash, Overlaps, TypeOK, Reservation
    <3> QED BY <2>3, <2>5, <2>6, <3>1
  <2> QED BY <2>3, <2>4, <2>6
<1> QED BY <1>1, TypeCorrect, RowsOfRequests, GridKept, PTL

-----------------------------------------------------------------------------
(* The ticks booked in a day.  BookedInDay sums over a set by picking one   *)
(* element after the other; what it computes is found by induction over the *)
(* number of elements, which is a set of numbers here.                      *)

\* A set of naturals with 0 and the successor of each of its members has them all.
LEMMA SetInduction ==
    ASSUME NEW S \in SUBSET Nat, 0 \in S, \A n \in S : n + 1 \in S
    PROVE  S = Nat
<1> DEFINE T == Nat \ S
<1>1. ASSUME T # {} PROVE FALSE
  <2>1. PICK k \in T : \A j \in T : ~(<<j, k>> \in Below)
    BY <1>1, BelowWellFounded, WFMin
  <2>2. k # 0 /\ k - 1 \in Nat /\ k - 1 \notin S
    OBVIOUS
  <2>3. <<k - 1, k>> \in Below
    BY <2>2 DEF Below
  <2> QED BY <2>1, <2>2, <2>3
<1> QED BY <1>1

\* The ticks of a set of rows booked in the day from d.
BookedOn(S, d) == MapThenSumSet(LAMBDA r : Clipped(r, d), S)

\* The recursion it stands for: an element is picked, counted and put aside.
Picked(S) == CHOOSE x \in S : TRUE

Sum(f, s, d) == IF s = {} THEN 0 ELSE Clipped(Picked(s), d) + f[s \ {Picked(s)}]

Adds(f, S, d) == f = [s \in SUBSET S |-> Sum(f, s, d)]

\* What BookedOn is by definition, ...
LEMMA BookedByAdding ==
    ASSUME NEW S, NEW d
    PROVE  BookedOn(S, d) = (CHOOSE f : Adds(f, S, d))[S]
BY Zenon DEF BookedOn, MapThenSumSet, MapThenFoldSet, Adds, Sum, Picked

\* ... which takes a smaller set in each round.
LEMMA Smaller ==
    ASSUME NEW R, IsFiniteSet(R), NEW s \in SUBSET R, NEW x \in s
    PROVE  /\ IsFiniteSet(s) /\ Cardinality(s) \in Nat
           /\ Cardinality(s) # 0
           /\ s \ {x} \in SUBSET R /\ Cardinality(s \ {x}) = Cardinality(s) - 1
           /\ Cardinality(s \ {x}) \in Nat
<1>1. IsFiniteSet(s) /\ IsFiniteSet(s \ {x})
  BY FS_Subset
<1>2. Cardinality(s) \in Nat /\ Cardinality(s \ {x}) \in Nat
  BY <1>1, FS_CardinalityType
<1>3. Cardinality(s \ {x}) = Cardinality(s) - 1
  BY <1>1, FS_RemoveElement
<1> QED BY <1>1, <1>2, <1>3

\* Something is picked from every set but the empty one.
LEMMA PickedIn == ASSUME NEW s, s # {} PROVE Picked(s) \in s
BY DEF Picked

\* The recursion has a solution on every finite set.
LEMMA AdditionExists ==
    ASSUME NEW R, IsFiniteSet(R), NEW d
    PROVE  \E f : Adds(f, R, d)
<1> DEFINE Upto(k) == {s \in SUBSET R : Cardinality(s) <= k}
           I == {k \in Nat : \E f : f = [s \in Upto(k) |-> Sum(f, s, d)]}
<1>1. 0 \in I
  <2>1. ASSUME NEW s \in Upto(0), NEW x \in s
        PROVE  FALSE
    <3>1. s \in SUBSET R /\ Cardinality(s) <= 0
      OBVIOUS
    <3>2. Cardinality(s) \in Nat /\ Cardinality(s) # 0
      BY <3>1, Smaller
    <3> QED BY <3>1, <3>2
  <2> DEFINE f == [s \in Upto(0) |-> 0]
  <2>2. \A s \in Upto(0) : Sum(f, s, d) = 0
    BY <2>1 DEF Sum
  <2>3. f = [s \in Upto(0) |-> Sum(f, s, d)]
    BY <2>2
  <2> QED BY <2>3
<1>2. ASSUME NEW k \in I
      PROVE  k + 1 \in I
  <2>1. k \in Nat /\ k + 1 \in Nat
    OBVIOUS
  <2>2. PICK f : f = [s \in Upto(k) |-> Sum(f, s, d)]
    OBVIOUS
  <2> DEFINE g == [s \in Upto(k + 1) |-> Sum(f, s, d)]
  <2>3. \A s \in Upto(k) : s \in Upto(k + 1)
    <3>1. \A s \in SUBSET R : Cardinality(s) \in Nat
      BY FS_Subset, FS_CardinalityType
    <3> QED BY <2>1, <3>1
  <2>4. \A s \in Upto(k) : f[s] = g[s]
    BY <2>2, <2>3
  <2>5. ASSUME NEW s \in Upto(k + 1)
        PROVE  Sum(f, s, d) = Sum(g, s, d)
    <3>1. CASE s = {}
      BY <3>1 DEF Sum
    <3>2. CASE s # {}
      <4>1. Picked(s) \in s
        BY <3>2, PickedIn
      <4>2. s \ {Picked(s)} \in Upto(k)
        BY <2>1, <4>1, Smaller
      <4> QED BY <2>4, <4>2 DEF Sum
    <3> QED BY <3>1, <3>2
  <2>6. g = [s \in Upto(k + 1) |-> Sum(g, s, d)]
    BY <2>5
  <2> HIDE DEF g
  <2> QED BY <2>1, <2>6
<1>3. I = Nat
  <2>1. I \in SUBSET Nat
    OBVIOUS
  <2> HIDE DEF I
  <2> QED BY <1>1, <1>2, <2>1, SetInduction
<1>4. Cardinality(R) \in Nat
  BY FS_CardinalityType
<1>5. Upto(Cardinality(R)) = SUBSET R
  BY FS_Subset
<1>6. PICK f : f = [s \in Upto(Cardinality(R)) |-> Sum(f, s, d)]
  BY <1>3, <1>4
<1> QED BY <1>5, <1>6 DEF Adds

\* It has only one, also if a larger set is added up.
LEMMA AdditionUnique ==
    ASSUME NEW R, IsFiniteSet(R), NEW S \in SUBSET R, NEW d,
           NEW f, NEW g, Adds(f, R, d), Adds(g, S, d)
    PROVE  \A s \in SUBSET S : f[s] = g[s]
<1> DEFINE I == {k \in Nat : \A s \in SUBSET S : Cardinality(s) = k => f[s] = g[s]}
<1>s. \A s \in SUBSET S : f[s] = Sum(f, s, d) /\ g[s] = Sum(g, s, d)
  BY DEF Adds
<1>1. 0 \in I
  <2>1. ASSUME NEW s \in SUBSET S, Cardinality(s) = 0
        PROVE  s = {}
    BY <2>1, Smaller
  <2> QED BY <1>s, <2>1 DEF Sum
<1>2. ASSUME NEW k \in I
      PROVE  k + 1 \in I
  <2>1. k \in Nat /\ k + 1 \in Nat /\ k + 1 # 0
    OBVIOUS
  <2>2. ASSUME NEW s \in SUBSET S, Cardinality(s) = k + 1
        PROVE  f[s] = g[s]
    <3>1. s # {}
      BY <2>1, <2>2, FS_EmptySet
    <3>2. Picked(s) \in s
      BY <3>1, PickedIn
    <3>3. s \ {Picked(s)} \in SUBSET S /\ Cardinality(s \ {Picked(s)}) = k
      BY <2>1, <2>2, <3>2, Smaller
    <3>4. f[s \ {Picked(s)}] = g[s \ {Picked(s)}]
      BY <3>3
    <3> QED BY <1>s, <3>4 DEF Sum
  <2> QED BY <2>1, <2>2
<1>3. I = Nat
  <2>1. I \in SUBSET Nat
    OBVIOUS
  <2> HIDE DEF I
  <2> QED BY <1>1, <1>2, <2>1, SetInduction
<1>4. \A s \in SUBSET S : Cardinality(s) \in Nat
  BY FS_Subset, FS_CardinalityType
<1> QED BY <1>3, <1>4

\* The part of a row inside a day is at most the row, and not negative if they overlap.
LEMMA ClippedBounds ==
    ASSUME NEW r \in Reservation, NEW d \in Int
    PROVE  /\ Clipped(r, d) \in Int /\ Clipped(r, d) <= r.hi - r.lo
           /\ r.lo < r.hi /\ Overlaps(r, [lo |-> d, hi |-> d + Day]) => 0 <= Clipped(r, d)
<1>1. /\ r.lo \in Int /\ r.hi \in Int /\ Day \in Nat \ {0} /\ d + Day \in Int
  BY RulesAssumption DEF RulesAssumption, Reservation
<1>2. Min({r.hi, d + Day}) \in {r.hi, d + Day} /\ Min({r.hi, d + Day}) <= r.hi
  BY <1>1, OfTwo, Zenon
<1>3. Max({r.lo, d}) \in {r.lo, d} /\ r.lo <= Max({r.lo, d})
  BY <1>1, OfTwo, Zenon
<1>4. Overlaps(r, [lo |-> d, hi |-> d + Day]) => r.lo < d + Day /\ d < r.hi
  BY DEF Overlaps
<1> QED BY <1>1, <1>2, <1>3, <1>4 DEF Clipped

\* Sums are integers, ...
LEMMA AdditionTyped ==
    ASSUME NEW R \in SUBSET Reservation, IsFiniteSet(R), NEW d \in Int, NEW f, Adds(f, R, d)
    PROVE  \A s \in SUBSET R : f[s] \in Int
<1> DEFINE I == {k \in Nat : \A s \in SUBSET R : Cardinality(s) = k => f[s] \in Int}
<1>s. \A s \in SUBSET R : f[s] = Sum(f, s, d)
  BY DEF Adds
<1>1. 0 \in I
  <2>1. ASSUME NEW s \in SUBSET R, Cardinality(s) = 0
        PROVE  s = {}
    BY <2>1, Smaller
  <2>2. f[{}] = 0
    BY <1>s DEF Sum
  <2>3. \A s \in SUBSET R : Cardinality(s) = 0 => f[s] \in Int
    BY <2>1, <2>2
  <2> QED BY <2>3
<1>2. ASSUME NEW k \in I
      PROVE  k + 1 \in I
  <2>1. k \in Nat /\ k + 1 \in Nat /\ k + 1 # 0
    OBVIOUS
  <2>2. ASSUME NEW s \in SUBSET R, Cardinality(s) = k + 1
        PROVE  f[s] \in Int
    <3>1. s # {}
      BY <2>1, <2>2, FS_EmptySet
    <3>2. Picked(s) \in s
      BY <3>1, PickedIn
    <3>3. s \ {Picked(s)} \in SUBSET R /\ Cardinality(s \ {Picked(s)}) = k
      BY <2>1, <2>2, <3>2, Smaller
    <3>4. f[s \ {Picked(s)}] \in Int /\ Clipped(Picked(s), d) \in Int
      BY <3>2, <3>3, ClippedBounds
    <3>5. f[s] = Clipped(Picked(s), d) + f[s \ {Picked(s)}]
      BY <1>s, <3>1 DEF Sum
    <3> QED BY <3>4, <3>5
  <2> QED BY <2>1, <2>2
<1>3. I = Nat
  <2>1. I \in SUBSET Nat
    OBVIOUS
  <2> HIDE DEF I
  <2> QED BY <1>1, <1>2, <2>1, SetInduction
<1>4. \A s \in SUBSET R : Cardinality(s) \in Nat
  BY FS_Subset, FS_CardinalityType
<1> QED BY <1>3, <1>4

\* ... and it does not matter which element is picked first.
LEMMA AnyFirst ==
    ASSUME NEW R \in SUBSET Reservation, IsFiniteSet(R), NEW d \in Int, NEW f, Adds(f, R, d)
    PROVE  \A s \in SUBSET R : \A x \in s : f[s] = Clipped(x, d) + f[s \ {x}]
<1> DEFINE Holds(s) == \A x \in s : f[s] = Clipped(x, d) + f[s \ {x}]
           I == {k \in Nat : \A s \in SUBSET R : Cardinality(s) = k => Holds(s)}
<1>s. \A s \in SUBSET R : s # {} => f[s] = Clipped(Picked(s), d) + f[s \ {Picked(s)}]
  BY DEF Adds, Sum
<1>t. \A s \in SUBSET R : f[s] \in Int
  BY AdditionTyped
<1>c. \A x \in R : Clipped(x, d) \in Int
  BY ClippedBounds
<1>1. 0 \in I
  <2>1. ASSUME NEW s \in SUBSET R, Cardinality(s) = 0
        PROVE  s = {}
    BY <2>1, Smaller
  <2> QED BY <2>1
<1>2. ASSUME NEW k \in I
      PROVE  k + 1 \in I
  <2>1. k \in Nat /\ k + 1 \in Nat /\ k + 1 # 0
    OBVIOUS
  <2>2. ASSUME NEW s \in SUBSET R, Cardinality(s) = k + 1, NEW x \in s
        PROVE  f[s] = Clipped(x, d) + f[s \ {x}]
    <3>1. PICK y : y = Picked(s) /\ y \in s
      BY PickedIn
    <3>2. f[s] = Clipped(y, d) + f[s \ {y}]
      BY <1>s, <3>1
    <3>3. CASE x = y
      BY <3>2, <3>3
    <3>4. CASE x # y
      <4>1. /\ s \ {x} \in SUBSET R /\ Cardinality(s \ {x}) = k
            /\ s \ {y} \in SUBSET R /\ Cardinality(s \ {y}) = k
        BY <2>1, <2>2, <3>1, Smaller
      <4>2. Holds(s \ {x}) /\ Holds(s \ {y})
        BY <4>1
      <4>3. y \in s \ {x} /\ x \in s \ {y}
        BY <3>1, <3>4
      <4>4. PICK rest : rest = (s \ {x}) \ {y} /\ rest = (s \ {y}) \ {x}
        OBVIOUS
      <4>5. f[s \ {x}] = Clipped(y, d) + f[rest] /\ f[s \ {y}] = Clipped(x, d) + f[rest]
        BY <4>2, <4>3, <4>4
      <4>6. rest \in SUBSET R
        BY <4>4
      <4>7. f[rest] \in Int /\ Clipped(x, d) \in Int /\ Clipped(y, d) \in Int
        BY <1>t, <1>c, <3>1, <4>6
      <4> QED BY <3>2, <4>5, <4>7
    <3> QED BY <3>3, <3>4
  <2> QED BY <2>1, <2>2
<1>3. I = Nat
  <2>1. I \in SUBSET Nat
    OBVIOUS
  <2> HIDE DEF I
  <2> QED BY <1>1, <1>2, <2>1, SetInduction
<1>4. \A s \in SUBSET R : Cardinality(s) \in Nat
  BY FS_Subset, FS_CardinalityType
<1> QED BY <1>3, <1>4

\* What BookedOn computes: an empty set has nothing booked, and a row adds its part.
LEMMA BookedSum ==
    ASSUME NEW S \in SUBSET Reservation, IsFiniteSet(S), NEW d \in Int
    PROVE  /\ BookedOn(S, d) \in Int
           /\ S = {} => BookedOn(S, d) = 0
           /\ \A x \in S : BookedOn(S, d) = Clipped(x, d) + BookedOn(S \ {x}, d)
<1> DEFINE f == CHOOSE h : Adds(h, S, d)
<1>1. Adds(f, S, d) /\ BookedOn(S, d) = f[S]
  BY AdditionExists, BookedByAdding
<1> HIDE DEF f
<1>2. BookedOn(S, d) \in Int
  BY <1>1, AdditionTyped
<1>3. S = {} => BookedOn(S, d) = 0
  BY <1>1 DEF Adds, Sum
<1>4. ASSUME NEW x \in S
      PROVE  BookedOn(S, d) = Clipped(x, d) + BookedOn(S \ {x}, d)
  <2> DEFINE T == S \ {x}
             g == CHOOSE h : Adds(h, T, d)
  <2>1. T \in SUBSET S /\ IsFiniteSet(T)
    BY FS_Subset
  <2>2. Adds(g, T, d) /\ BookedOn(T, d) = g[T]
    <3> HIDE DEF T
    <3> QED BY <2>1, AdditionExists, BookedByAdding
  <2> HIDE DEF g
  <2>3. f[T] = g[T]
    <3> HIDE DEF T
    <3> QED BY <1>1, <2>1, <2>2, AdditionUnique
  <2>4. f[S] = Clipped(x, d) + f[T]
    BY <1>1, AnyFirst
  <2> QED BY <1>1, <2>2, <2>3, <2>4
<1> QED BY <1>2, <1>3, <1>4

\* Rows that are in the day only add to it.
LEMMA BookedMore ==
    ASSUME NEW T \in SUBSET Reservation, IsFiniteSet(T), NEW S \in SUBSET T, NEW d \in Int,
           \A x \in T : 0 <= Clipped(x, d)
    PROVE  BookedOn(S, d) <= BookedOn(T, d)
<1> DEFINE I == {k \in Nat : \A s \in SUBSET T :
                    S \subseteq s /\ Cardinality(s \ S) = k => BookedOn(S, d) <= BookedOn(s, d)}
<1>t. \A s \in SUBSET T : /\ IsFiniteSet(s) /\ BookedOn(s, d) \in Int
                          /\ Cardinality(s \ S) \in Nat /\ IsFiniteSet(s \ S)
  <2>1. \A s \in SUBSET T : IsFiniteSet(s) /\ IsFiniteSet(s \ S)
    BY FS_Subset
  <2> QED BY <2>1, BookedSum, FS_CardinalityType
<1>1. 0 \in I
  <2>1. ASSUME NEW s \in SUBSET T, S \subseteq s, Cardinality(s \ S) = 0
        PROVE  s = S
    <3>1. s \ S = {}
      BY <1>t, <2>1, FS_EmptySet
    <3> QED BY <2>1, <3>1
  <2>2. BookedOn(S, d) \in Int
    BY BookedSum, FS_Subset
  <2>3. BookedOn(S, d) <= BookedOn(S, d)
    BY <2>2
  <2> QED BY <2>1, <2>3
<1>2. ASSUME NEW k \in I
      PROVE  k + 1 \in I
  <2>1. k \in Nat /\ k + 1 \in Nat /\ k + 1 # 0
    OBVIOUS
  <2>2. ASSUME NEW s \in SUBSET T, S \subseteq s, Cardinality(s \ S) = k + 1
        PROVE  BookedOn(S, d) <= BookedOn(s, d)
    <3>1. PICK x \in s : x \notin S
      BY <2>1, <2>2, FS_EmptySet
    <3>2. s \ {x} \in SUBSET T /\ S \subseteq s \ {x} /\ (s \ {x}) \ S = (s \ S) \ {x}
      BY <2>2, <3>1
    <3>3. Cardinality((s \ S) \ {x}) = k
      <4>1. x \in s \ S /\ IsFiniteSet(s \ S)
        BY <1>t, <3>1
      <4>2. Cardinality((s \ S) \ {x}) = Cardinality(s \ S) - 1
        BY <4>1, FS_RemoveElement, Zenon
      <4> QED BY <2>1, <2>2, <4>2
    <3>4. BookedOn(S, d) <= BookedOn(s \ {x}, d)
      BY <2>1, <3>2, <3>3
    <3>5. BookedOn(s, d) = Clipped(x, d) + BookedOn(s \ {x}, d)
      BY <1>t, BookedSum
    <3>6. 0 <= Clipped(x, d) /\ Clipped(x, d) \in Int
      BY ClippedBounds
    <3>7. /\ BookedOn(s, d) \in Int /\ BookedOn(s \ {x}, d) \in Int
          /\ BookedOn(S, d) \in Int
      BY <1>t, <3>2
    <3> QED BY <3>4, <3>5, <3>6, <3>7
  <2> QED BY <2>1, <2>2
<1>3. I = Nat
  <2>1. I \in SUBSET Nat
    OBVIOUS
  <2> HIDE DEF I
  <2> QED BY <1>1, <1>2, <2>1, SetInduction
<1>4. Cardinality(T \ S) \in I
  BY <1>3, <1>t
<1> QED BY <1>4

-----------------------------------------------------------------------------
(* The quota of a day.                                                     *)

\* The day of a start is the one it is in, and every start in it has the same day.
LEMMA DayOfStart ==
    ASSUME NEW lo \in Nat, NEW z \in Nat
    PROVE  LET d == DayStart(lo, z) IN
           /\ d \in Int /\ d <= lo /\ lo < d + Day
           /\ \A t \in Nat : d <= t /\ t < d + Day => DayStart(t, z) = d
<1> DEFINE k == (lo + z) \div Day
<1>0. Day \in Nat \ {0} /\ lo + z \in Int
  BY RulesAssumption DEF RulesAssumption
<1>1. k \in Int /\ (lo + z) % Day \in 0..Day - 1 /\ lo + z = k * Day + ((lo + z) % Day)
  BY <1>0, Quotient, Zenon
<1>2. DayStart(lo, z) = k * Day - z
  BY DEF DayStart
<1> HIDE DEF k
<1>3. k * Day \in Int /\ (k + 1) * Day = k * Day + Day
  BY <1>0, <1>1, Products
<1>4. ASSUME NEW t \in Nat, k * Day - z <= t, t < k * Day - z + Day
      PROVE  DayStart(t, z) = k * Day - z
  <2>0. PICK m \in Int : m = k * Day
    BY <1>3
  <2>1. t + z \in Int /\ m <= t + z /\ t + z < m + Day
    <3>1. m - z <= t /\ t < m - z + Day
      BY <1>4, <2>0
    <3> QED BY <1>0, <3>1
  <2>2. (t + z) \div Day = k
    BY <1>0, <1>1, <1>3, <2>0, <2>1, UniqueQuotient, Zenon
  <2> QED BY <2>2 DEF DayStart
<1> QED BY <1>0, <1>1, <1>2, <1>3, <1>4

DayOf(q) == DayStart(req[q].lo, req[q].zone)

\* The rows _validate_quota sums over, and those of them that belong to requests
\* answered when q came.
InDay(u, d) == {r \in reservation : /\ r.user = u /\ ActiveRow(r)
                                    /\ Overlaps(r, [lo |-> d, hi |-> d + Day])}

SeenDay(q) == {r \in InDay(req[q].user, DayOf(q)) : r.id \in prior[q]}

\* A booking that has passed the check of its day fits in with them.
DayCounted ==
    \A q \in Requests :
        req[q] \in BookingRequest /\ pc[q] \in {"insert", "scan", "revoke", "commit"} =>
            BookedOn(SeenDay(q), DayOf(q)) + (req[q].hi - req[q].lo) <= MaxPerDay

\* The active rows of a user that were asked for in a zone and stay in a day of it.
OfDay(u, z, d) ==
    {r \in reservation : /\ r.user = u /\ ActiveRow(r) /\ req[r.id].zone = z
                         /\ DayStart(r.lo, z) = d /\ r.hi <= d + Day}

\* DayQuotaUnlessRaced, of every set of such rows: cancelling one of two that raced
\* must leave the others within the quota.
DayOfSubsets ==
    \A u \in Users, z \in Nat, d \in Int : \A S \in SUBSET OfDay(u, z, d) :
        BookedOn(S, d) > MaxPerDay => \E a, b \in S : Raced(a.id, b.id)

DayQuota ==
    /\ IsFiniteSet(reservation)
    /\ \A r \in reservation : req[r.id] \in BookingRequest
    /\ DayCounted
    /\ DayOfSubsets

\* A commit adds its row to the active ones, and nothing else does.
LEMMA ActiveShrinks ==
    ASSUME TypeOK, RowsOfRequest, [Next]_vars, NEW r \in reservation', ActiveRow(r)
    PROVE  \/ r \in reservation
           \/ \E q \in Requests : Publication(q) /\ r \in w[q].rows /\ r = NewRow(q)
<1> SUFFICES ASSUME r \notin reservation
             PROVE  \E q \in Requests : Publication(q) /\ r \in w[q].rows /\ r = NewRow(q)
  OBVIOUS
<1>1. PICK q \in Requests : Publication(q)
  BY Shapes DEF Elsewhere, Moves, Arrival, Statement
<1>2. ASSUME NEW x \in reservation, r = Canceled(x, w[q].cancels)
      PROVE  FALSE
  <2>1. x \in Reservation
    BY DEF TypeOK
  <2>2. x.id \notin w[q].cancels
    BY <1>2, <2>1 DEF Canceled, ActiveRow, Reservation
  <2> QED BY <1>2, <2>2 DEF Canceled
<1>3. r \in w[q].rows
  BY <1>1, <1>2 DEF Publication
<1>4. r = NewRow(q)
  BY <1>3 DEF RowsOfRequest
<1> QED BY <1>1, <1>3, <1>4

\* A booking past the check of its day has not moved, or has made a statement that
\* leaves its window alone; if it was not past it before, it has just passed it.
LEMMA DayStatement ==
    ASSUME TypeOK, [Next]_vars, NEW q \in Requests,
           req'[q] \in BookingRequest, pc'[q] \in {"insert", "scan", "revoke", "commit"}
    PROVE  /\ req'[q] = req[q] /\ prior'[q] = prior[q]
           /\ \/ pc[q] \in {"insert", "scan", "revoke", "commit"}
              \/ /\ UNCHANGED reservation
                 /\ ~OverDay(reservation, req[q].user, req[q].lo, req[q].hi, req[q].zone)
<1>1. CASE Stands(q)
  BY <1>1 DEF Stands
<1>2. CASE Arrive(q)
  BY <1>2, ArrivalShape DEF Arrival, Found, BookingRequest
<1>3. CASE Step(q)
  <2>1. ~NextStart(q) /\ ~Commit(q)
    BY DEF NextStart, Commit, TypeOK
  <2>2. CASE Insert(q)
    <3>1. pc[q] = "insert" /\ req'[q] = req[q] /\ prior'[q] = prior[q]
      BY <2>2 DEF Insert, Rollback, Write
    <3> QED BY <3>1
  <2>3. CASE ~Insert(q)
    BY <1>3, <2>1, <2>3, QuietStatement
  <2> QED BY <2>2, <2>3
<1>4. CASE Fail(q)
  BY <1>4 DEF Fail, Rollback, TypeOK
<1>5. CASE ~Stands(q) /\ ~Arrive(q) /\ ~Step(q) /\ ~Fail(q)
  <2>1. ~Elsewhere
    BY <1>5 DEF Elsewhere
  <2>2. \A p \in Requests : Arrive(p) => \A x \in Others(p) : Stands(x)
    BY ArrivalShape
  <2>3. \A p \in Requests : Step(p) => \A x \in Others(p) : Stands(x)
    BY BookingShape, TokenShape, CancelShape, PublicationShape DEF Step
  <2>4. \A p \in Requests : Fail(p) => \A x \in Others(p) : Stands(x)
    BY RollbackShape DEF Fail, Open
  <2>5. \A p \in Requests : Arrive(p) \/ Step(p) \/ Fail(p) => p = q
    BY <1>5, <2>2, <2>3, <2>4 DEF Others
  <2>6. \A h \in Hosts : Report(h) => Stands(q)
    BY DEF Report, Stands
  <2>7. Tick \/ UNCHANGED vars => Stands(q)
    BY DEF Tick, vars, database, Stands
  <2> QED BY <1>5, <2>5, <2>6, <2>7 DEF Next
<1> QED BY <1>1, <1>2, <1>3, <1>4, <1>5

\* One step of the counts: what q has seen of its day only shrinks.
LEMMA DayCountedStep ==
    ASSUME TypeOK, RowsOfRequest, TokenLedger, DayQuota, [Next]_vars
    PROVE  DayCounted'
<1> SUFFICES ASSUME NEW q \in Requests, req'[q] \in BookingRequest,
                    pc'[q] \in {"insert", "scan", "revoke", "commit"}
             PROVE  BookedOn(SeenDay(q)', DayOf(q)') + (req'[q].hi - req'[q].lo) <= MaxPerDay
  BY DEF DayCounted
<1>1. /\ req'[q] = req[q] /\ prior'[q] = prior[q]
      /\ \/ pc[q] \in {"insert", "scan", "revoke", "commit"}
         \/ ~OverDay(reservation, req[q].user, req[q].lo, req[q].hi, req[q].zone)
  BY DayStatement
<1>2. PICK u, d, S : u = req[q].user /\ d = DayOf(q) /\ S = SeenDay(q)
  OBVIOUS
<1>3. /\ req[q] \in BookingRequest /\ req[q].lo \in Nat /\ req[q].hi \in Nat
      /\ d \in Int /\ d = DayOf(q)'
  <2>1. req[q] \in BookingRequest /\ req[q].lo \in Nat /\ req[q].hi \in Nat /\ req[q].zone \in Nat
    BY <1>1 DEF BookingRequest
  <2>2. d \in Int
    BY <1>2, <2>1, DayOfStart DEF DayOf
  <2> QED BY <1>1, <1>2, <2>1, <2>2 DEF DayOf
<1>4. InDay(u, d) \in SUBSET Reservation /\ IsFiniteSet(InDay(u, d))
  BY FS_Subset DEF InDay, TypeOK, DayQuota
<1>5. \A x \in InDay(u, d) : 0 <= Clipped(x, d)
  BY <1>3, ClippedBounds DEF InDay, TypeOK, RowsOfRequest
<1>6. S \in SUBSET InDay(u, d)
  BY <1>2 DEF SeenDay
<1>7. S \in SUBSET Reservation /\ IsFiniteSet(S) /\ \A x \in S : 0 <= Clipped(x, d)
  BY <1>4, <1>5, <1>6, FS_Subset
<1>8. SeenDay(q)' \in SUBSET S
  <2> SUFFICES ASSUME NEW r \in SeenDay(q)'
               PROVE  r \in S
    OBVIOUS
  <2>1. /\ r \in reservation' /\ r.user = u /\ ActiveRow(r) /\ r.id \in prior[q]
        /\ Overlaps(r, [lo |-> d, hi |-> d + Day])
    BY <1>1, <1>2, <1>3 DEF SeenDay, InDay
  <2>2. r \in reservation
    <3>1. ASSUME NEW p \in Requests, Publication(p), r = NewRow(p)
          PROVE  FALSE
      <4>1. r.id = p /\ pc[p] = "commit"
        BY <3>1 DEF NewRow, Publication
      <4> QED BY <2>1, <4>1 DEF TokenLedger, LedgerOf, Came
    <3> QED BY <2>1, <3>1, ActiveShrinks
  <2> QED BY <1>2, <2>1, <2>2 DEF SeenDay, InDay
<1>9. BookedOn(S, d) + (req[q].hi - req[q].lo) <= MaxPerDay
  <2>1. CASE pc[q] \in {"insert", "scan", "revoke", "commit"}
    BY <1>2, <1>3, <2>1 DEF DayQuota, DayCounted
  <2>2. CASE ~OverDay(reservation, req[q].user, req[q].lo, req[q].hi, req[q].zone)
    <3>1. BookedInDay(reservation, u, d) = BookedOn(InDay(u, d), d)
      BY Zenon DEF BookedOn, BookedInDay, InDay
    <3>2. ~(BookedOn(InDay(u, d), d) + (req[q].hi - req[q].lo) > MaxPerDay)
      BY <1>2, <2>2, <3>1 DEF OverDay, DayOf
    <3>3. BookedOn(S, d) <= BookedOn(InDay(u, d), d)
      BY <1>3, <1>4, <1>5, <1>6, BookedMore
    <3>4. BookedOn(S, d) \in Int /\ BookedOn(InDay(u, d), d) \in Int /\ MaxPerDay \in Int
      BY <1>3, <1>4, <1>7, BookedSum, RulesAssumption DEF RulesAssumption
    <3> QED BY <1>3, <3>2, <3>3, <3>4
  <2> QED BY <1>1, <2>1, <2>2
<1>10. PICK T : T = SeenDay(q)'
  OBVIOUS
<1>11. T \in SUBSET S /\ T \in SUBSET Reservation /\ IsFiniteSet(T)
  BY <1>7, <1>8, <1>10, FS_Subset
<1>12. BookedOn(T, d) <= BookedOn(S, d) /\ BookedOn(T, d) \in Int /\ BookedOn(S, d) \in Int
  BY <1>3, <1>7, <1>11, BookedMore, BookedSum
<1>13. BookedOn(T, d) + (req[q].hi - req[q].lo) <= MaxPerDay
  BY <1>3, <1>9, <1>12, RulesAssumption DEF RulesAssumption
<1> QED BY <1>1, <1>3, <1>10, <1>13

\* The rows of a day of a zone are inside that day, as those in the property are.
LEMMA OfDayWithin ==
    ASSUME TypeOK, RowsOfRequest, NEW u, NEW z \in Nat, NEW lo \in Nat, NEW d,
           d = DayStart(lo, z)
    PROVE  /\ d \in Int
           /\ OfDay(u, z, d) = WithinDay(u, d, z)
           /\ OfDay(u, z, d) \subseteq InDay(u, d)
<1>1. d \in Int /\ \A t \in Nat : d <= t /\ t < d + Day => DayStart(t, z) = d
  BY DayOfStart
<1>2. \A r \in reservation : r.lo \in Nat /\ r.hi \in Nat /\ r.lo < r.hi
  BY DEF TypeOK, Reservation, RowsOfRequest
<1>3. Day \in Nat
  BY RulesAssumption DEF RulesAssumption
<1>4. ASSUME NEW r \in reservation, r.hi <= d + Day
      PROVE  /\ d <= r.lo <=> DayStart(r.lo, z) = d
             /\ d <= r.lo => Overlaps(r, [lo |-> d, hi |-> d + Day])
  <2>1. r.lo \in Nat /\ r.hi \in Nat /\ r.lo < r.hi
    BY <1>2
  <2>2. r.lo < d + Day /\ (d <= r.lo => d < r.hi)
    BY <1>1, <1>3, <1>4, <2>1
  <2>3. DayStart(r.lo, z) <= r.lo
    BY <2>1, DayOfStart
  <2> QED BY <1>1, <2>1, <2>2, <2>3 DEF Overlaps
<1> QED BY <1>1, <1>4 DEF OfDay, WithinDay, InDay

\* One step of the quota: the row a commit adds raced with one of the others, or
\* had seen them all and fitted in.
LEMMA DaySubsetsStep ==
    ASSUME TypeOK, RowsOfRequest, RowsOfRequest', TokenLedger, DayQuota, Evolves,
           [Next]_vars
    PROVE  DayOfSubsets'
<1> SUFFICES ASSUME NEW u \in Users, NEW z \in Nat, NEW d \in Int,
                    NEW S, S \subseteq OfDay(u, z, d)', BookedOn(S, d) > MaxPerDay
             PROVE  \E a, b \in S : Raced(a.id, b.id)'
  BY DEF DayOfSubsets
<1>1. \A r \in reservation : /\ prior'[r.id] = prior[r.id] /\ req'[r.id] = req[r.id]
                             /\ pc[r.id] = "ok" /\ r.id \in Requests
  <2>1. \A r \in reservation : pc[r.id] = "ok" /\ r.id \in Requests
    BY DEF RowsOfRequest, TypeOK, Reservation
  <2> QED BY <2>1 DEF Evolves, Stands
<1>s. \A r \in S : /\ r \in reservation' /\ r.user = u /\ ActiveRow(r) /\ req'[r.id].zone = z
                   /\ DayStart(r.lo, z) = d /\ r.hi <= d + Day
  BY DEF OfDay
<1>o. \A r \in S : r \in reservation => r \in OfDay(u, z, d)
  BY <1>1, <1>s DEF OfDay
<1>2. CASE S \subseteq OfDay(u, z, d)
  <2>1. PICK a \in S, b \in S : Raced(a.id, b.id)
    BY <1>2 DEF DayQuota, DayOfSubsets
  <2>2. a \in reservation /\ b \in reservation
    BY <1>2 DEF OfDay
  <2> QED BY <1>1, <2>1, <2>2 DEF Raced
<1>3. CASE ~(S \subseteq OfDay(u, z, d))
  <2>1. PICK n \in S, q \in Requests :
          n \notin reservation /\ Publication(q) /\ n \in w[q].rows /\ n = NewRow(q)
    BY <1>3, <1>s, <1>o, ActiveShrinks
  <2>2. /\ n.id = q /\ n.user = req[q].user /\ n.lo = req[q].lo /\ n.hi = req[q].hi
        /\ pc[q] = "commit" /\ prior'[q] = prior[q] /\ req'[q] = req[q]
        /\ req[q] \in BookingRequest /\ req[q].lo < req[q].hi
    BY <2>1 DEF NewRow, Publication, RowsOfRequest
  <2>3. n \in Reservation /\ n.lo \in Nat /\ n.hi \in Nat /\ n.lo < n.hi
    BY <2>1, <2>2 DEF TypeOK, Writes, Reservation
  <2>4. u = req[q].user /\ z = req[q].zone /\ d = DayOf(q)
    BY <1>s, <2>2 DEF DayOf
  <2>5. \A p \in Requests : Publication(p) => p = q
    <3>1. ASSUME NEW p \in Requests, Publication(p)
          PROVE  ~Stands(p)
      BY <3>1 DEF Publication, Stands
    <3> QED BY <2>1, <3>1, Shapes DEF Elsewhere, Others
  <2> DEFINE T == S \ {n}
  <2>6. T \subseteq OfDay(u, z, d)
    BY <1>s, <1>o, <2>1, <2>5, ActiveShrinks
  <2>7. CASE \E r \in T : r.id \notin prior[q]
    <3>1. PICK r \in T : r.id \notin prior[q]
      BY <2>7
    <3>2. r \in reservation /\ r \in S
      BY <2>6 DEF OfDay
    <3>3. r.id # q /\ r.id \in Requests
      BY <1>1, <2>2, <3>2
    <3>4. q \notin prior[r.id]
      BY <2>2, <3>3 DEF TokenLedger, LedgerOf, Came
    <3>5. Raced(r.id, n.id)'
      BY <1>1, <2>2, <3>1, <3>2, <3>3, <3>4 DEF Raced
    <3> QED BY <3>2, <3>5
  <2>8. CASE \A r \in T : r.id \in prior[q]
    <3>1. OfDay(u, z, d) \subseteq InDay(u, d)
      BY <2>2, <2>3, <2>4, OfDayWithin DEF DayOf
    <3>2. T \subseteq SeenDay(q)
      BY <2>4, <2>6, <2>8, <3>1 DEF SeenDay
    <3>3. BookedOn(SeenDay(q), d) + (n.hi - n.lo) <= MaxPerDay
      BY <2>2, <2>4 DEF DayQuota, DayCounted
    <3>4. /\ SeenDay(q) \in SUBSET Reservation /\ IsFiniteSet(SeenDay(q))
          /\ \A x \in SeenDay(q) : 0 <= Clipped(x, d)
      <4>1. SeenDay(q) \in SUBSET reservation
        BY DEF SeenDay, InDay
      <4>2. \A x \in SeenDay(q) : Overlaps(x, [lo |-> d, hi |-> d + Day])
        BY <2>4 DEF SeenDay, InDay
      <4> QED BY <4>1, <4>2, FS_Subset, ClippedBounds DEF TypeOK, RowsOfRequest, DayQuota
    <3>5. T \in SUBSET Reservation /\ IsFiniteSet(T)
      BY <3>2, <3>4, FS_Subset
    <3> PICK Q : Q = SeenDay(q)
      OBVIOUS
    <3>6. BookedOn(T, d) <= BookedOn(Q, d) /\ BookedOn(T, d) \in Int /\ BookedOn(Q, d) \in Int
      <4> HIDE DEF T
      <4> QED BY <3>2, <3>4, <3>5, BookedMore, BookedSum
    <3>7. S \in SUBSET Reservation /\ IsFiniteSet(S)
      <4>1. S = T \cup {n}
        OBVIOUS
      <4> HIDE DEF T
      <4>2. IsFiniteSet(T \cup {n})
        BY <3>5, FS_AddElement
      <4> QED BY <2>3, <3>5, <4>1, <4>2
    <3>8. BookedOn(S, d) = Clipped(n, d) + BookedOn(T, d) /\ BookedOn(S, d) \in Int
      BY <3>7, BookedSum
    <3>9. Clipped(n, d) \in Int /\ Clipped(n, d) <= n.hi - n.lo
      BY <2>3, ClippedBounds
    <3>10. BookedOn(Q, d) + (n.hi - n.lo) <= MaxPerDay /\ MaxPerDay \in Nat
      BY <3>3, RulesAssumption DEF RulesAssumption
    <3> HIDE DEF T
    <3> QED BY <2>3, <3>6, <3>8, <3>9, <3>10
  <2> QED BY <2>7, <2>8
<1> QED BY <1>2, <1>3

\* The rows of the table stay those of bookings.
LEMMA RowsAsAsked ==
    ASSUME TypeOK, RowsOfRequest, \A r \in reservation : req[r.id] \in BookingRequest,
           Evolves, [Next]_vars
    PROVE  \A x \in reservation' : req'[x.id] \in BookingRequest
<1>1. \A r \in reservation : req'[r.id] = req[r.id]
  BY DEF RowsOfRequest, Evolves, Stands, TypeOK, Reservation
<1>2. ASSUME NEW q \in Requests, Publication(q), NEW x \in reservation'
      PROVE  req'[x.id] \in BookingRequest
  <2>1. CASE x \in w[q].rows
    BY <1>2, <2>1 DEF RowsOfRequest, NewRow, Publication
  <2>2. ASSUME NEW r \in reservation, x = Canceled(r, w[q].cancels)
        PROVE  req'[x.id] \in BookingRequest
    <3>1. x.id = r.id
      BY <2>2, CanceledRow DEF TypeOK
    <3> QED BY <1>1, <3>1
  <2> QED BY <1>2, <2>1, <2>2 DEF Publication
<1> QED BY <1>1, <1>2, Shapes DEF Elsewhere, Moves, Arrival, Statement

\* Reservations that stay inside a day written in one zone add up to more than
\* MaxPerDay only through requests that overlapped.
THEOREM DayQuotaHolds == Spec => []DayQuotaUnlessRaced
<1>1. Init => DayQuota
  <2> SUFFICES ASSUME Init PROVE DayQuota
    OBVIOUS
  <2>1. IsFiniteSet(reservation)
    BY FS_EmptySet DEF Init
  <2>2. DayCounted
    BY DEF Init, DayCounted
  <2>3. \A u, z, d : OfDay(u, z, d) = {}
    BY DEF Init, OfDay
  <2>4. \A d \in Int : BookedOn({}, d) = 0
    BY FS_EmptySet, BookedSum
  <2>5. DayOfSubsets
    <3>1. MaxPerDay \in Nat
      BY RulesAssumption DEF RulesAssumption
    <3>2. ASSUME NEW u \in Users, NEW z \in Nat, NEW d \in Int,
                 NEW S \in SUBSET OfDay(u, z, d)
          PROVE  ~(BookedOn(S, d) > MaxPerDay)
      <4>1. S = {}
        BY <2>3
      <4>2. BookedOn(S, d) = 0
        BY <2>4, <4>1
      <4> QED BY <3>1, <4>2
    <3> QED BY <3>2 DEF DayOfSubsets
  <2> QED BY <2>1, <2>2, <2>5 DEF DayQuota, Init
<1>2. TypeOK /\ RowsOfRequest /\ RowsOfRequest' /\ TokenLedger /\ DayQuota /\ [Next]_vars
        => DayQuota'
  BY Evolution, FiniteStep, RowsAsAsked, DayCountedStep, DaySubsetsStep DEF DayQuota
<1>3. TypeOK /\ RowsOfRequest /\ DayQuota => DayQuotaUnlessRaced
  <2> SUFFICES ASSUME TypeOK, RowsOfRequest, DayQuota, NEW r \in reservation,
                      NEW z, z = req[r.id].zone, NEW d, d = DayStart(r.lo, z),
                      NEW S, S = WithinDay(r.user, d, z),
                      BookedInDay(S, r.user, d) > MaxPerDay
               PROVE  \E a, b \in S : Raced(a.id, b.id)
    BY Zenon DEF DayQuotaUnlessRaced
  <2>1. r.lo \in Nat /\ z \in Nat /\ r.user \in Users
    <3>1. req[r.id] \in BookingRequest
      BY DEF DayQuota
    <3> QED BY <3>1 DEF BookingRequest, TypeOK, Reservation
  <2>2. d \in Int /\ S = OfDay(r.user, z, d) /\ S \subseteq InDay(r.user, d)
    BY <2>1, OfDayWithin
  <2>3. {x \in S : /\ x.user = r.user /\ ActiveRow(x)
                   /\ Overlaps(x, [lo |-> d, hi |-> d + Day])} = S
    BY <2>2 DEF InDay
  <2>4. BookedInDay(S, r.user, d) = BookedOn(S, d)
    BY <2>3, Zenon DEF BookedInDay, BookedOn
  <2> QED BY <2>1, <2>2, <2>4 DEF DayQuota, DayOfSubsets
<1>4. Spec => []DayQuota
  BY <1>1, <1>2, TypeCorrect, RowsOfRequests, LedgerKept, PTL DEF Spec
<1> QED BY <1>3, <1>4, TypeCorrect, RowsOfRequests, PTL

=============================================================================
