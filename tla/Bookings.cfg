\* Creations, instant uses and cancellations, statement by statement.
SPECIFICATION Spec
CONSTANTS
    Requests = {q1, q2, q3}
    Users    = {u1}
    Admins   = {}
    Hosts    = {h1, h2}
    Kinds    = {"create", "instant", "cancel"}
    Starts   = {2, 4}
    Zones    = {0}
    Reports  = {"IDLE"}
    Horizon  = 3
    Windows <- MCWindows
    Slot = 2  Day = 8  MaxDuration = 4  Lookahead = 4
    MaxConcurrent = 2  MaxPerDay = 6  InstantUse = 1  Grace = 1
INVARIANTS NoDoubleBooking ClaimsDisjoint RowsOfRequest QuotaUnlessRaced DayQuotaUnlessRaced MatrixShowsAll QueriesAgree OffersHold
PROPERTY ImplementsBooking
SYMMETRY Symmetric
CHECK_DEADLOCK FALSE
