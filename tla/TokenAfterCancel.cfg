\* A token of a reservation that was cancelled.
SPECIFICATION Spec
CONSTANTS
    Requests = {q1, q2, q3}
    Users    = {u1}
    Admins   = {}
    Hosts    = {h1}
    Kinds    = {"instant", "cancel", "verify"}
    Starts   = {}
    Zones    = {0}
    Reports  = {}
    Horizon  = 1
    Slot = 2  Day = 8  MaxDuration = 4  Lookahead = 14
    MaxConcurrent = 1  MaxPerDay = 4  InstantUse = 0  Grace = 1
INVARIANT NoVerifyAfterCancel
SYMMETRY Symmetric
CHECK_DEADLOCK FALSE
