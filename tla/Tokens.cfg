\* Tokens of one reservation: issued with an instant use, reissued, verified,
\* consumed and expiring, while the reservation is cancelled.
SPECIFICATION Spec
CONSTANTS
    Requests = {q1, q2, q3, q4, q5}
    Users    = {u1}
    Admins   = {}
    Hosts    = {h1}
    Kinds    = {"instant", "connect", "verify", "cancel"}
    Starts   = {}
    Zones    = {0}
    Reports  = {}
    Horizon  = 1
    Slot = 1  Day = 8  MaxDuration = 4  Lookahead = 4
    MaxConcurrent = 1  MaxPerDay = 6  InstantUse = 0  Grace = 1
INVARIANTS ReissueKillsOlder NoReplay ConsumedOnce NoTokenAfterCancel
SYMMETRY Symmetric
CHECK_DEADLOCK FALSE
