\* A reservation across midnight after one of the next day.
SPECIFICATION Spec
CONSTANTS
    Requests = {q1, q2}
    Users    = {u1}
    Admins   = {}
    Hosts    = {h1}
    Kinds    = {"create"}
    Starts   = {6, 10}
    Zones    = {0}
    Reports  = {}
    Horizon  = 1
    Slot = 2  Day = 8  MaxDuration = 4  Lookahead = 14
    MaxConcurrent = 2  MaxPerDay = 4  InstantUse = 0  Grace = 1
INVARIANT DailyQuota
SYMMETRY Symmetric
CHECK_DEADLOCK FALSE
