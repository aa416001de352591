\* Two creations of one user at once.
SPECIFICATION Spec
CONSTANTS
    Requests = {q1, q2}
    Users    = {u1}
    Admins   = {}
    Hosts    = {h1, h2}
    Kinds    = {"create"}
    Starts   = {2}
    Zones    = {0}
    Reports  = {}
    Horizon  = 1
    Slot = 2  Day = 8  MaxDuration = 4  Lookahead = 14
    MaxConcurrent = 1  MaxPerDay = 4  InstantUse = 0  Grace = 1
INVARIANT ConcurrentQuota
SYMMETRY Symmetric
CHECK_DEADLOCK FALSE
