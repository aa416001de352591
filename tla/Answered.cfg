\* Every kind of request, an owner and an admin, hosts whose status changes on
\* its own: no request waits for ever.  No symmetry: the property is temporal.
SPECIFICATION FairSpec
CONSTANTS
    Requests = {q1, q2, q3}
    Users    = {u1, u2}
    Admins   = {u2}
    Hosts    = {h1}
    Kinds    = {"create", "instant", "connect", "verify", "cancel"}
    Starts   = {1}
    Zones    = {0}
    Reports  = {"IDLE"}
    Horizon  = 1
    Slot = 1  Day = 8  MaxDuration = 1  Lookahead = 4
    MaxConcurrent = 1  MaxPerDay = 6  InstantUse = 0  Grace = 1
INVARIANT TypeOK
 
CHECK_DEADLOCK FALSE
