\* Two attempts to pair with one host; the order of the timeouts is that of the
\* defaults (15 s, 30 s and a budget of 32.5 s).
SPECIFICATION Spec
CONSTANTS
    Requests = {r1, r2}
    MaxAttempts = 2
    RequestTimeout = 1
    BackoffBase = 2
    ClientTimeout = 2
    HandshakeTimeout = 3
    None = None
INVARIANTS TypeOK RefusalTruthful SuccessTruthful 
SYMMETRY Symmetric
CHECK_DEADLOCK FALSE
