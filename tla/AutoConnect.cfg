SPECIFICATION FairSpec
CONSTANTS
    Computers = {c1, c2}
    Urls = {u1, u2, u3}
    Known = {c1}
    Paired = {}
    None = None
INVARIANTS TypeOK TokenAccounted PairingBacked
PROPERTY FlowEnds
CHECK_DEADLOCK FALSE
