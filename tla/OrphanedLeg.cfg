SPECIFICATION Spec
CONSTANTS
    Computers = {c1, c2}
    Urls = {u1, u2, u3}
    Known = {c1}
    Paired = {}
    None = None
INVARIANT EndedByItsOwnLeg
CHECK_DEADLOCK FALSE
