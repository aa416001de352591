\* Three clicks on two hosts, dates and pages changed at any time.
SPECIFICATION Spec
CONSTANTS
    Hosts  = {h1, h2}
    Clicks = {c1, c2, c3}
INVARIANTS GhostsOnlyIfLeft 
SYMMETRY Symmetric
CHECK_DEADLOCK FALSE
