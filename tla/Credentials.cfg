\* Logins, logouts, registrations, rotations and heartbeats of two persons.
SPECIFICATION Spec
CONSTANTS
    Requests = {q1, q2, q3}
    Seed = seed
    People = {alice, bob}
    Root = alice
    Hostnames = {pc1, pc2}
    FirstName = pc1
    Secrets = {k1, k2}
    Kinds = {"login", "logout", "me", "create", "rotate", "sunshine", "heartbeat"}
    Adjustments <- MCAdjustments
INVARIANTS TypeOK OneAccount LogoutFinal SessionsRecorded StandingKept RotatedOutRefused NeverLockedOut NamesUnique SecretOfLast
SYMMETRY Symmetric
CHECK_DEADLOCK FALSE
