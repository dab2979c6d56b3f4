SPECIFICATION LifecycleSpec
CONSTANTS
    w1 = w1
    w2 = w2
    r1 = r1
    r2 = r2
    r3 = r3
    Senders = {w1, w2}
    Requests = {r1, r2, r3}
    Studios <- FewStudios
    LastRevision = 2
    SendAttempts = 2
SYMMETRY Symmetry
INVARIANTS
    JobsSafe
    ObsoleteNotSent
    RevisionCovered
CHECK_DEADLOCK FALSE
