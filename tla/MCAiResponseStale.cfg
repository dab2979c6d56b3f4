CONSTANTS
    Workers = {w1}
    Staff = {s1}
    MaxVersion = 2
    MaxAttempts = 2
    MaxRequests = 0
SPECIFICATION Spec
INVARIANTS
    ReplyMatchesVersion
CHECK_DEADLOCK FALSE
