CONSTANTS
    w1 = w1
    w2 = w2
    Workers = {w1, w2}
    Staff = {s1}
    MaxVersion = 2
    MaxAttempts = 2
    MaxRequests = 1
SPECIFICATION FocusSpec
INVARIANTS
    NeverSentTwice
    QueueSafe
PROPERTIES
    InOrderUnlessOverrun
    ImplementsContract
    JobSettles
CHECK_DEADLOCK FALSE
