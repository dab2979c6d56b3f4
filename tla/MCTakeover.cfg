CONSTANTS
    Staff = {s1, s2}
    MaxVersion = 1
    MaxRequests = 2
SPECIFICATION ControlFairSpec
PROPERTIES
    TakeoverHolds
CHECK_DEADLOCK FALSE
