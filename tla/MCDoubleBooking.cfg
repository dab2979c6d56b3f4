CONSTANTS
    Appts = {a1, a2}
    Starts = {0, 1}
    Durations = {1}
    Extras = {0, 1}
    MaxLength = 2
    OpeningHours <- MCOneDay
    TimeOffs <- MCNoTimeOffs
    Providers = {"STRIPE"}
    ConnectEnabled = TRUE
    MaxRevision = 0
SPECIFICATION Spec
INVARIANTS
    NoDoubleBooking
CHECK_DEADLOCK FALSE
