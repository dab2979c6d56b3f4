CONSTANTS
    Appts = {a1, a2}
    Starts = {0, 1}
    Durations = {1}
    Extras = {0, 1}
    MaxLength = 2
    OpeningHours <- MCOpeningHours
    TimeOffs <- MCTimeOffs
    Providers = {"STRIPE"}
    ConnectEnabled = TRUE
    MaxRevision = 2
SPECIFICATION ModesSpec
SYMMETRY ApptSymmetry
INVARIANTS
    BlocksApart
    

    
CHECK_DEADLOCK FALSE
