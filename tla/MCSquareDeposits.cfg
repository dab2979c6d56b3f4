CONSTANTS
    Appts = {a1, a2}
    Hooks = {h1, h2}
    Starts = {0}
    Durations = {2}
    Rows = {r1}
    Refusals = {"FAILED"}
SPECIFICATION Spec
SYMMETRY MCSymmetry
INVARIANTS
    SquareRowsApart
    SameStartOnce
    DepositsDecided
CHECK_DEADLOCK FALSE
