CONSTANTS
    Attempts = {p1, p2}
    Requests = {c1}
    Price = 3
    Deposit = 1
    Tips = {0}
    Refunders = {"studio", "dashboard"}
SPECIFICATION Spec
INVARIANTS
    RefundsKnown
CHECK_DEADLOCK FALSE
