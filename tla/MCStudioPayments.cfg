CONSTANTS
    p1 = p1
    p2 = p2
    p3 = p3
    c2 = c2
    Attempts = {p1, p2, p3}
    Requests = {c1, c2}
    Price = 3
    Deposit = 1
    Tips = {0, 1}
    Refunders = {"studio", "dashboard"}
SPECIFICATION FocusSpec
INVARIANTS
    OneOpenCollection
    LedgerAgrees
PROPERTIES
    ImplementsContract
    RefundsStand
    PaidIsRecorded
CHECK_DEADLOCK FALSE
