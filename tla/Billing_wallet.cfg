SPECIFICATION FairSpec
CONSTANTS
    o1 = o1
    c1 = c1
    w1 = w1
    w2 = w2
    NoOne = NoOne
    Orders = {o1}
    Creators = {c1}
    Workers = {w1, w2}
    Amount <- MCAmount
    Price = 1
    Period = 2
    Grace = 1
    Denials = {}
    Reports = {"finished", "refunded"}
    MaxNow = 3
    MaxCrashes = 1
INVARIANTS TypeOK WalletFollowsOrders TimeIsSoldOnce
PROPERTIES OrdersMoveForward CancelHolds KeepsLedger PaidArrives
CHECK_DEADLOCK FALSE
