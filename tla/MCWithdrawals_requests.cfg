CONSTANTS
    Freelancers = {f1}
    Withdrawals = {w1, w2}
    Admins = {a1}
    Keys = {k1}
    NoKey = NoKey
    Kinds = {"stripe", "linked", "bank"}
    Amounts = {1, 2}
    Funds = 3
    OpenLimit = 3
    FeeEdits = TRUE
    MaxTransfers = 2
    MaxFaults = 1
SPECIFICATION FairSpec
INVARIANTS TypeOK ProcessedIsTransferred ReservationAccounted KeyWithdrawsOnce
PROPERTIES KeepAccounts AutoSettles
CHECK_DEADLOCK FALSE
