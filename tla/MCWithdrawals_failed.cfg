CONSTANTS
    Freelancers = {f1}
    Withdrawals = {w1}
    Admins = {a1}
    Keys = {}
    NoKey = NoKey
    Kinds = {"bank"}
    Amounts = {1}
    Funds = 1
    OpenLimit = 3
    FeeEdits = FALSE
    MaxTransfers = 2
    MaxFaults = 0
SPECIFICATION Spec
INVARIANT FailedIsRefunded
CHECK_DEADLOCK FALSE
