CONSTANTS
    Payments = {p1}
    Webhooks = {w1, w2}
    Crons = {}
    Users = {}
    MaxIntents = 1
    MaxFaults = 0
    MaxDeliveries = 3
    RetryLimit = 3
    ConflictRetries = 3
    BalanceRetries = 2
    TxModes = {TRUE}
    Declines = FALSE
    BalanceErrors = FALSE
    MaxUpdates = 0
    LostCommits = FALSE
    Vanishing = {}
SPECIFICATION Spec
SYMMETRY WebhookSymmetry
INVARIANT AtMostOnceCredit
CHECK_DEADLOCK FALSE
