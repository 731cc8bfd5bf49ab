CONSTANTS
    Payments = {p1}
    Webhooks = {w1}
    Crons = {}
    Users = {}
    MaxIntents = 1
    MaxFaults = 3
    MaxDeliveries = 6
    RetryLimit = 3
    ConflictRetries = 3
    BalanceRetries = 2
    TxModes = {TRUE}
    Declines = TRUE
    BalanceErrors = FALSE
    MaxUpdates = 0
    LostCommits = FALSE
    Vanishing = {"contract", "freelancer", "job"}
SPECIFICATION Spec
INVARIANTS TypeOK AtMostOnceCredit
PROPERTY CompletedEventIsFinal
CHECK_DEADLOCK FALSE
