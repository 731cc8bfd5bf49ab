CONSTANTS
    Payments = {p1}
    Webhooks = {}
    Crons = {c1}
    Users = {u1}
    MaxIntents = 2
    MaxFaults = 2
    MaxDeliveries = 0
    RetryLimit = 1
    ConflictRetries = 1
    BalanceRetries = 2
    TxModes = {TRUE}
    Declines = TRUE
    BalanceErrors = TRUE
    MaxUpdates = 1
    LostCommits = TRUE
    Vanishing = {"freelancer", "job"}
SPECIFICATION Spec
INVARIANTS OnlyCollectedIsCompleted CompletedUpdateIsPaid CompletedIsFunded OpenTransactionOwnsPayment
CHECK_DEADLOCK FALSE
