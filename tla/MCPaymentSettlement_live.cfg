CONSTANTS
    Payments = {p1}
    Webhooks = {w1}
    Crons = {c1}
    Users = {}
    MaxIntents = 1
    MaxFaults = 1
    MaxDeliveries = 3
    RetryLimit = 3
    ConflictRetries = 2
    BalanceRetries = 2
    TxModes = {TRUE, FALSE}
    Declines = FALSE
    BalanceErrors = FALSE
    MaxUpdates = 0
    LostCommits = TRUE
    Vanishing = {"contract", "freelancer"}
SPECIFICATION FairSpec
INVARIANT CreditsFollowSettlements
PROPERTY CollectedIsSettled
CHECK_DEADLOCK FALSE
