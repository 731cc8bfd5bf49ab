CONSTANTS
    c1 = c1
    c2 = c2
    m1 = m1
    m2 = m2
    m3 = m3
    Contracts = {c1, c2}
    Milestones = {m1, m2, m3}
    ContractOf <- TwoContracts
    Requests = {r1}
    Total <- TwoTotals
    Fee = 1
    Amounts = {1}
    Elsewheres = {"disputed"}
    Transactions = TRUE
    MaxApprovals = 4
    MaxFaults = 0
SPECIFICATION Spec
INVARIANTS ReleasedOnce ReleasedWithinTotal CountersMatch CompletedIsApproved
