CONSTANTS
    c1 = c1
    c2 = c2
    m1 = m1
    m2 = m2
    m3 = m3
    Contracts = {c1}
    Milestones = {m1, m2}
    ContractOf <- OneContract
    Requests = {r1}
    Total <- OneTotal
    Fee = 1
    Amounts <- SmallAmounts
    Elsewheres = {}
    Transactions = TRUE
    MaxApprovals = 4
    MaxFaults = 0
SPECIFICATION Spec
INVARIANT RefundedIsNotReleased
CHECK_DEADLOCK FALSE
