CONSTANTS
    c1 = c1
    c2 = c2
    m1 = m1
    m2 = m2
    m3 = m3
    Contracts = {c1}
    Milestones = {m1, m2}
    ContractOf <- OneContract
    Requests = {r1, r2}
    Total <- OneTotal
    Fee = 1
    Amounts = {2}
    Elsewheres = {}
    Transactions = FALSE
    MaxApprovals = 1
    MaxFaults = 1
SPECIFICATION Spec
SYMMETRY OneContractSymmetry
INVARIANTS TypeOK AvailableIsCounted
PROPERTY KeepsAccount
CHECK_DEADLOCK FALSE
