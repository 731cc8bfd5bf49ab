CONSTANTS
    p1 = p1
    p2 = p2
    f1 = f1
    f2 = f2
    Freelancers = {f1, f2}
    Proposals = {p1, p2}
    OwnerOf <- TwoOwners
    Requests = {r1}
    Edits = {"open", "in-progress", "completed", "cancelled"}
    MaxRemovals = 0
    MaxFaults = 0
SPECIFICATION Spec
INVARIANT ReferenceExists
CHECK_DEADLOCK FALSE
