CONSTANTS
    p1 = p1
    p2 = p2
    f1 = f1
    f2 = f2
    ann = ann
    bob = bob
    t1 = t1
    Freelancers = {f1, f2}
    Proposals = {p1, p2}
    OwnerOf <- TwoOwners
    Requests = {r1, r2}
    Edits = {"open", "in-progress", "completed", "cancelled"}
    MaxRemovals = 0
    MaxFaults = 1
    None = None
    Users = {ann, bob, root}
    Admins = {root}
    Topics = {t1}
    ClientOf <- AnnIsClient
    FreelancerOf <- BobIsFreelancer
    Slots = {r1, r2}
    Sockets = {s1, s2, s3}
    MaxErrors = 1
    Conversations = {c1, c2}
    Messages = {m1, m2}
    Notices = {n1, n2}
    Items = {i1, i2}
    MaxEdits = 2
    MaxCredits = 1
    Contracts = {k1}
    DisputeIds = {d1, d2}
SPECIFICATION MarketplaceSpec
SYMMETRY RequestSymmetry
INVARIANTS TypeOK OneCreator ContractedJobIsClaimed DeletedIsNotContracted
INVARIANTS ServicesTypeOK DisputedIsContested CountersHold OnlineIsConnected EntriesAreConnected NothingMissed ItemsAccounted
PROPERTY ContractIsForSelected
CHECK_DEADLOCK FALSE
