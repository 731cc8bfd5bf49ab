SPECIFICATION Spec
CONSTANTS
  Ids = {1, 2}
  EmailOf <- MCEmailOf
  RoleOf <- MCRoleOf
  Mailed = {"a@x"}
  Calls <- MCCalls
  Founders = {{1, 2}, {2}}
  Watched = {1}
  MaxCodes = 1
  MaxAttempts = 3
  Profiles = {p1, p2}
  Slots = {s1, s2}
  Nothing = Nothing
CONSTRAINT OneSubject
SYMMETRY MCSymmetry
INVARIANTS TypeOK CodesHold OnlyTheOwner CacheAgrees RequestsMeetTheirRoute
PROPERTIES OutUntilReadmitted
CHECK_DEADLOCK FALSE
