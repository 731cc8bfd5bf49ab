--------------------------- MODULE AccountsProofs ---------------------------
(***************************************************************************)
(* Proofs about accounts, one-time codes, sessions and cached profiles,    *)
(* for any number of accounts, codes and requests in flight.               *)
(***************************************************************************)
EXTENDS Accounts, SequenceTheorems, WellFoundedInduction, TLAPS

(***************************************************************************)
(* Routes.  OutUntilReadmitted and RequestsMeetTheirRoute rest on the      *)
(* tables: the handlers that change an account are behind the guard that   *)
(* reads the token, the one that activates accounts behind the guard that  *)
(* reads the role, and a route that takes the requests of another asks for *)
(* what that one asks for.  For the latter each controller follows a rule, *)
(* which tells from the verb and the path of a route whether it is public  *)
(* and which roles it names.                                               *)
(***************************************************************************)
SignedIn == {"change-password", "profile", "logout", "me"}

AuthRule(r) ==
  /\ Len(r.path) = 1 /\ r.path[1] # Param /\ r.roles = {}
  /\ \/ r.public /\ r.path[1] \notin SignedIn
     \/ ~r.public /\ r.path[1] \in SignedIn

UsersRule(r) ==
  LET n == Len(r.path) IN
  /\ ~r.public
  /\ \/ r.roles = {} /\ r.verb # "GET" /\ n = 0
     \/ /\ r.roles = {} /\ n > 0 /\ r.path[1] \notin {Param, "stripe-account"}
        /\ r.verb = "PUT" /\ n = 2 => r.path[2] \notin {Param, "status"}
     \/ r.roles = {"admin"} /\ r.verb = "GET" /\ n = 0
     \/ r.roles = {"admin"} /\ r.verb = "PUT" /\ n = 2 /\ r.path[2] = "status"
     \/ r.roles = {"freelancer"} /\ r.verb # "PUT" /\ n > 0 /\ r.path[1] = "stripe-account"
     \/ /\ r.roles = Roles /\ r.handler = "users.getUserById"
        /\ r.verb = "GET" /\ n = 1

JobsRule(r) ==
  /\ r.roles = {}
  /\ \/ r.public /\ r.verb = "GET" /\ Len(r.path) = 0
     \/ r.public /\ r.verb = "GET" /\ r.path[1] \in {"featured", "recent", "categories"}
     \/ ~r.public /\ r.verb # "GET"
     \/ ~r.public /\ Len(r.path) > 0 /\ r.path[1] \notin {"featured", "recent", "categories"}

ProposalsRule(r) ==
  /\ ~r.public
  /\ \/ r.verb = "POST" /\ r.roles = {"freelancer"}
     \/ r.verb # "POST" /\ r.roles = {}

CatalogueRule(r) ==
  \/ r.verb = "GET" /\ r.public /\ r.roles = {}
  \/ r.verb # "GET" /\ ~r.public /\ r.roles = {"admin"}

ContractsRule(r) ==
  LET n == Len(r.path) IN
  /\ ~r.public /\ (r.verb = "POST" /\ n = 2 => r.path[2] # Param)
  /\ \/ r.verb # "POST" /\ r.roles = {}
     \/ r.verb = "POST" /\ n = 2 /\ r.path[2] = "sign" /\ r.roles = {"freelancer"}
     \/ r.verb = "POST" /\ ~(n = 2 /\ r.path[2] = "sign") /\ r.roles = {"client"}

\* Lists and single transactions are the admin's, but for the recent ones; what
\* concerns one user is for all roles.
PaymentsRule(r) ==
  LET n == Len(r.path) IN
  \/ r.public /\ r.roles = {} /\ r.verb = "POST" /\ n = 1 /\ r.path[1] = "webhook"
  \/ /\ ~r.public /\ r.roles = {"client", "freelancer"} /\ r.verb = "POST"
     /\ n = 0 \/ (n = 1 /\ r.path[1] = "create-intent")
  \/ ~r.public /\ r.roles = {"admin"} /\ r.verb = "POST" /\ n = 2
  \/ ~r.public /\ r.roles = {"admin"} /\ r.verb \notin {"GET", "POST"}
  \/ /\ ~r.public /\ r.roles = {"admin"} /\ r.verb = "GET" /\ r.path[1] = "transactions"
     /\ \/ n = 2 /\ r.path[2] # "recent"
        \/ n = 3 /\ r.path[2] = "by-transaction-id" /\ r.path[3] = Param
  \/ /\ ~r.public /\ r.roles = Roles /\ r.verb = "GET"
     /\ n = 2 => r.path[1] \notin {Param, "transactions"} \/ r.path[2] = "recent"
     /\ n = 3 => /\ r.path[1] # Param
                 /\ r.path[1] = "transactions" =>
                      r.path[2] # "by-transaction-id" /\ (r.path[2] = Param => r.path[3] # Param)

DashboardRule(r) ==
  /\ ~r.public
  /\ \/ Len(r.path) = 1 /\ r.path[1] # Param /\ r.roles = {r.path[1]}
     \/ Len(r.path) # 1 /\ r.roles = {"client", "freelancer"}

ReviewsRule(r) ==
  /\ ~r.public
  /\ \/ r.verb = "DELETE" /\ r.roles = {"admin"}
     \/ r.verb # "DELETE" /\ r.roles = {}

WithdrawalsRule(r) ==
  /\ ~r.public
  /\ \/ r.verb = "POST" /\ r.roles = {"freelancer"}
     \/ r.verb = "GET" /\ r.roles = {"admin", "freelancer"}
     \/ r.verb \notin {"GET", "POST"} /\ r.roles = {"admin"}

DisputesRule(r) ==
  LET n == Len(r.path) IN
  /\ ~r.public
  /\ \/ r.roles = {"admin"} /\ n = 2 /\ r.verb = "GET"
     \/ r.roles = {"admin"} /\ n = 2 /\ r.verb = "POST" /\ r.path[2] = "resolve"
     \/ r.roles = {} /\ n = 2 /\ r.verb = "POST" /\ r.path[2] \notin {Param, "resolve"}
     \/ r.roles = {} /\ n = 2 /\ r.verb \notin {"GET", "POST"}
     \/ r.roles = {} /\ n # 2

Rule(prefix, r) ==
  CASE prefix = "auth" -> AuthRule(r)
    [] prefix = "users" -> UsersRule(r)
    [] prefix = "jobs" -> JobsRule(r)
    [] prefix = "proposals" -> ProposalsRule(r)
    [] prefix \in {"skills", "categories"} -> CatalogueRule(r)
    [] prefix = "contracts" -> ContractsRule(r)
    [] prefix = "payments" -> PaymentsRule(r)
    [] prefix = "dashboard" -> DashboardRule(r)
    [] prefix = "reviews" -> ReviewsRule(r)
    [] prefix = "withdrawals" -> WithdrawalsRule(r)
    [] prefix = "disputes" -> DisputesRule(r)
    [] OTHER -> ~r.public /\ r.roles = {}

IsTable(routes) == Len(routes) \in Nat /\ routes = [i \in 1..Len(routes) |-> routes[i]]

Fields == {"verb", "path", "handler", "public", "guards", "roles"}

IsRoute(r) == Fields \subseteq DOMAIN r

\* A route that is sound under the prefix, the guards and the roles of its controller.
Sound(r, prefix, guards, roles) ==
  /\ IsRoute(r) /\ IsTable(r.path)
  /\ r.handler \in Handlers => ~r.public
  /\ r.handler = "admin.activateUser" =>
       "roles" \in guards \union r.guards /\ (IF r.roles = {} THEN roles ELSE r.roles) = {"admin"}
  /\ r.handler = "users.getUserById" => prefix = "users"
  /\ ~r.public => "jwt" \in guards \union r.guards
  /\ r.roles # {} => "roles" \in guards \union r.guards
  /\ roles # {} => "roles" \in guards
  /\ Rule(prefix, r)

Table(routes, prefix, guards, roles) ==
  IsTable(routes) /\ \A i \in 1..Len(routes) : Sound(routes[i], prefix, guards, roles)

LEMMA Written ==
  /\ \A verb, path, handler :
       LET r == Route(verb, path, handler) IN
       /\ IsRoute(r) /\ r.verb = verb /\ r.path = path /\ r.handler = handler
       /\ ~r.public /\ r.guards = {} /\ r.roles = {}
  /\ \A r : IsRoute(r) =>
       LET q == Public(r) IN
       /\ IsRoute(q) /\ q.verb = r.verb /\ q.path = r.path /\ q.handler = r.handler
       /\ q.public /\ q.guards = r.guards /\ q.roles = r.roles
  /\ \A roles, r : IsRoute(r) =>
       LET q == For(roles, r) IN
       /\ IsRoute(q) /\ q.verb = r.verb /\ q.path = r.path /\ q.handler = r.handler
       /\ q.public = r.public /\ q.guards = r.guards /\ q.roles = roles
  /\ \A guards, r : IsRoute(r) =>
       LET q == Guarded(guards, r) IN
       /\ IsRoute(q) /\ q.verb = r.verb /\ q.path = r.path /\ q.handler = r.handler
       /\ q.public = r.public /\ q.guards = guards /\ q.roles = r.roles
<1>1. \A verb, path, handler :
        LET r == Route(verb, path, handler) IN
        /\ IsRoute(r) /\ r.verb = verb /\ r.path = path /\ r.handler = handler
        /\ ~r.public /\ r.guards = {} /\ r.roles = {}
  BY DEF Route, IsRoute, Fields
<1>2. \A r : IsRoute(r) =>
        LET q == Public(r) IN
        /\ IsRoute(q) /\ q.verb = r.verb /\ q.path = r.path /\ q.handler = r.handler
        /\ q.public /\ q.guards = r.guards /\ q.roles = r.roles
  BY DEF Public, IsRoute, Fields
<1>3. \A roles, r : IsRoute(r) =>
        LET q == For(roles, r) IN
        /\ IsRoute(q) /\ q.verb = r.verb /\ q.path = r.path /\ q.handler = r.handler
        /\ q.public = r.public /\ q.guards = r.guards /\ q.roles = roles
  BY DEF For, IsRoute, Fields
<1>4. \A guards, r : IsRoute(r) =>
        LET q == Guarded(guards, r) IN
        /\ IsRoute(q) /\ q.verb = r.verb /\ q.path = r.path /\ q.handler = r.handler
        /\ q.public = r.public /\ q.guards = guards /\ q.roles = r.roles
  BY DEF Guarded, IsRoute, Fields
<1> QED
  BY <1>1, <1>2, <1>3, <1>4

LEMMA ShortPaths ==
  /\ IsTable(<<>>)
  /\ \A a : IsTable(<<a>>)
  /\ \A a, b : IsTable(<<a, b>>)
  /\ \A a, b, c : IsTable(<<a, b, c>>)
  /\ \A a, b, c, d : IsTable(<<a, b, c, d>>)
BY DEF IsTable

USE DEF Sound, Rule, Get, Post, Put, Patch, Delete, Param, Roles,
   Handlers, OwnHandlers, TargetHandlers, FreelancerEdits

LEMMA RegistrationRoutesSound == Table(RegistrationRoutes, "auth", {}, {})
<1>1. IsTable(RegistrationRoutes) /\ Len(RegistrationRoutes) = 6
  BY DEF RegistrationRoutes, IsTable
<1>2. \A i \in 1..6 : Sound(RegistrationRoutes[i], "auth", {}, {})
  BY Written, ShortPaths DEF RegistrationRoutes, AuthRule, SignedIn
<1> HIDE DEF Sound
<1> QED
  BY <1>1, <1>2 DEF Table

LEMMA PasswordRoutesSound == Table(PasswordRoutes, "auth", {}, {})
<1>1. IsTable(PasswordRoutes) /\ Len(PasswordRoutes) = 6
  BY DEF PasswordRoutes, IsTable
<1>2. Sound(PasswordRoutes[1], "auth", {}, {})
  BY Written, ShortPaths DEF PasswordRoutes, AuthRule, SignedIn
<1>3. Sound(PasswordRoutes[2], "auth", {}, {})
  BY Written, ShortPaths DEF PasswordRoutes, AuthRule, SignedIn
<1>4. Sound(PasswordRoutes[3], "auth", {}, {})
  BY Written, ShortPaths DEF PasswordRoutes, AuthRule, SignedIn
<1>5. Sound(PasswordRoutes[4], "auth", {}, {})
  BY Written, ShortPaths DEF PasswordRoutes, AuthRule, SignedIn
<1>6. Sound(PasswordRoutes[5], "auth", {}, {})
  BY Written, ShortPaths DEF PasswordRoutes, AuthRule, SignedIn
<1>7. Sound(PasswordRoutes[6], "auth", {}, {})
  BY Written, ShortPaths DEF PasswordRoutes, AuthRule, SignedIn
<1> HIDE DEF Sound
<1> QED
  BY <1>1, <1>2, <1>3, <1>4, <1>5, <1>6, <1>7 DEF Table

LEMMA SessionRoutesSound == Table(SessionRoutes, "auth", {}, {})
<1>1. IsTable(SessionRoutes) /\ Len(SessionRoutes) = 3
  BY DEF SessionRoutes, IsTable
<1>2. \A i \in 1..3 : Sound(SessionRoutes[i], "auth", {}, {})
  BY Written, ShortPaths DEF SessionRoutes, AuthRule, SignedIn
<1> HIDE DEF Sound
<1> QED
  BY <1>1, <1>2 DEF Table

LEMMA OwnAccountRoutesSound == Table(OwnAccountRoutes, "users", {"jwt"}, {})
<1>1. IsTable(OwnAccountRoutes) /\ Len(OwnAccountRoutes) = 7
  BY DEF OwnAccountRoutes, IsTable
<1>2. UsersRule(OwnAccountRoutes[1])
  BY Written, ShortPaths DEF OwnAccountRoutes, UsersRule
<1>3. Sound(OwnAccountRoutes[1], "users", {"jwt"}, {})
  BY <1>2, Written, ShortPaths DEF OwnAccountRoutes
<1>4. UsersRule(OwnAccountRoutes[2])
  BY Written, ShortPaths DEF OwnAccountRoutes, UsersRule
<1>5. Sound(OwnAccountRoutes[2], "users", {"jwt"}, {})
  BY <1>4, Written, ShortPaths DEF OwnAccountRoutes
<1>6. UsersRule(OwnAccountRoutes[3])
  BY Written, ShortPaths DEF OwnAccountRoutes, UsersRule
<1>7. Sound(OwnAccountRoutes[3], "users", {"jwt"}, {})
  BY <1>6, Written, ShortPaths DEF OwnAccountRoutes
<1>8. UsersRule(OwnAccountRoutes[4])
  BY Written, ShortPaths DEF OwnAccountRoutes, UsersRule
<1>9. Sound(OwnAccountRoutes[4], "users", {"jwt"}, {})
  BY <1>8, Written, ShortPaths DEF OwnAccountRoutes
<1>10. UsersRule(OwnAccountRoutes[5])
  BY Written, ShortPaths DEF OwnAccountRoutes, UsersRule
<1>11. Sound(OwnAccountRoutes[5], "users", {"jwt"}, {})
  BY <1>10, Written, ShortPaths DEF OwnAccountRoutes
<1>12. UsersRule(OwnAccountRoutes[6])
  BY Written, ShortPaths DEF OwnAccountRoutes, UsersRule
<1>13. Sound(OwnAccountRoutes[6], "users", {"jwt"}, {})
  BY <1>12, Written, ShortPaths DEF OwnAccountRoutes
<1>14. UsersRule(OwnAccountRoutes[7])
  BY Written, ShortPaths DEF OwnAccountRoutes, UsersRule
<1>15. Sound(OwnAccountRoutes[7], "users", {"jwt"}, {})
  BY <1>14, Written, ShortPaths DEF OwnAccountRoutes
<1> HIDE DEF Sound
<1> QED
  BY <1>1, <1>2, <1>3, <1>4, <1>5, <1>6, <1>7, <1>8, <1>9, <1>10, <1>11, <1>12, <1>13, <1>14, <1>15 DEF Table

LEMMA DirectoryRoutesSound == Table(DirectoryRoutes, "users", {"jwt"}, {})
<1>1. IsTable(DirectoryRoutes) /\ Len(DirectoryRoutes) = 5
  BY DEF DirectoryRoutes, IsTable
<1>2. Sound(DirectoryRoutes[1], "users", {"jwt"}, {})
  BY Written, ShortPaths DEF DirectoryRoutes, UsersRule
<1>3. Sound(DirectoryRoutes[2], "users", {"jwt"}, {})
  BY Written, ShortPaths DEF DirectoryRoutes, UsersRule
<1>4. Sound(DirectoryRoutes[3], "users", {"jwt"}, {})
  BY Written, ShortPaths DEF DirectoryRoutes, UsersRule
<1>5. Sound(DirectoryRoutes[4], "users", {"jwt"}, {})
  BY Written, ShortPaths DEF DirectoryRoutes, UsersRule
<1>6. Sound(DirectoryRoutes[5], "users", {"jwt"}, {})
  BY Written, ShortPaths DEF DirectoryRoutes, UsersRule
<1> HIDE DEF Sound
<1> QED
  BY <1>1, <1>2, <1>3, <1>4, <1>5, <1>6 DEF Table

LEMMA AvatarAndSkillRoutesSound == Table(AvatarAndSkillRoutes, "users", {"jwt"}, {})
<1>1. IsTable(AvatarAndSkillRoutes) /\ Len(AvatarAndSkillRoutes) = 5
  BY DEF AvatarAndSkillRoutes, IsTable
<1>2. \A i \in 1..5 : Sound(AvatarAndSkillRoutes[i], "users", {"jwt"}, {})
  BY Written, ShortPaths DEF AvatarAndSkillRoutes, UsersRule
<1> HIDE DEF Sound
<1> QED
  BY <1>1, <1>2 DEF Table

LEMMA PortfolioRoutesSound == Table(PortfolioRoutes, "users", {"jwt"}, {})
<1>1. IsTable(PortfolioRoutes) /\ Len(PortfolioRoutes) = 5
  BY DEF PortfolioRoutes, IsTable
<1>2. \A i \in 1..5 : Sound(PortfolioRoutes[i], "users", {"jwt"}, {})
  BY Written, ShortPaths DEF PortfolioRoutes, UsersRule
<1> HIDE DEF Sound
<1> QED
  BY <1>1, <1>2 DEF Table

LEMMA CertificationRoutesSound == Table(CertificationRoutes, "users", {"jwt"}, {})
<1>1. IsTable(CertificationRoutes) /\ Len(CertificationRoutes) = 5
  BY DEF CertificationRoutes, IsTable
<1>2. \A i \in 1..5 : Sound(CertificationRoutes[i], "users", {"jwt"}, {})
  BY Written, ShortPaths DEF CertificationRoutes, UsersRule
<1> HIDE DEF Sound
<1> QED
  BY <1>1, <1>2 DEF Table

LEMMA SettingsRoutesSound == Table(SettingsRoutes, "users", {"jwt"}, {})
<1>1. IsTable(SettingsRoutes) /\ Len(SettingsRoutes) = 6
  BY DEF SettingsRoutes, IsTable
<1>2. Sound(SettingsRoutes[1], "users", {"jwt"}, {})
  BY Written, ShortPaths DEF SettingsRoutes, UsersRule
<1>3. Sound(SettingsRoutes[2], "users", {"jwt"}, {})
  BY Written, ShortPaths DEF SettingsRoutes, UsersRule
<1>4. Sound(SettingsRoutes[3], "users", {"jwt"}, {})
  BY Written, ShortPaths DEF SettingsRoutes, UsersRule
<1>5. Sound(SettingsRoutes[4], "users", {"jwt"}, {})
  BY Written, ShortPaths DEF SettingsRoutes, UsersRule
<1>6. Sound(SettingsRoutes[5], "users", {"jwt"}, {})
  BY Written, ShortPaths DEF SettingsRoutes, UsersRule
<1>7. Sound(SettingsRoutes[6], "users", {"jwt"}, {})
  BY Written, ShortPaths DEF SettingsRoutes, UsersRule
<1> HIDE DEF Sound
<1> QED
  BY <1>1, <1>2, <1>3, <1>4, <1>5, <1>6, <1>7 DEF Table

LEMMA JobListingRoutesSound == Table(JobListingRoutes, "jobs", {"jwt"}, {})
<1>1. IsTable(JobListingRoutes) /\ Len(JobListingRoutes) = 6
  BY DEF JobListingRoutes, IsTable
<1>2. Sound(JobListingRoutes[1], "jobs", {"jwt"}, {})
  BY Written, ShortPaths DEF JobListingRoutes, JobsRule
<1>3. Sound(JobListingRoutes[2], "jobs", {"jwt"}, {})
  BY Written, ShortPaths DEF JobListingRoutes, JobsRule
<1>4. Sound(JobListingRoutes[3], "jobs", {"jwt"}, {})
  BY Written, ShortPaths DEF JobListingRoutes, JobsRule
<1>5. Sound(JobListingRoutes[4], "jobs", {"jwt"}, {})
  BY Written, ShortPaths DEF JobListingRoutes, JobsRule
<1>6. Sound(JobListingRoutes[5], "jobs", {"jwt"}, {})
  BY Written, ShortPaths DEF JobListingRoutes, JobsRule
<1>7. Sound(JobListingRoutes[6], "jobs", {"jwt"}, {})
  BY Written, ShortPaths DEF JobListingRoutes, JobsRule
<1> HIDE DEF Sound
<1> QED
  BY <1>1, <1>2, <1>3, <1>4, <1>5, <1>6, <1>7 DEF Table

LEMMA JobOwnerRoutesSound == Table(JobOwnerRoutes, "jobs", {"jwt"}, {})
<1>1. IsTable(JobOwnerRoutes) /\ Len(JobOwnerRoutes) = 5
  BY DEF JobOwnerRoutes, IsTable
<1>2. \A i \in 1..5 : Sound(JobOwnerRoutes[i], "jobs", {"jwt"}, {})
  BY Written, ShortPaths DEF JobOwnerRoutes, JobsRule
<1> HIDE DEF Sound
<1> QED
  BY <1>1, <1>2 DEF Table

LEMMA JobReaderRoutesSound == Table(JobReaderRoutes, "jobs", {"jwt"}, {})
<1>1. IsTable(JobReaderRoutes) /\ Len(JobReaderRoutes) = 6
  BY DEF JobReaderRoutes, IsTable
<1>2. \A i \in 1..6 : Sound(JobReaderRoutes[i], "jobs", {"jwt"}, {})
  BY Written, ShortPaths DEF JobReaderRoutes, JobsRule
<1> HIDE DEF Sound
<1> QED
  BY <1>1, <1>2 DEF Table

LEMMA ProposalRoutesSound == Table(ProposalRoutes, "proposals", {"jwt", "roles"}, {})
<1>1. IsTable(ProposalRoutes) /\ Len(ProposalRoutes) = 6
  BY DEF ProposalRoutes, IsTable
<1>2. \A i \in 1..6 : Sound(ProposalRoutes[i], "proposals", {"jwt", "roles"}, {})
  BY Written, ShortPaths DEF ProposalRoutes, ProposalsRule
<1> HIDE DEF Sound
<1> QED
  BY <1>1, <1>2 DEF Table

LEMMA ProposalAnswerRoutesSound == Table(ProposalAnswerRoutes, "proposals", {"jwt", "roles"}, {})
<1>1. IsTable(ProposalAnswerRoutes) /\ Len(ProposalAnswerRoutes) = 2
  BY DEF ProposalAnswerRoutes, IsTable
<1>2. \A i \in 1..2 : Sound(ProposalAnswerRoutes[i], "proposals", {"jwt", "roles"}, {})
  BY Written, ShortPaths DEF ProposalAnswerRoutes, ProposalsRule
<1> HIDE DEF Sound
<1> QED
  BY <1>1, <1>2 DEF Table

LEMMA SkillListingRoutesSound == Table(SkillListingRoutes, "skills", {}, {})
<1>1. IsTable(SkillListingRoutes) /\ Len(SkillListingRoutes) = 6
  BY DEF SkillListingRoutes, IsTable
<1>2. \A i \in 1..3 : Sound(SkillListingRoutes[i], "skills", {}, {})
  BY Written, ShortPaths DEF SkillListingRoutes, CatalogueRule
<1>3. \A i \in 4..6 : Sound(SkillListingRoutes[i], "skills", {}, {})
  BY Written, ShortPaths DEF SkillListingRoutes, CatalogueRule
<1> HIDE DEF Sound
<1> QED
  BY <1>1, <1>2, <1>3 DEF Table

LEMMA SkillRoutesSound == Table(SkillRoutes, "skills", {}, {})
<1>1. IsTable(SkillRoutes) /\ Len(SkillRoutes) = 4
  BY DEF SkillRoutes, IsTable
<1>2. \A i \in 1..2 : Sound(SkillRoutes[i], "skills", {}, {})
  BY Written, ShortPaths DEF SkillRoutes, CatalogueRule
<1>3. \A i \in 3..4 : Sound(SkillRoutes[i], "skills", {}, {})
  BY Written, ShortPaths DEF SkillRoutes, CatalogueRule
<1> HIDE DEF Sound
<1> QED
  BY <1>1, <1>2, <1>3 DEF Table

LEMMA CategoryListingRoutesSound == Table(CategoryListingRoutes, "categories", {}, {})
<1>1. IsTable(CategoryListingRoutes) /\ Len(CategoryListingRoutes) = 6
  BY DEF CategoryListingRoutes, IsTable
<1>2. Sound(CategoryListingRoutes[1], "categories", {}, {})
  BY Written, ShortPaths DEF CategoryListingRoutes, CatalogueRule
<1>3. Sound(CategoryListingRoutes[2], "categories", {}, {})
  BY Written, ShortPaths DEF CategoryListingRoutes, CatalogueRule
<1>4. Sound(CategoryListingRoutes[3], "categories", {}, {})
  BY Written, ShortPaths DEF CategoryListingRoutes, CatalogueRule
<1>5. Sound(CategoryListingRoutes[4], "categories", {}, {})
  BY Written, ShortPaths DEF CategoryListingRoutes, CatalogueRule
<1>6. Sound(CategoryListingRoutes[5], "categories", {}, {})
  BY Written, ShortPaths DEF CategoryListingRoutes, CatalogueRule
<1>7. Sound(CategoryListingRoutes[6], "categories", {}, {})
  BY Written, ShortPaths DEF CategoryListingRoutes, CatalogueRule
<1> HIDE DEF Sound
<1> QED
  BY <1>1, <1>2, <1>3, <1>4, <1>5, <1>6, <1>7 DEF Table

LEMMA CategoryRoutesSound == Table(CategoryRoutes, "categories", {}, {})
<1>1. IsTable(CategoryRoutes) /\ Len(CategoryRoutes) = 3
  BY DEF CategoryRoutes, IsTable
<1>2. \A i \in 1..3 : Sound(CategoryRoutes[i], "categories", {}, {})
  BY Written, ShortPaths DEF CategoryRoutes, CatalogueRule
<1> HIDE DEF Sound
<1> QED
  BY <1>1, <1>2 DEF Table

LEMMA ContractFormationRoutesSound == Table(ContractFormationRoutes, "contracts", {"jwt", "roles"}, {})
<1>1. IsTable(ContractFormationRoutes) /\ Len(ContractFormationRoutes) = 4
  BY DEF ContractFormationRoutes, IsTable
<1>2. \A i \in 1..2 : Sound(ContractFormationRoutes[i], "contracts", {"jwt", "roles"}, {})
  BY Written, ShortPaths DEF ContractFormationRoutes, ContractsRule
<1>3. \A i \in 3..4 : Sound(ContractFormationRoutes[i], "contracts", {"jwt", "roles"}, {})
  BY Written, ShortPaths DEF ContractFormationRoutes, ContractsRule
<1> HIDE DEF Sound
<1> QED
  BY <1>1, <1>2, <1>3 DEF Table

LEMMA ContractReadingRoutesSound == Table(ContractReadingRoutes, "contracts", {"jwt", "roles"}, {})
<1>1. IsTable(ContractReadingRoutes) /\ Len(ContractReadingRoutes) = 4
  BY DEF ContractReadingRoutes, IsTable
<1>2. \A i \in 1..4 : Sound(ContractReadingRoutes[i], "contracts", {"jwt", "roles"}, {})
  BY Written, ShortPaths DEF ContractReadingRoutes, ContractsRule
<1> HIDE DEF Sound
<1> QED
  BY <1>1, <1>2 DEF Table

LEMMA ContractDownloadRoutesSound == Table(ContractDownloadRoutes, "contracts", {"jwt", "roles"}, {})
<1>1. IsTable(ContractDownloadRoutes) /\ Len(ContractDownloadRoutes) = 1
  BY DEF ContractDownloadRoutes, IsTable
<1>2. Sound(ContractDownloadRoutes[1], "contracts", {"jwt", "roles"}, {})
  BY Written, ShortPaths DEF ContractDownloadRoutes, ContractsRule
<1> HIDE DEF Sound
<1> QED
  BY <1>1, <1>2 DEF Table

LEMMA PaymentRoutesSound == Table(PaymentRoutes, "payments", {"jwt", "roles"}, {})
<1>1. IsTable(PaymentRoutes) /\ Len(PaymentRoutes) = 17
  BY DEF PaymentRoutes, IsTable
<1>2. Sound(PaymentRoutes[1], "payments", {"jwt", "roles"}, {})
  BY Written, ShortPaths DEF PaymentRoutes, PaymentsRule
<1>3. Sound(PaymentRoutes[2], "payments", {"jwt", "roles"}, {})
  BY Written, ShortPaths DEF PaymentRoutes, PaymentsRule
<1>4. Sound(PaymentRoutes[3], "payments", {"jwt", "roles"}, {})
  BY Written, ShortPaths DEF PaymentRoutes, PaymentsRule
<1>5. Sound(PaymentRoutes[4], "payments", {"jwt", "roles"}, {})
  BY Written, ShortPaths DEF PaymentRoutes, PaymentsRule
<1>6. Sound(PaymentRoutes[5], "payments", {"jwt", "roles"}, {})
  BY Written, ShortPaths DEF PaymentRoutes, PaymentsRule
<1>7. Sound(PaymentRoutes[6], "payments", {"jwt", "roles"}, {})
  BY Written, ShortPaths DEF PaymentRoutes, PaymentsRule
<1>8. Sound(PaymentRoutes[7], "payments", {"jwt", "roles"}, {})
  BY Written, ShortPaths DEF PaymentRoutes, PaymentsRule
<1>9. Sound(PaymentRoutes[8], "payments", {"jwt", "roles"}, {})
  BY Written, ShortPaths DEF PaymentRoutes, PaymentsRule
<1>10. Sound(PaymentRoutes[9], "payments", {"jwt", "roles"}, {})
  BY Written, ShortPaths DEF PaymentRoutes, PaymentsRule
<1>11. Sound(PaymentRoutes[10], "payments", {"jwt", "roles"}, {})
  BY Written, ShortPaths DEF PaymentRoutes, PaymentsRule
<1>12. Sound(PaymentRoutes[11], "payments", {"jwt", "roles"}, {})
  BY Written, ShortPaths DEF PaymentRoutes, PaymentsRule
<1>13. Sound(PaymentRoutes[12], "payments", {"jwt", "roles"}, {})
  BY Written, ShortPaths DEF PaymentRoutes, PaymentsRule
<1>14. Sound(PaymentRoutes[13], "payments", {"jwt", "roles"}, {})
  BY Written, ShortPaths DEF PaymentRoutes, PaymentsRule
<1>15. Sound(PaymentRoutes[14], "payments", {"jwt", "roles"}, {})
  BY Written, ShortPaths DEF PaymentRoutes, PaymentsRule
<1>16. Sound(PaymentRoutes[15], "payments", {"jwt", "roles"}, {})
  BY Written, ShortPaths DEF PaymentRoutes, PaymentsRule
<1>17. Sound(PaymentRoutes[16], "payments", {"jwt", "roles"}, {})
  BY Written, ShortPaths DEF PaymentRoutes, PaymentsRule
<1>18. Sound(PaymentRoutes[17], "payments", {"jwt", "roles"}, {})
  BY Written, ShortPaths DEF PaymentRoutes, PaymentsRule
<1> HIDE DEF Sound
<1> QED
  BY <1>1, <1>2, <1>3, <1>4, <1>5, <1>6, <1>7, <1>8, <1>9, <1>10, <1>11, <1>12, <1>13, <1>14, <1>15, <1>16, <1>17, <1>18 DEF Table

LEMMA TransactionRoutesSound == Table(TransactionRoutes, "payments", {"jwt", "roles"}, {})
<1>1. IsTable(TransactionRoutes) /\ Len(TransactionRoutes) = 15
  BY DEF TransactionRoutes, IsTable
<1>2. Sound(TransactionRoutes[1], "payments", {"jwt", "roles"}, {})
  BY Written, ShortPaths DEF TransactionRoutes, PaymentsRule
<1>3. Sound(TransactionRoutes[2], "payments", {"jwt", "roles"}, {})
  BY Written, ShortPaths DEF TransactionRoutes, PaymentsRule
<1>4. Sound(TransactionRoutes[3], "payments", {"jwt", "roles"}, {})
  BY Written, ShortPaths DEF TransactionRoutes, PaymentsRule
<1>5. Sound(TransactionRoutes[4], "payments", {"jwt", "roles"}, {})
  BY Written, ShortPaths DEF TransactionRoutes, PaymentsRule
<1>6. Sound(TransactionRoutes[5], "payments", {"jwt", "roles"}, {})
  BY Written, ShortPaths DEF TransactionRoutes, PaymentsRule
<1>7. Sound(TransactionRoutes[6], "payments", {"jwt", "roles"}, {})
  BY Written, ShortPaths DEF TransactionRoutes, PaymentsRule
<1>8. Sound(TransactionRoutes[7], "payments", {"jwt", "roles"}, {})
  BY Written, ShortPaths DEF TransactionRoutes, PaymentsRule
<1>9. Sound(TransactionRoutes[8], "payments", {"jwt", "roles"}, {})
  BY Written, ShortPaths DEF TransactionRoutes, PaymentsRule
<1>10. Sound(TransactionRoutes[9], "payments", {"jwt", "roles"}, {})
  BY Written, ShortPaths DEF TransactionRoutes, PaymentsRule
<1>11. Sound(TransactionRoutes[10], "payments", {"jwt", "roles"}, {})
  BY Written, ShortPaths DEF TransactionRoutes, PaymentsRule
<1>12. Sound(TransactionRoutes[11], "payments", {"jwt", "roles"}, {})
  BY Written, ShortPaths DEF TransactionRoutes, PaymentsRule
<1>13. Sound(TransactionRoutes[12], "payments", {"jwt", "roles"}, {})
  BY Written, ShortPaths DEF TransactionRoutes, PaymentsRule
<1>14. Sound(TransactionRoutes[13], "payments", {"jwt", "roles"}, {})
  BY Written, ShortPaths DEF TransactionRoutes, PaymentsRule
<1>15. Sound(TransactionRoutes[14], "payments", {"jwt", "roles"}, {})
  BY Written, ShortPaths DEF TransactionRoutes, PaymentsRule
<1>16. Sound(TransactionRoutes[15], "payments", {"jwt", "roles"}, {})
  BY Written, ShortPaths DEF TransactionRoutes, PaymentsRule
<1> HIDE DEF Sound
<1> QED
  BY <1>1, <1>2, <1>3, <1>4, <1>5, <1>6, <1>7, <1>8, <1>9, <1>10, <1>11, <1>12, <1>13, <1>14, <1>15, <1>16 DEF Table

LEMMA BalanceAndWebhookRoutesSound == Table(BalanceAndWebhookRoutes, "payments", {"jwt", "roles"}, {})
<1>1. IsTable(BalanceAndWebhookRoutes) /\ Len(BalanceAndWebhookRoutes) = 2
  BY DEF BalanceAndWebhookRoutes, IsTable
<1>2. \A i \in 1..2 : Sound(BalanceAndWebhookRoutes[i], "payments", {"jwt", "roles"}, {})
  BY Written, ShortPaths DEF BalanceAndWebhookRoutes, PaymentsRule
<1> HIDE DEF Sound
<1> QED
  BY <1>1, <1>2 DEF Table

LEMMA MilestoneListingRoutesSound == Table(MilestoneListingRoutes, "milestones", {"jwt"}, {})
<1>1. IsTable(MilestoneListingRoutes) /\ Len(MilestoneListingRoutes) = 6
  BY DEF MilestoneListingRoutes, IsTable
<1>2. \A i \in 1..6 : Sound(MilestoneListingRoutes[i], "milestones", {"jwt"}, {})
  BY Written, ShortPaths DEF MilestoneListingRoutes
<1> HIDE DEF Sound
<1> QED
  BY <1>1, <1>2 DEF Table

LEMMA MilestoneReviewRoutesSound == Table(MilestoneReviewRoutes, "milestones", {"jwt"}, {})
<1>1. IsTable(MilestoneReviewRoutes) /\ Len(MilestoneReviewRoutes) = 4
  BY DEF MilestoneReviewRoutes, IsTable
<1>2. \A i \in 1..4 : Sound(MilestoneReviewRoutes[i], "milestones", {"jwt"}, {})
  BY Written, ShortPaths DEF MilestoneReviewRoutes
<1> HIDE DEF Sound
<1> QED
  BY <1>1, <1>2 DEF Table

LEMMA MilestoneOrderRoutesSound == Table(MilestoneOrderRoutes, "milestones", {"jwt"}, {})
<1>1. IsTable(MilestoneOrderRoutes) /\ Len(MilestoneOrderRoutes) = 3
  BY DEF MilestoneOrderRoutes, IsTable
<1>2. \A i \in 1..3 : Sound(MilestoneOrderRoutes[i], "milestones", {"jwt"}, {})
  BY Written, ShortPaths DEF MilestoneOrderRoutes
<1> HIDE DEF Sound
<1> QED
  BY <1>1, <1>2 DEF Table

LEMMA UploadRoutesSound == Table(UploadRoutes, "files", {"jwt"}, {})
<1>1. IsTable(UploadRoutes) /\ Len(UploadRoutes) = 3
  BY DEF UploadRoutes, IsTable
<1>2. \A i \in 1..3 : Sound(UploadRoutes[i], "files", {"jwt"}, {})
  BY Written, ShortPaths DEF UploadRoutes
<1> HIDE DEF Sound
<1> QED
  BY <1>1, <1>2 DEF Table

LEMMA FileRoutesSound == Table(FileRoutes, "files", {"jwt"}, {})
<1>1. IsTable(FileRoutes) /\ Len(FileRoutes) = 4
  BY DEF FileRoutes, IsTable
<1>2. \A i \in 1..4 : Sound(FileRoutes[i], "files", {"jwt"}, {})
  BY Written, ShortPaths DEF FileRoutes
<1> HIDE DEF Sound
<1> QED
  BY <1>1, <1>2 DEF Table

LEMMA DashboardRoutesSound == Table(DashboardRoutes, "dashboard", {"jwt", "roles"}, {})
<1>1. IsTable(DashboardRoutes) /\ Len(DashboardRoutes) = 6
  BY DEF DashboardRoutes, IsTable
<1>2. Sound(DashboardRoutes[1], "dashboard", {"jwt", "roles"}, {})
  BY Written, ShortPaths DEF DashboardRoutes, DashboardRule
<1>3. Sound(DashboardRoutes[2], "dashboard", {"jwt", "roles"}, {})
  BY Written, ShortPaths DEF DashboardRoutes, DashboardRule
<1>4. Sound(DashboardRoutes[3], "dashboard", {"jwt", "roles"}, {})
  BY Written, ShortPaths DEF DashboardRoutes, DashboardRule
<1>5. Sound(DashboardRoutes[4], "dashboard", {"jwt", "roles"}, {})
  BY Written, ShortPaths DEF DashboardRoutes, DashboardRule
<1>6. Sound(DashboardRoutes[5], "dashboard", {"jwt", "roles"}, {})
  BY Written, ShortPaths DEF DashboardRoutes, DashboardRule
<1>7. Sound(DashboardRoutes[6], "dashboard", {"jwt", "roles"}, {})
  BY Written, ShortPaths DEF DashboardRoutes, DashboardRule
<1> HIDE DEF Sound
<1> QED
  BY <1>1, <1>2, <1>3, <1>4, <1>5, <1>6, <1>7 DEF Table

LEMMA NotificationRoutesSound == Table(NotificationRoutes, "notifications", {"jwt"}, {})
<1>1. IsTable(NotificationRoutes) /\ Len(NotificationRoutes) = 10
  BY DEF NotificationRoutes, IsTable
<1>2. \A i \in 1..10 : Sound(NotificationRoutes[i], "notifications", {"jwt"}, {})
  BY Written, ShortPaths DEF NotificationRoutes
<1> HIDE DEF Sound
<1> QED
  BY <1>1, <1>2 DEF Table

LEMMA ReviewRoutesSound == Table(ReviewRoutes, "reviews", {"jwt", "roles"}, {})
<1>1. IsTable(ReviewRoutes) /\ Len(ReviewRoutes) = 4
  BY DEF ReviewRoutes, IsTable
<1>2. \A i \in 1..4 : Sound(ReviewRoutes[i], "reviews", {"jwt", "roles"}, {})
  BY Written, ShortPaths DEF ReviewRoutes, ReviewsRule
<1> HIDE DEF Sound
<1> QED
  BY <1>1, <1>2 DEF Table

LEMMA ReviewStatsRoutesSound == Table(ReviewStatsRoutes, "reviews", {"jwt", "roles"}, {})
<1>1. IsTable(ReviewStatsRoutes) /\ Len(ReviewStatsRoutes) = 2
  BY DEF ReviewStatsRoutes, IsTable
<1>2. \A i \in 1..2 : Sound(ReviewStatsRoutes[i], "reviews", {"jwt", "roles"}, {})
  BY Written, ShortPaths DEF ReviewStatsRoutes, ReviewsRule
<1> HIDE DEF Sound
<1> QED
  BY <1>1, <1>2 DEF Table

LEMMA WithdrawalRoutesSound == Table(WithdrawalRoutes, "withdrawals", {"jwt", "roles"}, {})
<1>1. IsTable(WithdrawalRoutes) /\ Len(WithdrawalRoutes) = 7
  BY DEF WithdrawalRoutes, IsTable
<1>2. \A i \in 1..7 : Sound(WithdrawalRoutes[i], "withdrawals", {"jwt", "roles"}, {})
  BY Written, ShortPaths DEF WithdrawalRoutes, WithdrawalsRule
<1> HIDE DEF Sound
<1> QED
  BY <1>1, <1>2 DEF Table

LEMMA PaymentMethodRoutesSound == Table(PaymentMethodRoutes, "payment-methods", {"jwt"}, {})
<1>1. IsTable(PaymentMethodRoutes) /\ Len(PaymentMethodRoutes) = 5
  BY DEF PaymentMethodRoutes, IsTable
<1>2. \A i \in 1..5 : Sound(PaymentMethodRoutes[i], "payment-methods", {"jwt"}, {})
  BY Written, ShortPaths DEF PaymentMethodRoutes
<1> HIDE DEF Sound
<1> QED
  BY <1>1, <1>2 DEF Table

LEMMA MessageRoutesSound == Table(MessageRoutes, "messages", {"jwt"}, {})
<1>1. IsTable(MessageRoutes) /\ Len(MessageRoutes) = 6
  BY DEF MessageRoutes, IsTable
<1>2. \A i \in 1..6 : Sound(MessageRoutes[i], "messages", {"jwt"}, {})
  BY Written, ShortPaths DEF MessageRoutes
<1> HIDE DEF Sound
<1> QED
  BY <1>1, <1>2 DEF Table

LEMMA AdminPeopleAndMoneyRoutesSound == Table(AdminPeopleAndMoneyRoutes, "admin", {"jwt", "roles"}, {"admin"})
<1>1. IsTable(AdminPeopleAndMoneyRoutes) /\ Len(AdminPeopleAndMoneyRoutes) = 18
  BY DEF AdminPeopleAndMoneyRoutes, IsTable
<1>2. \A i \in 1..6 : Sound(AdminPeopleAndMoneyRoutes[i], "admin", {"jwt", "roles"}, {"admin"})
  BY Written, ShortPaths DEF AdminPeopleAndMoneyRoutes
<1>3. \A i \in 7..12 : Sound(AdminPeopleAndMoneyRoutes[i], "admin", {"jwt", "roles"}, {"admin"})
  BY Written, ShortPaths DEF AdminPeopleAndMoneyRoutes
<1>4. \A i \in 13..18 : Sound(AdminPeopleAndMoneyRoutes[i], "admin", {"jwt", "roles"}, {"admin"})
  BY Written, ShortPaths DEF AdminPeopleAndMoneyRoutes
<1> HIDE DEF Sound
<1> QED
  BY <1>1, <1>2, <1>3, <1>4 DEF Table

LEMMA AdminWorkRoutesSound == Table(AdminWorkRoutes, "admin", {"jwt", "roles"}, {"admin"})
<1>1. IsTable(AdminWorkRoutes) /\ Len(AdminWorkRoutes) = 17
  BY DEF AdminWorkRoutes, IsTable
<1>2. \A i \in 1..6 : Sound(AdminWorkRoutes[i], "admin", {"jwt", "roles"}, {"admin"})
  BY Written, ShortPaths DEF AdminWorkRoutes
<1>3. \A i \in 7..12 : Sound(AdminWorkRoutes[i], "admin", {"jwt", "roles"}, {"admin"})
  BY Written, ShortPaths DEF AdminWorkRoutes
<1>4. \A i \in 13..17 : Sound(AdminWorkRoutes[i], "admin", {"jwt", "roles"}, {"admin"})
  BY Written, ShortPaths DEF AdminWorkRoutes
<1> HIDE DEF Sound
<1> QED
  BY <1>1, <1>2, <1>3, <1>4 DEF Table

LEMMA AdminSettingsRoutesSound == Table(AdminSettingsRoutes, "admin", {"jwt", "roles"}, {"admin"})
<1>1. IsTable(AdminSettingsRoutes) /\ Len(AdminSettingsRoutes) = 7
  BY DEF AdminSettingsRoutes, IsTable
<1>2. \A i \in 1..7 : Sound(AdminSettingsRoutes[i], "admin", {"jwt", "roles"}, {"admin"})
  BY Written, ShortPaths DEF AdminSettingsRoutes
<1> HIDE DEF Sound
<1> QED
  BY <1>1, <1>2 DEF Table

LEMMA DisputeRoutesSound == Table(DisputeRoutes, "disputes", {"jwt", "roles"}, {})
<1>1. IsTable(DisputeRoutes) /\ Len(DisputeRoutes) = 7
  BY DEF DisputeRoutes, IsTable
<1>2. \A i \in 1..3 : Sound(DisputeRoutes[i], "disputes", {"jwt", "roles"}, {})
  BY Written, ShortPaths DEF DisputeRoutes, DisputesRule
<1>3. \A i \in 4..6 : Sound(DisputeRoutes[i], "disputes", {"jwt", "roles"}, {})
  BY Written, ShortPaths DEF DisputeRoutes, DisputesRule
<1>4. Sound(DisputeRoutes[7], "disputes", {"jwt", "roles"}, {})
  BY Written, ShortPaths DEF DisputeRoutes, DisputesRule
<1> HIDE DEF Sound
<1> QED
  BY <1>1, <1>2, <1>3, <1>4 DEF Table

LEMMA DisputeEndingRoutesSound == Table(DisputeEndingRoutes, "disputes", {"jwt", "roles"}, {})
<1>1. IsTable(DisputeEndingRoutes) /\ Len(DisputeEndingRoutes) = 3
  BY DEF DisputeEndingRoutes, IsTable
<1>2. \A i \in 1..3 : Sound(DisputeEndingRoutes[i], "disputes", {"jwt", "roles"}, {})
  BY Written, ShortPaths DEF DisputeEndingRoutes, DisputesRule
<1> HIDE DEF Sound
<1> QED
  BY <1>1, <1>2 DEF Table

HIDE DEF Sound, Rule, Get, Post, Put, Patch, Delete, Param, Roles,
   Handlers, OwnHandlers, TargetHandlers, FreelancerEdits

\* A route as its controller registers it.
Under(prefix, guards, roles, r) ==
  [r EXCEPT !.path = <<prefix>> \o @, !.guards = guards \union @,
            !.roles = IF @ = {} THEN roles ELSE @]

BaseRoles(prefix) == IF prefix = "admin" THEN {"admin"} ELSE {}

\* A registered route whose controller found it sound.
Registered(route) ==
  \E prefix, guards, r :
    /\ prefix \notin {Param, "favicon.ico"} /\ Sound(r, prefix, guards, BaseRoles(prefix))
    /\ route = Under(prefix, guards, BaseRoles(prefix), r)

\* A route of the application itself: open to everyone, and of no account.
AtRoot(route) ==
  /\ route.public /\ route.roles = {} /\ route.path \in {<<>>, <<"favicon.ico">>}
  /\ route.handler \notin Handlers \union {"users.getUserById", "admin.activateUser"}

Safe(route) == Registered(route) \/ AtRoot(route)

\* The one route that another controller method must precede: it takes the
\* requests for the Stripe account, which the freelancer alone may make.
StripeAccountPath == <<"users", "stripe-account">>

Precedes(routes, j) ==
  \E k \in 1..(j - 1) : routes[k].verb = "GET" /\ routes[k].path = StripeAccountPath

Ordered(routes) ==
  \A j \in 1..Len(routes) : routes[j].handler = "users.getUserById" => Precedes(routes, j)

SafeTable(routes) ==
  IsTable(routes) /\ (\A i \in 1..Len(routes) : Safe(routes[i])) /\ Ordered(routes)

LEMMA UnderIs ==
  ASSUME NEW prefix, NEW guards, NEW roles, NEW r, IsRoute(r),
         NEW q, q = Under(prefix, guards, roles, r)
  PROVE  /\ q.verb = r.verb /\ q.handler = r.handler /\ q.public = r.public
         /\ q.path = <<prefix>> \o r.path
         /\ q.guards = guards \union r.guards
         /\ q.roles = IF r.roles = {} THEN roles ELSE r.roles
BY DEF Under, IsRoute, Fields

\* What a registered route asks of its callers.
LEMMA SafeAsks ==
  ASSUME NEW route, Safe(route)
  PROVE  /\ ~route.public => "jwt" \in route.guards
         /\ route.handler \in Handlers => ~route.public
         /\ route.handler = "admin.activateUser" =>
              "roles" \in route.guards /\ route.roles = {"admin"}
<1> SUFFICES ASSUME Registered(route)
             PROVE  /\ ~route.public => "jwt" \in route.guards
                    /\ route.handler \in Handlers => ~route.public
                    /\ route.handler = "admin.activateUser" =>
                         "roles" \in route.guards /\ route.roles = {"admin"}
  BY DEF Safe, AtRoot
<1>1. PICK prefix, guards, r :
        /\ Sound(r, prefix, guards, BaseRoles(prefix))
        /\ route = Under(prefix, guards, BaseRoles(prefix), r)
  BY DEF Registered
<1>2. IsRoute(r)
  BY <1>1 DEF Sound
<1>3. /\ route.handler = r.handler /\ route.public = r.public /\ route.path = <<prefix>> \o r.path
      /\ route.guards = guards \union r.guards
      /\ route.roles = IF r.roles = {} THEN BaseRoles(prefix) ELSE r.roles
  BY <1>1, <1>2, UnderIs
<1> QED
  BY <1>1, <1>3 DEF Sound

LEMMA Joined ==
  ASSUME NEW s, NEW t, IsTable(s), IsTable(t)
  PROVE  /\ IsTable(s \o t) /\ Len(s \o t) = Len(s) + Len(t)
         /\ \A i \in 1..Len(s) : (s \o t)[i] = s[i]
         /\ \A i \in (Len(s) + 1)..(Len(s) + Len(t)) :
              i - Len(s) \in 1..Len(t) /\ (s \o t)[i] = t[i - Len(s)]
<1> DEFINE S == {s[i] : i \in 1..Len(s)} \union {t[i] : i \in 1..Len(t)}
<1>1. s \in Seq(S)
  BY DEF IsTable
<1>2. t \in Seq(S)
  BY DEF IsTable
<1> HIDE DEF S
<1>3. /\ s \o t \in Seq(S) /\ Len(s \o t) = Len(s) + Len(t)
      /\ \A i \in 1..(Len(s) + Len(t)) : (s \o t)[i] = IF i <= Len(s) THEN s[i] ELSE t[i - Len(s)]
  BY <1>1, <1>2, ConcatProperties
<1>4. Len(s) \in Nat /\ Len(t) \in Nat
  BY DEF IsTable
<1>5. s \o t = [i \in 1..Len(s \o t) |-> (s \o t)[i]] /\ Len(s \o t) \in Nat
  <2> DEFINE u == s \o t
  <2>1. u \in Seq(S)
    BY <1>3
  <2> HIDE DEF u
  <2>2. u = [i \in 1..Len(u) |-> u[i]] /\ Len(u) \in Nat
    BY <2>1, LenProperties
  <2> QED
    BY <2>2 DEF u
<1> QED
  BY <1>3, <1>4, <1>5 DEF IsTable

\* The path of a registered route, segment by segment.
LEMMA PathIs ==
  ASSUME NEW prefix, NEW path, IsTable(path)
  PROVE  LET p == <<prefix>> \o path IN
         /\ IsTable(p) /\ Len(p) = Len(path) + 1 /\ p[1] = prefix
         /\ \A k \in 1..Len(path) : p[k + 1] = path[k]
<1>1. IsTable(<<prefix>>) /\ Len(<<prefix>>) = 1
  BY DEF IsTable
<1>2. Len(path) \in Nat
  BY DEF IsTable
<1> DEFINE p == <<prefix>> \o path
<1>3. /\ IsTable(p) /\ Len(p) = 1 + Len(path) /\ p[1] = <<prefix>>[1]
      /\ \A i \in 2..(1 + Len(path)) : p[i] = path[i - 1]
  BY <1>1, <1>2, Joined
<1> HIDE DEF p
<1>4. ASSUME NEW k \in 1..Len(path) PROVE p[k + 1] = path[k]
  <2>1. k + 1 \in 2..(1 + Len(path)) /\ (k + 1) - 1 = k
    BY <1>2
  <2> QED
    BY <1>3, <2>1
<1> QED
  BY <1>2, <1>3, <1>4 DEF p

LEMMA TablesJoin ==
  ASSUME NEW s, NEW t, NEW prefix, NEW guards, NEW roles,
         Table(s, prefix, guards, roles), Table(t, prefix, guards, roles)
  PROVE  Table(s \o t, prefix, guards, roles)
<1>1. /\ Len(s) \in Nat /\ Len(t) \in Nat /\ IsTable(s \o t) /\ Len(s \o t) = Len(s) + Len(t)
      /\ \A i \in 1..Len(s) : (s \o t)[i] = s[i]
      /\ \A i \in (Len(s) + 1)..(Len(s) + Len(t)) :
           i - Len(s) \in 1..Len(t) /\ (s \o t)[i] = t[i - Len(s)]
  BY Joined DEF Table, IsTable
<1>2. ASSUME NEW i \in 1..(Len(s) + Len(t)) PROVE Sound((s \o t)[i], prefix, guards, roles)
  <2>1. CASE i \in 1..Len(s)
    BY <1>1, <2>1 DEF Table
  <2>2. CASE i \in (Len(s) + 1)..(Len(s) + Len(t))
    BY <1>1, <2>2 DEF Table
  <2> QED
    BY <1>1, <2>1, <2>2
<1> QED
  BY <1>1, <1>2 DEF Table

LEMMA SafeJoin ==
  ASSUME NEW s, NEW t, SafeTable(s), SafeTable(t)
  PROVE  SafeTable(s \o t)
<1>1. /\ Len(s) \in Nat /\ Len(t) \in Nat /\ IsTable(s \o t) /\ Len(s \o t) = Len(s) + Len(t)
      /\ \A i \in 1..Len(s) : (s \o t)[i] = s[i]
      /\ \A i \in (Len(s) + 1)..(Len(s) + Len(t)) :
           i - Len(s) \in 1..Len(t) /\ (s \o t)[i] = t[i - Len(s)]
  BY Joined DEF SafeTable, IsTable
<1>2. ASSUME NEW i \in 1..(Len(s) + Len(t)) PROVE Safe((s \o t)[i])
  <2>1. CASE i \in 1..Len(s)
    BY <1>1, <2>1 DEF SafeTable
  <2>2. CASE i \in (Len(s) + 1)..(Len(s) + Len(t))
    BY <1>1, <2>2 DEF SafeTable
  <2> QED
    BY <1>1, <2>1, <2>2
<1>3. ASSUME NEW j \in 1..(Len(s) + Len(t)), (s \o t)[j].handler = "users.getUserById"
      PROVE  Precedes(s \o t, j)
  <2>1. CASE j \in 1..Len(s)
    <3>1. PICK k \in 1..(j - 1) : s[k].verb = "GET" /\ s[k].path = StripeAccountPath
      BY <1>1, <1>3, <2>1 DEF SafeTable, Ordered, Precedes
    <3>2. (s \o t)[k] = s[k]
      BY <1>1, <2>1, <3>1
    <3> QED
      BY <3>1, <3>2 DEF Precedes
  <2>2. CASE j \in (Len(s) + 1)..(Len(s) + Len(t))
    <3>1. j - Len(s) \in 1..Len(t) /\ t[j - Len(s)].handler = "users.getUserById"
      BY <1>1, <1>3, <2>2
    <3>2. PICK k \in 1..(j - Len(s) - 1) :
            t[k].verb = "GET" /\ t[k].path = StripeAccountPath
      BY <3>1 DEF SafeTable, Ordered, Precedes
    <3> DEFINE m == k + Len(s)
    <3>3. m \in (Len(s) + 1)..(Len(s) + Len(t)) /\ m - Len(s) = k /\ m \in 1..(j - 1)
      BY <1>1, <2>2, <3>2
    <3> HIDE DEF m
    <3>4. (s \o t)[m] = t[k]
      BY <1>1, <3>3
    <3> QED
      BY <3>2, <3>3, <3>4 DEF Precedes
  <2> QED
    BY <1>1, <2>1, <2>2
<1> QED
  BY <1>1, <1>2, <1>3 DEF SafeTable, Ordered

LEMMA ControllerIs ==
  ASSUME NEW prefix, NEW guards, NEW roles, NEW routes, IsTable(routes)
  PROVE  LET c == Controller(prefix, guards, roles, routes) IN
         /\ IsTable(c) /\ Len(c) = Len(routes)
         /\ \A i \in 1..Len(routes) : c[i] = Under(prefix, guards, roles, routes[i])
<1> DEFINE q(i) == Under(prefix, guards, roles, routes[i])
<1>1. Controller(prefix, guards, roles, routes) = [i \in 1..Len(routes) |-> q(i)]
  BY DEF Controller, IsTable, Under
<1>2. Len(routes) \in Nat
  BY DEF IsTable
<1> HIDE DEF q
<1>3. IsTable([i \in 1..Len(routes) |-> q(i)]) /\ Len([i \in 1..Len(routes) |-> q(i)]) = Len(routes)
  BY <1>2 DEF IsTable
<1> QED
  BY <1>1, <1>3 DEF q

LEMMA Controlling ==
  ASSUME NEW prefix, NEW guards, NEW roles, NEW routes, Table(routes, prefix, guards, roles),
         prefix \notin {Param, "favicon.ico"}, roles = BaseRoles(prefix),
         prefix = "users" => Ordered(Controller(prefix, guards, roles, routes))
  PROVE  SafeTable(Controller(prefix, guards, roles, routes))
<1> DEFINE c == Controller(prefix, guards, roles, routes)
<1>1. /\ IsTable(c) /\ Len(c) = Len(routes)
      /\ \A i \in 1..Len(routes) : c[i] = Under(prefix, guards, roles, routes[i])
  BY ControllerIs DEF Table
<1> HIDE DEF c
<1>2. \A i \in 1..Len(routes) : Sound(routes[i], prefix, guards, roles)
  BY DEF Table
<1>3. \A i \in 1..Len(c) : Safe(c[i])
  BY <1>1, <1>2 DEF Safe, Registered
<1>4. CASE prefix # "users"
  <2>1. ASSUME NEW i \in 1..Len(routes) PROVE c[i].handler # "users.getUserById"
    <3>1. IsRoute(routes[i]) /\ routes[i].handler # "users.getUserById"
      BY <1>2, <1>4 DEF Sound
    <3> DEFINE r == routes[i]
               q == c[i]
    <3>2. q = Under(prefix, guards, roles, r)
      BY <1>1
    <3> HIDE DEF r, q
    <3>3. IsRoute(r)
      BY <3>1 DEF r
    <3>4. q.handler = r.handler /\ q.path = <<prefix>> \o r.path
      BY <3>2, <3>3, UnderIs
    <3> QED
      BY <3>1, <3>4 DEF q, r
  <2> QED
    BY <1>1, <1>3, <2>1 DEF SafeTable, Ordered, c
<1> QED
  BY <1>1, <1>3, <1>4 DEF SafeTable, c

Smaller == {p \in Nat \X Nat : p[1] < p[2]}

LEMMA Least ==
  ASSUME NEW M, M \subseteq Nat, M # {}
  PROVE  \E n \in M : \A m \in M : n <= m
<1>1. IsWellFoundedOn(Smaller, Nat)
  BY NatLessThanWellFounded, Zenon DEF OpToRel, Smaller
<1>2. PICK n \in M : \A m \in M : <<m, n>> \notin Smaller
  BY <1>1, WFMin
<1>3. ASSUME NEW m \in M PROVE n <= m
  <2>1. m \in Nat /\ n \in Nat /\ ~(<<m, n>> \in Smaller)
    BY <1>2
  <2>2. ~(m < n)
    BY <2>1 DEF Smaller
  <2> QED
    BY <2>1, <2>2
<1> QED
  BY <1>3

\* The users controller names the Stripe account before the id of a user.
StartsWith(s, o) ==
  IsTable(s) /\ Len(o) \in Nat /\ Len(o) <= Len(s) /\ \A i \in 1..Len(o) : s[i] = o[i]

LEMMA StartsStill ==
  ASSUME NEW s, NEW o, NEW t, StartsWith(s, o), IsTable(t)
  PROVE  StartsWith(s \o t, o)
<1>1. /\ IsTable(s \o t) /\ Len(s \o t) = Len(s) + Len(t)
      /\ \A i \in 1..Len(s) : (s \o t)[i] = s[i]
  BY Joined DEF StartsWith
<1>2. Len(s) \in Nat /\ Len(t) \in Nat
  BY DEF StartsWith, IsTable
<1> QED
  BY <1>1, <1>2 DEF StartsWith

LEMMA UsersOrdered ==
  Ordered(Controller("users", {"jwt"}, {}, OwnAccountRoutes \o DirectoryRoutes
    \o AvatarAndSkillRoutes \o PortfolioRoutes \o CertificationRoutes \o SettingsRoutes))
<1> DEFINE o == OwnAccountRoutes
           t == OwnAccountRoutes \o DirectoryRoutes \o AvatarAndSkillRoutes \o PortfolioRoutes
                  \o CertificationRoutes \o SettingsRoutes
           c == Controller("users", {"jwt"}, {}, t)
<1>1. /\ IsTable(OwnAccountRoutes) /\ IsTable(DirectoryRoutes) /\ IsTable(AvatarAndSkillRoutes)
      /\ IsTable(PortfolioRoutes) /\ IsTable(CertificationRoutes) /\ IsTable(SettingsRoutes)
  BY OwnAccountRoutesSound, DirectoryRoutesSound, AvatarAndSkillRoutesSound, PortfolioRoutesSound,
     CertificationRoutesSound, SettingsRoutesSound DEF Table
<1>2. StartsWith(o, o)
  BY <1>1 DEF StartsWith, IsTable
<1>3. StartsWith(t, o)
  BY <1>1, <1>2, StartsStill
<1>4. Len(o) = 7
  BY DEF OwnAccountRoutes
<1>5. o[4].verb = "GET" /\ o[4].path = <<"stripe-account">>
  BY Written DEF OwnAccountRoutes, Get
<1>6. ASSUME NEW i \in 1..7 PROVE IsRoute(o[i]) /\ o[i].handler # "users.getUserById"
  <2>1. /\ o[1].handler = "users.getCurrentUser" /\ o[2].handler = "users.updateCurrentUser"
        /\ o[3].handler = "users.createStripeAccount" /\ o[4].handler = "users.getStripeAccount"
        /\ o[5].handler = "users.getStripeAccountStatus"
        /\ o[6].handler = "users.createAccountLink" /\ o[7].handler = "users.deleteStripeAccount"
    BY Written DEF OwnAccountRoutes, Get, Post, Put, Delete
  <2>2. i \in {1, 2, 3, 4, 5, 6, 7}
    OBVIOUS
  <2>3. IsRoute(o[i])
    BY <1>4, OwnAccountRoutesSound DEF Table, Sound
  <2> QED
    BY <2>1, <2>2, <2>3
<1> HIDE DEF o, t
<1>7. /\ IsTable(c) /\ Len(c) = Len(t)
      /\ \A i \in 1..Len(t) : c[i] = Under("users", {"jwt"}, {}, t[i])
  BY <1>3, ControllerIs DEF StartsWith
<1> HIDE DEF c
<1>8. Len(t) \in Nat /\ Len(t) >= 7 /\ \A i \in 1..7 : i \in 1..Len(t) /\ t[i] = o[i]
  BY <1>3, <1>4 DEF StartsWith, IsTable
<1>9. ASSUME NEW i \in 1..7 PROVE c[i].handler = o[i].handler /\ c[i].path = <<"users">> \o o[i].path
  <2>1. c[i] = Under("users", {"jwt"}, {}, o[i]) /\ IsRoute(o[i])
    BY <1>6, <1>7, <1>8
  <2> DEFINE r == o[i]
             q == c[i]
  <2>2. q = Under("users", {"jwt"}, {}, r) /\ IsRoute(r)
    BY <2>1
  <2> HIDE DEF r, q
  <2>3. q.handler = r.handler /\ q.path = <<"users">> \o r.path
    BY <2>2, UnderIs
  <2> QED
    BY <2>3 DEF q, r
<1>10. c[4].verb = "GET" /\ c[4].path = StripeAccountPath
  <2>1. c[4] = Under("users", {"jwt"}, {}, o[4]) /\ IsRoute(o[4])
    BY <1>6, <1>7, <1>8
  <2>2. c[4].verb = "GET" /\ c[4].path = <<"users">> \o o[4].path
    BY <1>5, <2>1, UnderIs
  <2>3. <<"users">> \o <<"stripe-account">> = StripeAccountPath
    <3> DEFINE p == <<"users">> \o <<"stripe-account">>
    <3>1. /\ IsTable(p) /\ Len(p) = Len(<<"stripe-account">>) + 1 /\ p[1] = "users"
          /\ \A k \in 1..Len(<<"stripe-account">>) : p[k + 1] = <<"stripe-account">>[k]
      BY PathIs, ShortPaths
    <3> HIDE DEF p
    <3>2. Len(p) = 2 /\ p[2] = "stripe-account"
      BY <3>1
    <3>3. p = StripeAccountPath
      BY <3>1, <3>2 DEF IsTable, StripeAccountPath
    <3> QED
      BY <3>3 DEF p
  <2> QED
    BY <1>5, <2>2, <2>3
<1>11. ASSUME NEW j \in 1..Len(c), c[j].handler = "users.getUserById" PROVE Precedes(c, j)
  <2>1. j \notin 1..7
    BY <1>6, <1>9, <1>11
  <2>2. 4 \in 1..(j - 1)
    BY <1>7, <1>8, <2>1
  <2> QED
    BY <1>10, <2>2 DEF Precedes
<1> QED
  BY <1>11 DEF Ordered, c, t

LEMMA Controlled ==
  ASSUME NEW guards, NEW routes
  PROVE  /\ \A prefix \in {"auth", "jobs", "proposals", "skills", "categories", "contracts",
                           "payments", "milestones", "files", "dashboard", "notifications",
                           "reviews", "withdrawals", "payment-methods", "messages", "disputes"} :
              Table(routes, prefix, guards, {}) =>
                SafeTable(Controller(prefix, guards, {}, routes))
         /\ Table(routes, "admin", guards, {"admin"}) =>
              SafeTable(Controller("admin", guards, {"admin"}, routes))
         /\ Table(routes, "users", guards, {}) /\ Ordered(Controller("users", guards, {}, routes)) =>
              SafeTable(Controller("users", guards, {}, routes))
<1>1. {"admin", "users"} \intersect {Param, "favicon.ico"} = {}
  BY DEF Param
<1>2. ASSUME NEW prefix \in {"auth", "jobs", "proposals", "skills", "categories", "contracts",
                             "payments", "milestones", "files", "dashboard", "notifications",
                             "reviews", "withdrawals", "payment-methods", "messages", "disputes"}
      PROVE  prefix \notin {Param, "favicon.ico"} /\ BaseRoles(prefix) = {} /\ prefix # "users"
  BY DEF Param, BaseRoles
<1>3. BaseRoles("admin") = {"admin"} /\ BaseRoles("users") = {}
  BY DEF BaseRoles
<1> QED
  BY <1>1, <1>2, <1>3, Controlling

LEMMA AppRoutesSafe == SafeTable(AppRoutes)
<1>1. IsTable(AppRoutes) /\ Len(AppRoutes) = 2
  BY DEF AppRoutes, IsTable
<1>2. ASSUME NEW i \in 1..2 PROVE AtRoot(AppRoutes[i])
  <2>1. /\ AppRoutes[1].public /\ AppRoutes[1].roles = {} /\ AppRoutes[1].path = <<>>
        /\ AppRoutes[1].handler = "app.getHello"
    BY Written DEF AppRoutes, Get
  <2>2. /\ AppRoutes[2].public /\ AppRoutes[2].roles = {} /\ AppRoutes[2].path = <<"favicon.ico">>
        /\ AppRoutes[2].handler = "app.getFavicon"
    BY Written DEF AppRoutes, Get
  <2>3. {"app.getHello", "app.getFavicon"}
          \intersect (Handlers \union {"users.getUserById", "admin.activateUser"}) = {}
    BY DEF Handlers, OwnHandlers, TargetHandlers, FreelancerEdits
  <2>4. CASE i = 1
    BY <2>1, <2>3, <2>4 DEF AtRoot
  <2>5. CASE i = 2
    BY <2>2, <2>3, <2>5 DEF AtRoot
  <2> QED
    BY <2>4, <2>5
<1> QED
  BY <1>1, <1>2 DEF SafeTable, Safe, Ordered, AtRoot

LEMMA EveryRouteSafe == SafeTable(AllRoutes)
<1> DEFINE
     auth == Controller("auth", {}, {}, RegistrationRoutes \o PasswordRoutes \o SessionRoutes)
     users == Controller("users", {"jwt"}, {}, OwnAccountRoutes
       \o DirectoryRoutes
       \o AvatarAndSkillRoutes
       \o PortfolioRoutes
       \o CertificationRoutes
       \o SettingsRoutes)
     jobs == Controller("jobs", {"jwt"}, {}, JobListingRoutes \o JobOwnerRoutes \o JobReaderRoutes)
     proposals == Controller("proposals", {"jwt", "roles"}, {}, ProposalRoutes
       \o ProposalAnswerRoutes)
     skills == Controller("skills", {}, {}, SkillListingRoutes \o SkillRoutes)
     categories == Controller("categories", {}, {}, CategoryListingRoutes \o CategoryRoutes)
     contracts == Controller("contracts", {"jwt", "roles"}, {}, ContractFormationRoutes
       \o ContractReadingRoutes
       \o ContractDownloadRoutes)
     payments == Controller("payments", {"jwt", "roles"}, {}, PaymentRoutes
       \o TransactionRoutes
       \o BalanceAndWebhookRoutes)
     milestones == Controller("milestones", {"jwt"}, {}, MilestoneListingRoutes
       \o MilestoneReviewRoutes
       \o MilestoneOrderRoutes)
     files == Controller("files", {"jwt"}, {}, UploadRoutes \o FileRoutes)
     dashboard == Controller("dashboard", {"jwt", "roles"}, {}, DashboardRoutes)
     notifications == Controller("notifications", {"jwt"}, {}, NotificationRoutes)
     reviews == Controller("reviews", {"jwt", "roles"}, {}, ReviewRoutes \o ReviewStatsRoutes)
     withdrawals == Controller("withdrawals", {"jwt", "roles"}, {}, WithdrawalRoutes)
     paymentMethods == Controller("payment-methods", {"jwt"}, {}, PaymentMethodRoutes)
     messages == Controller("messages", {"jwt"}, {}, MessageRoutes)
     admin == Controller("admin", {"jwt", "roles"}, {"admin"}, AdminPeopleAndMoneyRoutes
       \o AdminWorkRoutes
       \o AdminSettingsRoutes)
     disputes == Controller("disputes", {"jwt", "roles"}, {}, DisputeRoutes \o DisputeEndingRoutes)
<1>1. SafeTable(auth)
  BY Controlled, TablesJoin, RegistrationRoutesSound, PasswordRoutesSound, SessionRoutesSound
<1>2. SafeTable(users)
  BY Controlled, UsersOrdered, TablesJoin, OwnAccountRoutesSound, DirectoryRoutesSound,
     AvatarAndSkillRoutesSound, PortfolioRoutesSound, CertificationRoutesSound,
     SettingsRoutesSound
<1>3. SafeTable(jobs)
  BY Controlled, TablesJoin, JobListingRoutesSound, JobOwnerRoutesSound, JobReaderRoutesSound
<1>4. SafeTable(proposals)
  BY Controlled, TablesJoin, ProposalRoutesSound, ProposalAnswerRoutesSound
<1>5. SafeTable(skills)
  BY Controlled, TablesJoin, SkillListingRoutesSound, SkillRoutesSound
<1>6. SafeTable(categories)
  BY Controlled, TablesJoin, CategoryListingRoutesSound, CategoryRoutesSound
<1>7. SafeTable(contracts)
  BY Controlled, TablesJoin, ContractFormationRoutesSound, ContractReadingRoutesSound,
     ContractDownloadRoutesSound
<1>8. SafeTable(payments)
  BY Controlled, TablesJoin, PaymentRoutesSound, TransactionRoutesSound,
     BalanceAndWebhookRoutesSound
<1>9. SafeTable(milestones)
  BY Controlled, TablesJoin, MilestoneListingRoutesSound, MilestoneReviewRoutesSound,
     MilestoneOrderRoutesSound
<1>10. SafeTable(files)
  BY Controlled, TablesJoin, UploadRoutesSound, FileRoutesSound
<1>11. SafeTable(dashboard)
  BY Controlled, DashboardRoutesSound
<1>12. SafeTable(notifications)
  BY Controlled, NotificationRoutesSound
<1>13. SafeTable(reviews)
  BY Controlled, TablesJoin, ReviewRoutesSound, ReviewStatsRoutesSound
<1>14. SafeTable(withdrawals)
  BY Controlled, WithdrawalRoutesSound
<1>15. SafeTable(paymentMethods)
  BY Controlled, PaymentMethodRoutesSound
<1>16. SafeTable(messages)
  BY Controlled, MessageRoutesSound
<1>17. SafeTable(admin)
  BY Controlled, TablesJoin, AdminPeopleAndMoneyRoutesSound, AdminWorkRoutesSound,
     AdminSettingsRoutesSound
<1>18. SafeTable(disputes)
  BY Controlled, TablesJoin, DisputeRoutesSound, DisputeEndingRoutesSound
<1> HIDE DEF auth, users, jobs, proposals, skills, categories, contracts, payments, milestones,
   files, dashboard, notifications, reviews, withdrawals, paymentMethods, messages, admin, disputes
<1> QED
  BY SafeJoin, AppRoutesSafe, <1>1, <1>2, <1>3, <1>4, <1>5, <1>6, <1>7, <1>8, <1>9, <1>10, <1>11, <1>12, <1>13,
     <1>14, <1>15, <1>16, <1>17, <1>18 DEF AllRoutes, auth, users, jobs, proposals, skills,
     categories, contracts, payments, milestones, files, dashboard, notifications, reviews,
     withdrawals, paymentMethods, messages, admin, disputes
\* A request is answered by the first route that takes it, which is itself safe.
LEMMA AnswersAreSafe ==
  \A k \in Requests :
    /\ Answering[k] \in Requests /\ Safe(AllRoutes[Answering[k]])
    /\ Matches(AllRoutes[Answering[k]], AllRoutes[k].verb, AllRoutes[k].path)
    /\ \A m \in 1..(Answering[k] - 1) :
         ~Matches(AllRoutes[m], AllRoutes[k].verb, AllRoutes[k].path)
<1>1. Requests = 1..Len(AllRoutes) /\ Len(AllRoutes) \in Nat /\ \A j \in Requests : Safe(AllRoutes[j])
  BY EveryRouteSafe DEF SafeTable, IsTable, Requests
<1> TAKE k \in Requests
<1> DEFINE Meets(j) == Matches(AllRoutes[j], AllRoutes[k].verb, AllRoutes[k].path)
           M == {j \in Requests : Meets(j)}
<1>2. k \in M
  BY DEF Matches
<1>3. M \subseteq Nat
  BY <1>1
<1> HIDE DEF Meets
<1>4. PICK n \in M : \A m \in M : n <= m
  <2> HIDE DEF M
  <2> QED
    BY <1>2, <1>3, Least
<1>5. ASSUME NEW m \in 1..(n - 1) PROVE ~Meets(m)
  <2>1. m \in Requests /\ m < n
    BY <1>1, <1>4
  <2> QED
    BY <1>1, <1>4, <2>1
<1>6. \E j \in Requests : Meets(j) /\ \A m \in 1..(j - 1) : ~Meets(m)
  BY <1>4, <1>5
<1>7. Answering[k] = CHOOSE j \in Requests : Meets(j) /\ \A m \in 1..(j - 1) : ~Meets(m)
  BY DEF Answering, Meets
<1>8. /\ Answering[k] \in Requests /\ Meets(Answering[k])
      /\ \A m \in 1..(Answering[k] - 1) : ~Meets(m)
  BY <1>6, <1>7
<1> QED
  BY <1>1, <1>8 DEF Meets

\* Behind the door of a handler stands an active caller, and an admin behind
\* the one that activates accounts.
LEMMA DoorsHold ==
  ASSUME NEW h \in Handlers, NEW route \in Doors[h], NEW caller, Admits(route, caller)
  PROVE  caller.active /\ (h = "admin.activateUser" => caller.role = "admin")
<1>1. route.handler = h /\ Safe(route)
  BY AnswersAreSafe DEF Doors
<1>2. /\ ~route.public /\ "jwt" \in route.guards
      /\ h = "admin.activateUser" => "roles" \in route.guards /\ route.roles = {"admin"}
  BY <1>1, SafeAsks
<1> QED
  BY <1>2 DEF Admits, JwtAuthGuard, RolesGuard

(***************************************************************************)
(* One route takes the requests of another only where both belong to the   *)
(* same controller, and then asks for what the other one asks for.         *)
(***************************************************************************)
\* Route q takes the requests of route r, both written in one controller.
Takes(q, r) ==
  /\ q.verb = r.verb /\ Len(q.path) = Len(r.path) /\ Len(r.path) \in Nat
  /\ Len(r.path) >= 1 => q.path[1] \in {Param, r.path[1]}
  /\ Len(r.path) >= 2 => q.path[2] \in {Param, r.path[2]}
  /\ Len(r.path) >= 3 => q.path[3] \in {Param, r.path[3]}

\* The callers route q admits are among those r is meant for.
Stricter(q, r) ==
  /\ q.public => r.public
  /\ r.roles \in {{}, q.roles, Roles}

\* The one overlap that only the order of the routes keeps apart.
Overtakes(q, r) ==
  /\ q.handler = "users.getUserById" /\ q.verb = "GET"
  /\ Len(r.path) = 1 /\ r.path[1] = "stripe-account"

LEMMA UsersAgree ==
  ASSUME NEW q, NEW r, UsersRule(q), UsersRule(r), Takes(q, r), ~Overtakes(q, r)
  PROVE  Stricter(q, r)
<1> DEFINE n == Len(r.path)
<1>1. CASE r.roles = {"admin"} /\ r.verb = "GET" /\ n = 0
  <2>1. q.roles = {"admin"}
    BY <1>1 DEF UsersRule, Takes
  <2> QED
    BY <1>1, <2>1 DEF Stricter, UsersRule
<1>2. CASE r.roles = {"admin"} /\ r.verb = "PUT" /\ n = 2 /\ r.path[2] = "status"
  <2>1. q.roles = {"admin"}
    BY <1>2 DEF UsersRule, Takes
  <2> QED
    BY <1>2, <2>1 DEF Stricter, UsersRule
<1>3. CASE r.roles = {"freelancer"} /\ r.verb # "PUT" /\ n > 0 /\ r.path[1] = "stripe-account"
  <2>1. q.roles = {"freelancer"}
    BY <1>3 DEF UsersRule, Takes, Overtakes, Param
  <2> QED
    BY <1>3, <2>1 DEF Stricter, UsersRule
<1>4. CASE r.roles = {} \/ r.roles = Roles
  BY <1>4 DEF Stricter, UsersRule
<1> QED
  BY <1>1, <1>2, <1>3, <1>4 DEF UsersRule

LEMMA PaymentsAgree ==
  ASSUME NEW q, NEW r, PaymentsRule(q), PaymentsRule(r), Takes(q, r)
  PROVE  Stricter(q, r)
<1> DEFINE n == Len(r.path)
<1>1. CASE r.public /\ r.roles = {}
  BY <1>1 DEF Stricter
<1>2. CASE r.roles = {"client", "freelancer"} /\ r.verb = "POST" /\ n = 0
  <2>1. q.roles = {"client", "freelancer"} /\ ~q.public
    BY <1>2 DEF PaymentsRule, Takes
  <2> QED
    BY <1>2, <2>1 DEF Stricter
<1>3. CASE r.roles = {"client", "freelancer"} /\ r.verb = "POST" /\ n = 1 /\ r.path[1] = "create-intent"
  <2>1. q.roles = {"client", "freelancer"} /\ ~q.public
    BY <1>3 DEF PaymentsRule, Takes, Param
  <2> QED
    BY <1>3, <2>1 DEF Stricter
<1>4. CASE r.roles = {"admin"} /\ r.verb = "POST" /\ n = 2
  <2>1. q.roles = {"admin"} /\ ~q.public
    BY <1>4 DEF PaymentsRule, Takes
  <2> QED
    BY <1>4, <2>1 DEF Stricter
<1>5. CASE r.roles = {"admin"} /\ r.verb \notin {"GET", "POST"}
  <2>1. q.roles = {"admin"} /\ ~q.public
    BY <1>5 DEF PaymentsRule, Takes
  <2> QED
    BY <1>5, <2>1 DEF Stricter
<1>6. CASE r.roles = {"admin"} /\ r.verb = "GET" /\ r.path[1] = "transactions" /\ n = 2 /\ r.path[2] # "recent"
  <2>1. q.roles = {"admin"} /\ ~q.public
    BY <1>6 DEF PaymentsRule, Takes, Param
  <2> QED
    BY <1>6, <2>1 DEF Stricter
<1>7. CASE /\ r.roles = {"admin"} /\ r.verb = "GET" /\ r.path[1] = "transactions" /\ n = 3
           /\ r.path[2] = "by-transaction-id" /\ r.path[3] = Param
  <2>1. q.roles = {"admin"} /\ ~q.public
    BY <1>7 DEF PaymentsRule, Takes, Param
  <2> QED
    BY <1>7, <2>1 DEF Stricter
<1>8. CASE r.roles = Roles /\ r.verb = "GET"
  <2>1. ~q.public
    BY <1>8 DEF PaymentsRule, Takes
  <2> QED
    BY <1>8, <2>1 DEF Stricter
<1> QED
  BY <1>1, <1>2, <1>3, <1>4, <1>5, <1>6, <1>7, <1>8 DEF PaymentsRule

LEMMA DashboardAgrees ==
  ASSUME NEW q, NEW r, DashboardRule(q), DashboardRule(r), Takes(q, r)
  PROVE  Stricter(q, r)
<1>1. CASE Len(r.path) = 1
  <2>1. q.path[1] = r.path[1] /\ q.roles = {q.path[1]} /\ r.roles = {r.path[1]} /\ ~q.public
    BY <1>1 DEF DashboardRule, Takes
  <2> QED
    BY <2>1 DEF Stricter
<1>2. CASE Len(r.path) # 1
  <2>1. q.roles = {"client", "freelancer"} /\ r.roles = {"client", "freelancer"} /\ ~q.public
    BY <1>2 DEF DashboardRule, Takes
  <2> QED
    BY <2>1 DEF Stricter
<1> QED
  BY <1>1, <1>2

LEMMA AuthAgrees ==
  ASSUME NEW q, NEW r, AuthRule(q), AuthRule(r), Takes(q, r)
  PROVE  Stricter(q, r)
BY DEF AuthRule, SignedIn, Takes, Stricter, Param

LEMMA JobsAgree ==
  ASSUME NEW q, NEW r, JobsRule(q), JobsRule(r), Takes(q, r)
  PROVE  Stricter(q, r)
BY DEF JobsRule, Takes, Stricter, Param

LEMMA ProposalsAgree ==
  ASSUME NEW q, NEW r, ProposalsRule(q), ProposalsRule(r), Takes(q, r)
  PROVE  Stricter(q, r)
BY DEF ProposalsRule, Takes, Stricter, Param

LEMMA CataloguesAgree ==
  ASSUME NEW q, NEW r, CatalogueRule(q), CatalogueRule(r), Takes(q, r)
  PROVE  Stricter(q, r)
BY DEF CatalogueRule, Takes, Stricter, Param

LEMMA ContractsAgree ==
  ASSUME NEW q, NEW r, ContractsRule(q), ContractsRule(r), Takes(q, r)
  PROVE  Stricter(q, r)
<1>1. ~q.public
  BY DEF ContractsRule
<1>2. ASSUME r.verb # "POST" PROVE r.roles = {}
  BY <1>2 DEF ContractsRule
<1>3. ASSUME r.verb = "POST", Len(r.path) = 2 PROVE q.roles = r.roles
  <2>1. q.path[2] = r.path[2]
    BY <1>3 DEF ContractsRule, Takes, Param
  <2> QED
    BY <1>3, <2>1 DEF ContractsRule, Takes
<1>4. ASSUME r.verb = "POST", Len(r.path) # 2 PROVE q.roles = r.roles
  BY <1>4 DEF ContractsRule, Takes
<1> QED
  BY <1>1, <1>2, <1>3, <1>4 DEF Stricter

LEMMA ReviewsAgree ==
  ASSUME NEW q, NEW r, ReviewsRule(q), ReviewsRule(r), Takes(q, r)
  PROVE  Stricter(q, r)
BY DEF ReviewsRule, Takes, Stricter, Param

LEMMA WithdrawalsAgree ==
  ASSUME NEW q, NEW r, WithdrawalsRule(q), WithdrawalsRule(r), Takes(q, r)
  PROVE  Stricter(q, r)
BY DEF WithdrawalsRule, Takes, Stricter, Param

LEMMA DisputesAgree ==
  ASSUME NEW q, NEW r, DisputesRule(q), DisputesRule(r), Takes(q, r)
  PROVE  Stricter(q, r)
<1>1. ~q.public
  BY DEF DisputesRule
<1>2. CASE r.roles = {}
  BY <1>1, <1>2 DEF Stricter
<1>3. CASE r.roles = {"admin"} /\ Len(r.path) = 2 /\ r.verb = "GET"
  <2>1. q.roles = {"admin"}
    BY <1>3 DEF DisputesRule, Takes
  <2> QED
    BY <1>1, <1>3, <2>1 DEF Stricter
<1>4. CASE r.roles = {"admin"} /\ Len(r.path) = 2 /\ r.verb = "POST" /\ r.path[2] = "resolve"
  <2>1. q.roles = {"admin"}
    BY <1>4 DEF DisputesRule, Takes
  <2> QED
    BY <1>1, <1>4, <2>1 DEF Stricter
<1> QED
  BY <1>2, <1>3, <1>4 DEF DisputesRule

LEMMA RoutesAgree ==
  ASSUME NEW prefix, NEW q, NEW r, Rule(prefix, q), Rule(prefix, r), Takes(q, r),
         prefix = "users" => ~Overtakes(q, r)
  PROVE  Stricter(q, r)
<1>1. CASE prefix \in {"auth", "users", "jobs", "proposals"}
  BY <1>1, AuthAgrees, UsersAgree, JobsAgree, ProposalsAgree DEF Rule
<1>2. CASE prefix \in {"skills", "categories", "contracts", "payments"}
  BY <1>2, CataloguesAgree, ContractsAgree, PaymentsAgree DEF Rule
<1>3. CASE prefix \in {"dashboard", "reviews", "withdrawals", "disputes"}
  BY <1>3, DashboardAgrees, ReviewsAgree, WithdrawalsAgree, DisputesAgree DEF Rule
<1>4. CASE prefix \notin {"auth", "users", "jobs", "proposals", "skills", "categories", "contracts",
                        "payments", "dashboard", "reviews", "withdrawals", "disputes"}
  <2>1. ~q.public /\ q.roles = {} /\ r.roles = {}
    BY <1>4 DEF Rule
  <2> QED
    BY <2>1 DEF Stricter
<1> QED
  BY <1>1, <1>2, <1>3, <1>4

LEMMA RegisteredServes ==
  ASSUME NEW q, NEW r, Registered(q), Registered(r), Matches(q, r.verb, r.path),
         ~(q.handler = "users.getUserById" /\ r.verb = "GET" /\ r.path = StripeAccountPath),
         NEW caller, caller.role \in Roles, Admits(q, caller)
  PROVE  Meant(r, caller)
<1>1. PICK f, g, a :
        f # Param /\ Sound(a, f, g, BaseRoles(f)) /\ q = Under(f, g, BaseRoles(f), a)
  BY DEF Registered
<1>2. PICK h, l, b :
        h # Param /\ Sound(b, h, l, BaseRoles(h)) /\ r = Under(h, l, BaseRoles(h), b)
  BY DEF Registered
<1>3. IsRoute(a) /\ IsTable(a.path) /\ IsRoute(b) /\ IsTable(b.path) /\ Rule(f, a) /\ Rule(h, b)
  BY <1>1, <1>2 DEF Sound
<1>4. /\ q.verb = a.verb /\ q.handler = a.handler /\ q.public = a.public /\ q.path = <<f>> \o a.path
      /\ q.guards = g \union a.guards /\ q.roles = IF a.roles = {} THEN BaseRoles(f) ELSE a.roles
  BY <1>1, <1>3, UnderIs
<1>5. /\ r.verb = b.verb /\ r.public = b.public /\ r.path = <<h>> \o b.path
      /\ r.roles = IF b.roles = {} THEN BaseRoles(h) ELSE b.roles
  BY <1>2, <1>3, UnderIs
<1>6. /\ IsTable(q.path) /\ Len(q.path) = Len(a.path) + 1 /\ q.path[1] = f
      /\ \A k \in 1..Len(a.path) : q.path[k + 1] = a.path[k]
  BY <1>3, <1>4, PathIs
<1>7. /\ IsTable(r.path) /\ Len(r.path) = Len(b.path) + 1 /\ r.path[1] = h
      /\ \A k \in 1..Len(b.path) : r.path[k + 1] = b.path[k]
  BY <1>3, <1>5, PathIs
<1>8. Len(a.path) \in Nat /\ Len(b.path) \in Nat
  BY <1>3 DEF IsTable
<1>9. /\ q.verb = r.verb /\ Len(q.path) = Len(r.path)
      /\ \A i \in 1..Len(r.path) : q.path[i] \in {Param, r.path[i]}
  BY <1>7 DEF Matches, IsTable
<1>10. f = h /\ Len(a.path) = Len(b.path)
  BY <1>1, <1>6, <1>7, <1>8, <1>9
<1>11. \A k \in 1..Len(b.path) : a.path[k] \in {Param, b.path[k]}
  <2> TAKE k \in 1..Len(b.path)
  <2>1. k + 1 \in 1..Len(r.path)
    BY <1>7, <1>8
  <2>2. q.path[k + 1] \in {Param, r.path[k + 1]}
    BY <1>9, <2>1
  <2> QED
    BY <1>6, <1>7, <1>10, <2>2
<1>12. Takes(a, b)
  BY <1>4, <1>5, <1>8, <1>9, <1>10, <1>11 DEF Takes
<1>13. ASSUME f = "users", Overtakes(a, b) PROVE FALSE
  <2>1. Len(r.path) = 2 /\ r.path[1] = "users" /\ r.path[2] = "stripe-account"
    BY <1>7, <1>10, <1>13 DEF Overtakes
  <2>2. r.path = StripeAccountPath
    BY <1>7, <2>1 DEF IsTable, StripeAccountPath
  <2> QED
    BY <1>4, <1>9, <1>13, <2>2 DEF Overtakes
<1>14. Stricter(a, b)
  BY <1>3, <1>10, <1>12, <1>13, RoutesAgree
<1>15. ~a.public => "jwt" \in q.guards
  BY <1>1, <1>4 DEF Sound
<1>16. a.roles # {} \/ BaseRoles(f) # {} => "roles" \in q.guards
  BY <1>1, <1>4 DEF Sound
<1>17. r.public \/ (caller.token /\ caller.active)
  BY <1>4, <1>5, <1>14, <1>15 DEF Stricter, Admits, JwtAuthGuard
<1>18. q.roles # {} => caller.role \in q.roles
  BY <1>4, <1>16 DEF Admits, RolesGuard
<1>19. ASSUME r.roles # {} PROVE caller.role \in r.roles
  <2>1. CASE b.roles = {}
    <3>1. r.roles = BaseRoles(f) /\ f = "admin"
      BY <1>5, <1>10, <1>19, <2>1 DEF BaseRoles
    <3>2. a.roles = {}
      BY <1>3, <3>1 DEF Rule
    <3> QED
      BY <1>4, <1>18, <1>19, <3>1, <3>2
  <2>2. CASE b.roles # {} /\ b.roles = a.roles
    BY <1>4, <1>5, <1>18, <2>2
  <2>3. CASE b.roles # {} /\ b.roles = Roles
    BY <1>5, <2>3
  <2> QED
    BY <1>14, <2>1, <2>2, <2>3 DEF Stricter
<1> QED
  BY <1>17, <1>19 DEF Meant

\* A route of the application itself takes no request of a controller.
LEMMA RootTakesNothing ==
  ASSUME NEW q, NEW r, AtRoot(q), Registered(r)
  PROVE  ~Matches(q, r.verb, r.path)
<1>1. PICK h, l, b :
        h \notin {Param, "favicon.ico"} /\ Sound(b, h, l, BaseRoles(h)) /\ r = Under(h, l, BaseRoles(h), b)
  BY DEF Registered
<1>2. IsRoute(b) /\ IsTable(b.path)
  BY <1>1 DEF Sound
<1>3. r.path = <<h>> \o b.path
  BY <1>1, <1>2, UnderIs
<1>4. Len(b.path) \in Nat
  BY <1>2 DEF IsTable
<1>5. /\ IsTable(r.path) /\ Len(r.path) = Len(b.path) + 1 /\ r.path[1] = h
      /\ \A k \in 1..Len(b.path) : r.path[k + 1] = b.path[k]
  BY <1>2, <1>3, PathIs
<1> SUFFICES ASSUME Len(q.path) = Len(r.path), \A i \in 1..Len(r.path) : q.path[i] \in {Param, r.path[i]}
             PROVE  FALSE
  BY <1>5 DEF Matches, IsTable
<1>6. 1 \in 1..Len(r.path) /\ q.path[1] \in {Param, h}
  BY <1>4, <1>5
<1>7. q.path = <<"favicon.ico">>
  BY <1>4, <1>5 DEF AtRoot
<1>8. q.path[1] = "favicon.ico" /\ "favicon.ico" # Param
  BY <1>7 DEF Param
<1> QED
  BY <1>1, <1>6, <1>8

LEMMA SafeServes ==
  ASSUME NEW q, NEW r, Safe(q), Safe(r), Matches(q, r.verb, r.path),
         ~(q.handler = "users.getUserById" /\ r.verb = "GET" /\ r.path = StripeAccountPath),
         NEW caller, caller.role \in Roles, Admits(q, caller)
  PROVE  Meant(r, caller)
<1>1. CASE AtRoot(r)
  BY <1>1 DEF AtRoot, Meant
<1>2. CASE Registered(r)
  <2>1. Registered(q)
    BY <1>2, RootTakesNothing DEF Safe
  <2> QED
    BY <1>2, <2>1, RegisteredServes
<1> QED
  BY <1>1, <1>2 DEF Safe

\* Whichever route a request is meant for, the one that answers it admits only the
\* callers the former is meant for.
LEMMA EveryRouteServes ==
  ASSUME NEW caller, caller.role \in Roles
  PROVE  MeantFor(caller)
<1> SUFFICES ASSUME NEW i \in Requests, Admits(AllRoutes[Answering[i]], caller)
             PROVE  Meant(AllRoutes[i], caller)
  BY DEF MeantFor
<1> DEFINE r == AllRoutes[i]
           n == Answering[i]
           q == AllRoutes[n]
<1>1. /\ n \in Requests /\ Safe(q) /\ Matches(q, r.verb, r.path)
      /\ \A m \in 1..(n - 1) : ~Matches(AllRoutes[m], r.verb, r.path)
  BY AnswersAreSafe
<1>2. Safe(r) /\ Requests = 1..Len(AllRoutes) /\ Ordered(AllRoutes)
  BY EveryRouteSafe DEF SafeTable, IsTable, Requests
<1>3. Admits(q, caller)
  OBVIOUS
<1> HIDE DEF n, q
<1>4. ASSUME q.handler = "users.getUserById", r.verb = "GET", r.path = StripeAccountPath
      PROVE  FALSE
  <2>1. PICK k \in 1..(n - 1) :
          AllRoutes[k].verb = "GET" /\ AllRoutes[k].path = StripeAccountPath
    BY <1>1, <1>2, <1>4 DEF Ordered, Precedes, q
  <2>2. Matches(AllRoutes[k], r.verb, r.path)
    BY <1>4, <2>1 DEF Matches
  <2> QED
    BY <1>1, <2>1, <2>2
<1> HIDE DEF r
<1> QED
  BY <1>1, <1>2, <1>3, <1>4, SafeServes DEF r

-----------------------------------------------------------------------------
USE AccountsAssumption, BoundsAssumption

(***************************************************************************)
(* Types.  A code is presented only while it can be guessed, so counting   *)
(* the attempt keeps within the limit; a handler runs for accounts.        *)
(***************************************************************************)
Subjects == {"run", "put", "clear", "use"}

RequestsHold ==
  \A s \in Slots :
    /\ At(s, "count") => request[s].attempts < MaxAttempts
    /\ request[s].stage \in {"count", "apply", "use"} => request[s].code \in Codes
    /\ request[s].stage \in Subjects => request[s].for \in Ids
    /\ At(s, "put") => request[s].view \in View

TypeInv == TypeOK /\ RequestsHold

LEMMA BlankTyped ==
  /\ Blank \in Request
  /\ Blank.stage = "idle" /\ Blank.by = Nothing
<1> DEFINE e == CHOOSE e \in Emails : TRUE
<1>1. e \in Emails
  BY DEF Emails
<1>2. Blank = [stage |-> "idle", op |-> "none", by |-> Nothing, for |-> Nothing, email |-> e,
               purpose |-> "login", code |-> 0, attempts |-> 0, used |-> FALSE, view |-> Nothing]
  BY DEF Blank
<1> HIDE DEF e
<1> QED
  BY <1>1, <1>2 DEF Request, Stages, Purposes

LEMMA TypeInitially == Init => TypeInv
<1> SUFFICES ASSUME Init PROVE TypeInv
  OBVIOUS
<1>1. account \in [Ids -> Account]
  BY DEF Init, Account
<1>2. code \in [Codes -> Code]
  BY BlankTyped DEF Init, Code, Request, Purposes
<1>3. request \in [Slots -> Request] /\ RequestsHold
  BY BlankTyped DEF Init, RequestsHold, At, Subjects
<1>4. ledger \in [Codes -> [guesses : Nat, uses : Nat, disturbed : BOOLEAN]]
  BY DEF Init
<1>5. /\ session \in [Ids -> SUBSET {"access", "refresh"}]
      /\ cache \in [Ids -> View \union {Nothing}]
      /\ proved \subseteq Emails \X Purposes /\ vouched \subseteq Ids /\ excused \subseteq Ids
  BY DEF Init
<1> QED
  BY <1>1, <1>2, <1>3, <1>4, <1>5 DEF TypeInv, TypeOK

(***************************************************************************)
(* What the handlers do to the requests.                                   *)
(***************************************************************************)
RequestsTyped == request \in [Slots -> Request] /\ RequestsHold

\* One request becomes q, the others stay.
Becomes(s, q) == /\ request'[s] = q
                 /\ \A t \in Slots \ {s} : request'[t] = request[t]

\* A request that goes on to another stage, and one that asks for a code.
InStage(q, stage) == [q EXCEPT !.stage = stage]
Sent(email, purpose) == [Blank EXCEPT !.stage = "delete", !.email = email, !.purpose = purpose]

LEMMA Becoming ==
  ASSUME RequestsTyped, NEW s \in Slots, NEW q \in Request, request' = [request EXCEPT ![s] = q],
         q.stage = "count" => q.attempts < MaxAttempts,
         q.stage \in {"count", "apply", "use"} => q.code \in Codes,
         q.stage \in Subjects => q.for \in Ids,
         q.stage = "put" => q.view \in View
  PROVE  RequestsTyped' /\ Becomes(s, q)
BY DEF RequestsTyped, RequestsHold, Becomes, At

LEMMA Ending ==
  ASSUME RequestsTyped, NEW s \in Slots, Done(s)
  PROVE  RequestsTyped' /\ Becomes(s, Blank)
BY BlankTyped, Becoming DEF Done, Subjects

LEMMA Advancing ==
  ASSUME RequestsTyped, NEW s \in Slots, NEW stage \in Stages \ {"count"}, Goto(s, stage),
         stage \in {"apply", "use"} => request[s].code \in Codes,
         stage \in Subjects => request[s].for \in Ids,
         stage = "put" => request[s].view \in View
  PROVE  RequestsTyped' /\ Becomes(s, InStage(request[s], stage))
<1> DEFINE q == InStage(request[s], stage)
<1>1. q \in Request /\ q.stage = stage /\ q.code = request[s].code /\ q.for = request[s].for /\ q.view = request[s].view
  BY DEF RequestsTyped, Request, InStage
<1>2. request' = [request EXCEPT ![s] = q]
  BY DEF Goto, InStage
<1> HIDE DEF q
<1>3. RequestsTyped' /\ Becomes(s, q)
  BY <1>1, <1>2, Becoming
<1> QED
  BY <1>3 DEF q

LEMMA Sending ==
  ASSUME RequestsTyped, NEW s \in Slots, NEW email \in Emails, NEW purpose \in Purposes,
         StartSending(s, email, purpose)
  PROVE  RequestsTyped' /\ Becomes(s, Sent(email, purpose))
<1> DEFINE q == Sent(email, purpose)
<1>1. q \in Request /\ q.stage = "delete"
  BY BlankTyped DEF Request, Stages, Sent
<1>2. request' = [request EXCEPT ![s] = q]
  BY DEF StartSending, Sent
<1> HIDE DEF q
<1>3. RequestsTyped' /\ Becomes(s, q)
  BY <1>1, <1>2, Becoming DEF Subjects
<1> QED
  BY <1>3 DEF q

(***************************************************************************)
(* Every step keeps the types.                                             *)
(***************************************************************************)
Stored ==
  /\ account \in [Ids -> Account]
  /\ code \in [Codes -> Code]
  /\ session \in [Ids -> SUBSET {"access", "refresh"}]
  /\ cache \in [Ids -> View \union {Nothing}]

Recorded ==
  /\ ledger \in [Codes -> [guesses : Nat, uses : Nat, disturbed : BOOLEAN]]
  /\ proved \subseteq Emails \X Purposes
  /\ vouched \subseteq Ids /\ excused \subseteq Ids

LEMMA TypesSplit == TypeInv => Stored /\ Recorded /\ RequestsTyped
BY DEF Stored, Recorded, TypeInv, TypeOK, RequestsTyped

LEMMA TypesJoin == Stored' /\ Recorded' /\ RequestsTyped' => TypeInv'
BY DEF Stored, Recorded, TypeInv, TypeOK, RequestsTyped

LEMMA AddressTyped == \A u \in Ids : EmailOf[u] \in Emails
BY DEF Emails

\* The requests for a code.
LEMMA SendingTypes ==
  ASSUME TypeInv, NEW s \in Slots,
         \/ \E u \in Ids : Register(s, u) \/ LoginUnverified(s, u)
         \/ \E e \in Mailed : SendVerification(s, e) \/ ForgotPassword(s, e)
         \/ \E e \in Mailed, p \in Purposes : ResendOtp(s, e, p)
  PROVE  TypeInv'
<1>1. ASSUME NEW u \in Ids, Register(s, u) PROVE TypeInv'
  <2>1. RequestsTyped'
    BY <1>1, TypesSplit, AddressTyped, Sending DEF Register, Purposes
  <2>2. account' \in [Ids -> Account]
    BY <1>1 DEF Register, TypeInv, TypeOK, Account
  <2> QED
    BY <1>1, <2>1, <2>2, TypesSplit, TypesJoin DEF Register, history, Stored, Recorded
<1>2. ASSUME NEW e \in Emails, NEW p \in Purposes, StartSending(s, e, p),
             UNCHANGED <<account, code, session, cache, history>>
      PROVE  TypeInv'
  <2>1. RequestsTyped'
    BY <1>2, TypesSplit, Sending
  <2> QED
    BY <1>2, <2>1, TypesSplit, TypesJoin DEF history, Stored, Recorded
<1> QED
  BY <1>1, <1>2, AddressTyped
     DEF LoginUnverified, SendVerification, ForgotPassword, ResendOtp, Purposes

LEMMA DeleteCodesTypes ==
  ASSUME TypeInv, NEW s \in Slots, DeleteCodes(s) PROVE TypeInv'
<1>1. RequestsTyped'
  BY TypesSplit, Advancing DEF DeleteCodes, Stages, Subjects
<1>2. code' \in [Codes -> Code]
  BY DEF DeleteCodes, TypeInv, TypeOK, Code
<1> QED
  BY <1>1, <1>2, TypesSplit, TypesJoin DEF DeleteCodes, history, Stored, Recorded

LEMMA InsertCodeTypes ==
  ASSUME TypeInv, NEW s \in Slots, InsertCode(s) PROVE TypeInv'
<1>1. RequestsTyped'
  BY TypesSplit, Ending DEF InsertCode
<1>2. request[s].email \in Emails /\ request[s].purpose \in Purposes
  BY DEF TypeInv, TypeOK, Request
<1>3. code' \in [Codes -> Code]
  BY <1>2 DEF InsertCode, TypeInv, TypeOK, Code
<1> QED
  BY <1>1, <1>3, TypesSplit, TypesJoin DEF InsertCode, history, Stored, Recorded

\* The request that presents a code, as it is after reading the document.
PurposeOf(op) == IF op = "auth.verifyEmail" THEN "email_verification" ELSE "password_reset"
Presented(e, op, c) ==
  [Blank EXCEPT !.stage = "count", !.op = op, !.email = e, !.purpose = PurposeOf(op),
                !.code = c, !.attempts = code[c].attempts, !.used = code[c].used]

LEMMA DisturbTyped ==
  ASSUME ledger \in [Codes -> [guesses : Nat, uses : Nat, disturbed : BOOLEAN]], NEW cs, Disturb(cs)
  PROVE  ledger' \in [Codes -> [guesses : Nat, uses : Nat, disturbed : BOOLEAN]]
<1> DEFINE Kept == [guesses : Nat, uses : Nat, disturbed : BOOLEAN]
<1>1. \A k \in Kept : [k EXCEPT !.disturbed = TRUE] \in Kept
  OBVIOUS
<1> HIDE DEF Kept
<1>2. ledger \in [Codes -> Kept]
  BY DEF Kept
<1>3. ledger' \in [Codes -> Kept]
  BY <1>1, <1>2 DEF Disturb
<1> QED
  BY <1>3 DEF Kept

LEMMA PresentCodeTypes ==
  ASSUME TypeInv, NEW s \in Slots, NEW e \in Mailed, NEW op \in {"auth.verifyEmail", "auth.resetPassword"},
         PresentCode(s, e, op)
  PROVE  TypeInv'
<1>1. PICK c \in Codes : /\ Guessable(c) /\ request' = [request EXCEPT ![s] = Presented(e, op, c)]
                         /\ Disturb({d \in {c} : \E t \in Slots : Holds(t, d)})
  BY Zenon DEF PresentCode, Presented, PurposeOf
<1>2. code[c].attempts \in 0..MaxAttempts /\ code[c].attempts < MaxAttempts /\ code[c].used \in BOOLEAN
  BY <1>1 DEF TypeInv, TypeOK, Code, Guessable
<1>3. PurposeOf(op) \in Purposes /\ e \in Emails
  BY DEF Purposes, PurposeOf
<1> DEFINE q == Presented(e, op, c)
<1>4. q \in Request /\ q.stage = "count" /\ q.code = c /\ q.attempts < MaxAttempts
  BY <1>2, <1>3, BlankTyped DEF Presented, Request, Stages
<1>5. RequestsTyped'
  <2> HIDE DEF q
  <2>1. request' = [request EXCEPT ![s] = q]
    BY <1>1 DEF q
  <2> QED
    BY <2>1, <1>4, TypesSplit, Becoming DEF Subjects
<1>6. ledger' \in [Codes -> [guesses : Nat, uses : Nat, disturbed : BOOLEAN]]
  BY DisturbTyped, <1>1, TypesSplit DEF Recorded
<1> QED
  BY <1>5, <1>6, TypesSplit, TypesJoin DEF PresentCode, Stored, Recorded

LEMMA CountAttemptTypes ==
  ASSUME TypeInv, NEW s \in Slots, NEW right \in BOOLEAN, CountAttempt(s, right) PROVE TypeInv'
<1> DEFINE c == request[s].code
<1>1. c \in Codes /\ request[s].attempts \in Nat /\ request[s].attempts < MaxAttempts
  BY DEF CountAttempt, TypeInv, TypeOK, RequestsHold, At, Request
<1>2. RequestsTyped'
  <2>1. Goto(s, "apply") \/ Done(s)
    BY DEF CountAttempt
  <2> QED
    BY <1>1, <2>1, TypesSplit, Ending, Advancing DEF Stages, Subjects
<1>3. code' \in [Codes -> Code]
  <2>1. code[c] \in Code /\ request[s].attempts + 1 \in 0..MaxAttempts
    BY <1>1 DEF TypeInv, TypeOK
  <2>2. [code[c] EXCEPT !.attempts = request[s].attempts + 1] \in Code
    BY <2>1 DEF Code
  <2>3. code' = code \/ code' = [code EXCEPT ![c] = [code[c] EXCEPT !.attempts = request[s].attempts + 1]]
    BY DEF CountAttempt
  <2> QED
    BY <1>1, <2>2, <2>3 DEF TypeInv, TypeOK
<1>4. ledger' \in [Codes -> [guesses : Nat, uses : Nat, disturbed : BOOLEAN]]
  BY <1>1 DEF CountAttempt, TypeInv, TypeOK
<1>5. proved' \subseteq Emails \X Purposes
  <2>1. code[c].email \in Emails /\ code[c].purpose \in Purposes
    BY <1>1 DEF TypeInv, TypeOK, Code
  <2>2. proved' = proved \/ proved' = proved \union {<<code[c].email, code[c].purpose>>}
    BY DEF CountAttempt
  <2> QED
    BY <2>1, <2>2 DEF TypeInv, TypeOK
<1> QED
  BY <1>2, <1>3, <1>4, <1>5, TypesSplit, TypesJoin DEF CountAttempt, Stored, Recorded

LEMMA ApplyCodeTypes ==
  ASSUME TypeInv, NEW s \in Slots, ApplyCode(s) PROVE TypeInv'
<1> DEFINE c == request[s].code
<1>1. c \in Codes /\ UNCHANGED <<code, session, cache, proved, vouched>>
  BY DEF ApplyCode, TypeInv, RequestsHold, At
<1>2. ASSUME NEW u \in Ids,
             IF request[s].op = "auth.verifyEmail" THEN VerifyEmail(u) ELSE ResetPassword(u),
             request' = [request EXCEPT ![s].stage = "use", ![s].for = u],
             ledger' = IF ledger[c].disturbed THEN ledger ELSE [ledger EXCEPT ![c].uses = @ + 1]
      PROVE  TypeInv'
  <2> DEFINE q == [request[s] EXCEPT !.stage = "use", !.for = u]
  <2>1. q \in Request /\ q.stage = "use" /\ q.for = u /\ q.code = c
    <3>1. request[s] \in Request
      BY DEF TypeInv, TypeOK
    <3> QED
      BY <3>1 DEF Request, Stages
  <2>2. request' = [request EXCEPT ![s] = q]
    BY <1>2
  <2>3. RequestsTyped'
    <3> HIDE DEF q
    <3> QED
      BY <1>1, <2>1, <2>2, TypesSplit, Becoming DEF Subjects
  <2>a. account[u] \in Account
    BY DEF TypeInv, TypeOK
  <2>4. account' \in [Ids -> Account] /\ excused' \subseteq Ids
    <3>1. CASE VerifyEmail(u)
      <4>1. [account[u] EXCEPT !.verified = TRUE] \in Account
        BY <2>a DEF Account
      <4> QED
        BY <3>1, <4>1 DEF VerifyEmail, TypeInv, TypeOK
    <3>2. CASE ResetPassword(u)
      <4>1. [account[u] EXCEPT !.password = "reset"] \in Account
        BY <2>a DEF Account
      <4> QED
        BY <3>2, <4>1 DEF ResetPassword, TypeInv, TypeOK
    <3> QED
      BY <1>2, <3>1, <3>2
  <2>5. ledger' \in [Codes -> [guesses : Nat, uses : Nat, disturbed : BOOLEAN]]
    BY <1>1, <1>2 DEF TypeInv, TypeOK
  <2> QED
    BY <1>1, <2>3, <2>4, <2>5, TypesSplit, TypesJoin DEF Stored, Recorded
<1>3. ASSUME Done(s), UNCHANGED <<account, excused, ledger>> PROVE TypeInv'
  BY <1>1, <1>3, TypesSplit, Ending, TypesJoin DEF Stored, Recorded
<1> QED
  BY <1>2, <1>3 DEF ApplyCode

LEMMA UseCodeTypes ==
  ASSUME TypeInv, NEW s \in Slots, UseCode(s) PROVE TypeInv'
<1>1. RequestsTyped'
  BY TypesSplit, Ending DEF UseCode
<1>2. request[s].code \in Codes /\ request[s].for \in Ids
  BY DEF UseCode, TypeInv, RequestsHold, At, Subjects
<1>3. code' \in [Codes -> Code]
  <2> DEFINE c == request[s].code
  <2>1. [code[c] EXCEPT !.used = TRUE] \in Code
    <3>1. code[c] \in Code
      BY <1>2 DEF TypeInv, TypeOK
    <3> QED
      BY <3>1 DEF Code
  <2>2. code' = code \/ code' = [code EXCEPT ![c] = [code[c] EXCEPT !.used = TRUE]]
    BY DEF UseCode
  <2> QED
    BY <1>2, <2>1, <2>2 DEF TypeInv, TypeOK
<1>4. session' \in [Ids -> SUBSET {"access", "refresh"}]
  BY <1>2 DEF UseCode, TypeInv, TypeOK
<1> QED
  BY <1>1, <1>3, <1>4, TypesSplit, TypesJoin DEF UseCode, history, Stored, Recorded

\* Requests of signed-in users: the handlers write an account, or a view of one,
\* into account and cache, and end, or go on to clear the entry.
LEMMA EnterTypes ==
  ASSUME TypeInv, NEW s \in Slots, NEW u \in Ids, NEW target \in Watched, NEW h \in Calls[u], Enter(s, u, h, target)
  PROVE  TypeInv'
<1> DEFINE q == [Blank EXCEPT !.stage = "run", !.op = h, !.by = u, !.for = target]
<1>1. h \in Handlers /\ target \in Ids
  OBVIOUS
<1>2. q \in Request /\ q.stage = "run" /\ q.for = target
  BY <1>1, BlankTyped DEF Request, Stages
<1>3. request' = [request EXCEPT ![s] = q] /\ UNCHANGED <<account, code, session, cache, history>>
  BY DEF Enter
<1> HIDE DEF q
<1>4. RequestsTyped'
  BY <1>1, <1>2, <1>3, TypesSplit, Becoming DEF Subjects
<1> QED
  BY <1>3, <1>4, TypesSplit, TypesJoin DEF history, Stored, Recorded

\* What the handlers write to an account is an account.
LEMMA AccountWrites ==
  ASSUME NEW a \in Account
  PROVE  /\ \A p \in Profiles : [a EXCEPT !.profile = p] \in Account
         /\ \A b \in BOOLEAN : [a EXCEPT !.active = b] \in Account
         /\ [a EXCEPT !.verified = TRUE] \in Account
         /\ [a EXCEPT !.state = "gone"] \in Account
         /\ [a EXCEPT !.state = "present"] \in Account
         /\ [a EXCEPT !.password = "chosen"] \in Account
         /\ [a EXCEPT !.password = "reset"] \in Account
BY DEF Account

LEMMA SavingTypes ==
  ASSUME TypeInv, NEW s \in Slots, NEW u \in Ids, NEW new \in Account, request[s].for = u, At(s, "run"),
         \/ SaveThenClear(s, u, new)
         \/ SaveOnly(s, u, new) /\ vouched' \subseteq Ids
  PROVE  TypeInv'
<1>1. RequestsTyped'
  BY TypesSplit, Ending, Advancing DEF SaveThenClear, SaveOnly, Stages, Subjects
<1>2. account' \in [Ids -> Account] /\ excused' \subseteq Ids
  BY DEF SaveThenClear, SaveOnly, TypeInv, TypeOK
<1> QED
  BY <1>1, <1>2, TypesSplit, TypesJoin DEF SaveThenClear, SaveOnly, Stored, Recorded

LEMMA RefusingTypes ==
  ASSUME TypeInv, NEW s \in Slots, Refuse(s) PROVE TypeInv'
BY TypesSplit, Ending, TypesJoin DEF Refuse, history, Stored, Recorded

\* The handlers that write an account.
Writing(s) ==
  \/ UpdateCurrentUser(s) \/ EditProfile(s) \/ SetAvatar(s)
  \/ \E isActive \in BOOLEAN : UpdateUserStatus(s, isActive)
  \/ DeactivateAccount(s) \/ ReactivateAccount(s) \/ DeleteAccount(s)
  \/ SuspendUser(s) \/ ActivateUser(s) \/ VerifyUser(s)

\* What a writing handler does: nothing, or one write of one of these forms.
LEMMA Writes ==
  ASSUME TypeInv, NEW s \in Slots, Writing(s)
  PROVE  \/ Refuse(s)
         \/ /\ At(s, "run") /\ request[s].for \in Ids /\ Present(request[s].for)
            /\ LET u == request[s].for
                   a == account[u]
               IN \/ \E p \in Profiles : \/ SaveThenClear(s, u, [a EXCEPT !.profile = p])
                                         \/ SaveOnly(s, u, [a EXCEPT !.profile = p]) /\ UNCHANGED vouched
                  \/ \E b \in BOOLEAN : \/ SaveThenClear(s, u, [a EXCEPT !.active = b])
                                        \/ SaveOnly(s, u, [a EXCEPT !.active = b]) /\ UNCHANGED vouched
                  \/ SaveThenClear(s, u, [a EXCEPT !.state = "gone"])
                  \/ /\ SaveOnly(s, u, [a EXCEPT !.verified = TRUE])
                     /\ vouched' = vouched \union {u}
<1>1. At(s, "run") /\ request[s].for \in Ids
  <2>1. At(s, "run")
    BY DEF Writing, UpdateCurrentUser, EditProfile, SetAvatar, UpdateUserStatus, DeactivateAccount,
           ReactivateAccount, DeleteAccount, SuspendUser, ActivateUser, VerifyUser, Running, At
  <2> QED
    BY <2>1 DEF TypeInv, RequestsHold, Subjects, At
<1>2. CASE UpdateCurrentUser(s) \/ EditProfile(s) \/ SetAvatar(s)
  BY <1>1, <1>2 DEF UpdateCurrentUser, EditProfile, SetAvatar
<1>3. CASE \E isActive \in BOOLEAN : UpdateUserStatus(s, isActive)
  BY <1>1, <1>3 DEF UpdateUserStatus
<1>4. CASE DeactivateAccount(s) \/ ReactivateAccount(s) \/ DeleteAccount(s)
  BY <1>1, <1>4 DEF DeactivateAccount, ReactivateAccount, DeleteAccount
<1>5. CASE SuspendUser(s) \/ ActivateUser(s) \/ VerifyUser(s)
  BY <1>1, <1>5 DEF SuspendUser, ActivateUser, VerifyUser
<1> QED
  BY <1>2, <1>3, <1>4, <1>5 DEF Writing

LEMMA WritingTypes ==
  ASSUME TypeInv, NEW s \in Slots, Writing(s) PROVE TypeInv'
<1> DEFINE u == request[s].for
           a == account[u]
<1>1. CASE Refuse(s)
  BY <1>1, RefusingTypes
<1>2. ASSUME At(s, "run"), u \in Ids, NEW new \in Account,
             SaveThenClear(s, u, new) \/ (SaveOnly(s, u, new) /\ vouched' \subseteq Ids)
      PROVE  TypeInv'
  <2> HIDE DEF u
  <2> QED
    BY <1>2, SavingTypes DEF u
<1>3. CASE ~Refuse(s)
  <2>1. At(s, "run") /\ u \in Ids
    BY <1>3, Writes
  <2>2. a \in Account /\ vouched \subseteq Ids
    BY <2>1 DEF TypeInv, TypeOK
  <2>3. /\ \A p \in Profiles : [a EXCEPT !.profile = p] \in Account
        /\ \A b \in BOOLEAN : [a EXCEPT !.active = b] \in Account
        /\ [a EXCEPT !.verified = TRUE] \in Account
        /\ [a EXCEPT !.state = "gone"] \in Account
    BY <2>2, AccountWrites
  <2>4. ASSUME NEW p \in Profiles,
               \/ SaveThenClear(s, u, [a EXCEPT !.profile = p])
               \/ SaveOnly(s, u, [a EXCEPT !.profile = p]) /\ UNCHANGED vouched
        PROVE  TypeInv'
    <3> DEFINE new == [a EXCEPT !.profile = p]
    <3>1. new \in Account
      BY <2>3
    <3> HIDE DEF new
    <3>2. SaveThenClear(s, u, new) \/ (SaveOnly(s, u, new) /\ vouched' \subseteq Ids)
      BY <2>2, <2>4 DEF new
    <3> QED
      BY <2>1, <3>1, <3>2, <1>2
  <2>5. ASSUME NEW b \in BOOLEAN,
               \/ SaveThenClear(s, u, [a EXCEPT !.active = b])
               \/ SaveOnly(s, u, [a EXCEPT !.active = b]) /\ UNCHANGED vouched
        PROVE  TypeInv'
    <3> DEFINE new == [a EXCEPT !.active = b]
    <3>1. new \in Account
      BY <2>3
    <3> HIDE DEF new
    <3>2. SaveThenClear(s, u, new) \/ (SaveOnly(s, u, new) /\ vouched' \subseteq Ids)
      BY <2>2, <2>5 DEF new
    <3> QED
      BY <2>1, <3>1, <3>2, <1>2
  <2>6. CASE SaveThenClear(s, u, [a EXCEPT !.state = "gone"])
    <3> DEFINE new == [a EXCEPT !.state = "gone"]
    <3>1. new \in Account
      BY <2>3
    <3> HIDE DEF new
    <3>2. SaveThenClear(s, u, new) \/ (SaveOnly(s, u, new) /\ vouched' \subseteq Ids)
      BY <2>2, <2>6 DEF new
    <3> QED
      BY <2>1, <3>1, <3>2, <1>2
  <2>7. CASE SaveOnly(s, u, [a EXCEPT !.verified = TRUE]) /\ vouched' = vouched \union {u}
    BY <2>1, <2>2, <2>3, <2>7, <1>2
  <2> QED
    BY <1>3, <2>4, <2>5, <2>6, <2>7, Writes
<1> QED
  BY <1>1, <1>3

LEMMA OwnTypes ==
  ASSUME TypeInv, NEW s \in Slots,
         ChangePassword(s) \/ ReadProfile(s) \/ PutProfile(s) \/ ClearProfile(s) \/ Fail(s)
  PROVE  TypeInv'
<1> DEFINE u == request[s].for
<1>1. CASE ChangePassword(s)
  <2>1. u \in Ids
    BY <1>1 DEF ChangePassword, Running, TypeInv, RequestsHold, Subjects
  <2>2. account[u] \in Account
    BY <2>1 DEF TypeInv, TypeOK
  <2>3. [account[u] EXCEPT !.password = "chosen"] \in Account
    BY <2>2, AccountWrites
  <2>4. account' \in [Ids -> Account]
    BY <1>1, <2>1, <2>3 DEF ChangePassword, TypeInv, TypeOK
  <2> QED
    BY <1>1, <2>4, TypesSplit, Ending, TypesJoin DEF ChangePassword, history, Stored, Recorded
<1>2. CASE ReadProfile(s)
  <2>1. UNCHANGED <<account, code, session, cache, history>>
    BY <1>2 DEF ReadProfile
  <2>2. CASE Done(s)
    BY <2>1, <2>2, TypesSplit, Ending, TypesJoin DEF history, Stored, Recorded
  <2>3. CASE Present(u) /\ request' = [request EXCEPT ![s].stage = "put", ![s].view = CurrentView(u)]
    <3>1. u \in Ids /\ request[s] \in Request
      BY <1>2 DEF ReadProfile, Running, TypeInv, TypeOK, RequestsHold, Subjects
    <3>2. account[u] \in Account
      BY <3>1 DEF TypeInv, TypeOK
    <3>3. CurrentView(u) \in View
      BY <2>3, <3>2 DEF CurrentView, ViewOf, View, Account
    <3> DEFINE q == [request[s] EXCEPT !.stage = "put", !.view = CurrentView(u)]
    <3>4. q \in Request /\ q.stage = "put" /\ q.for = u /\ q.view \in View
      BY <3>1, <3>3 DEF Request, Stages
    <3>5. request' = [request EXCEPT ![s] = q]
      BY <2>3
    <3> HIDE DEF q
    <3>6. RequestsTyped'
      BY <3>1, <3>4, <3>5, TypesSplit, Becoming
    <3> QED
      BY <2>1, <3>6, TypesSplit, TypesJoin DEF history, Stored, Recorded
  <2> QED
    BY <1>2, <2>2, <2>3 DEF ReadProfile
<1>3. CASE PutProfile(s)
  <2>1. u \in Ids /\ request[s].view \in View
    BY <1>3 DEF PutProfile, TypeInv, RequestsHold, Subjects, At
  <2>2. cache' \in [Ids -> View \union {Nothing}]
    BY <1>3, <2>1 DEF PutProfile, TypeInv, TypeOK
  <2> QED
    BY <1>3, <2>2, TypesSplit, Ending, TypesJoin DEF PutProfile, history, Stored, Recorded
<1>4. CASE ClearProfile(s)
  <2>1. cache' \in [Ids -> View \union {Nothing}] /\ excused' \subseteq Ids
    BY <1>4 DEF ClearProfile, TypeInv, TypeOK
  <2> QED
    BY <1>4, <2>1, TypesSplit, Ending, TypesJoin DEF ClearProfile, Stored, Recorded
<1>5. CASE Fail(s)
  <2>1. At(s, "clear") => u \in Ids
    BY DEF TypeInv, RequestsHold, Subjects, At
  <2>2. excused' \subseteq Ids
    BY <1>5, <2>1 DEF Fail, TypeInv, TypeOK
  <2>3. ledger' \in [Codes -> [guesses : Nat, uses : Nat, disturbed : BOOLEAN]]
    BY <1>5, DisturbTyped, TypesSplit DEF Fail, Recorded
  <2> QED
    BY <1>5, <2>2, <2>3, TypesSplit, Ending, TypesJoin DEF Fail, Stored, Recorded
<1> QED
  BY <1>1, <1>2, <1>3, <1>4, <1>5

LEMMA RestTypes ==
  ASSUME TypeInv,
         \/ \E u \in Ids : Login(u) \/ RefreshToken(u) \/ EvictProfile(u) \/ ExpireToken(u)
         \/ \E c \in Codes : ExpireCode(c)
         \/ Restart
  PROVE  TypeInv'
<1>0. RequestsTyped /\ (UNCHANGED request => RequestsTyped')
  BY TypesSplit DEF RequestsTyped, RequestsHold, At
<1>1. ASSUME NEW u \in Ids, Login(u) \/ RefreshToken(u) \/ ExpireToken(u) PROVE TypeInv'
  <2>1. session' \in [Ids -> SUBSET {"access", "refresh"}]
    BY <1>1 DEF Login, RefreshToken, ExpireToken, TypeInv, TypeOK
  <2> QED
    BY <1>0, <1>1, <2>1, TypesSplit, TypesJoin DEF Login, RefreshToken, ExpireToken, history,
       Stored, Recorded
<1>2. ASSUME NEW u \in Ids, EvictProfile(u) PROVE TypeInv'
  <2>1. cache' \in [Ids -> View \union {Nothing}] /\ excused' \subseteq Ids
    BY <1>2 DEF EvictProfile, TypeInv, TypeOK
  <2> QED
    BY <1>0, <1>2, <2>1, TypesSplit, TypesJoin DEF EvictProfile, Stored, Recorded
<1>3. ASSUME NEW c \in Codes, ExpireCode(c) PROVE TypeInv'
  <2>1. code[c] \in Code
    BY DEF TypeInv, TypeOK
  <2>2. [code[c] EXCEPT !.state = "gone"] \in Code /\ [code[c] EXCEPT !.expired = TRUE] \in Code
    BY <2>1 DEF Code
  <2>3. code' \in [Codes -> Code]
    BY <1>3, <2>2 DEF ExpireCode, TypeInv, TypeOK
  <2> QED
    BY <1>0, <1>3, <2>3, TypesSplit, TypesJoin DEF ExpireCode, history, Stored, Recorded
<1>4. CASE Restart
  <2>1. RequestsTyped'
    BY <1>4, BlankTyped DEF Restart, RequestsTyped, RequestsHold, At, Subjects
  <2>2. ledger' \in [Codes -> [guesses : Nat, uses : Nat, disturbed : BOOLEAN]]
    BY <1>4, DisturbTyped, TypesSplit DEF Restart, Recorded
  <2>3. cache' \in [Ids -> View \union {Nothing}] /\ excused' = {}
    BY <1>4 DEF Restart
  <2> QED
    BY <1>4, <2>1, <2>2, <2>3, TypesSplit, TypesJoin DEF Restart, Stored, Recorded
<1> QED
  BY <1>1, <1>2, <1>3, <1>4

LEMMA TypeStep == TypeInv /\ [Next]_vars => TypeInv'
<1> SUFFICES ASSUME TypeInv, [Next]_vars PROVE TypeInv'
  OBVIOUS
<1>1. CASE UNCHANGED vars
  BY <1>1 DEF vars, TypeInv, TypeOK, RequestsHold, At
<1>2. CASE Next
  BY <1>2, SendingTypes, DeleteCodesTypes, InsertCodeTypes, PresentCodeTypes, CountAttemptTypes,
     ApplyCodeTypes,
     UseCodeTypes, EnterTypes, WritingTypes, OwnTypes, RestTypes
     DEF Next, Writing
<1> QED
  BY <1>1, <1>2

LEMMA TypeInvariant == Spec => []TypeInv
BY TypeInitially, TypeStep, PTL DEF Spec

\* Accounts, codes, sessions, the cache and requests keep their types; no code
\* counts more attempts than the limit.
THEOREM TypeCorrect == Spec => []TypeOK
BY TypeInvariant, PTL DEF TypeInv

(***************************************************************************)
(* Steps that present no code.                                             *)
(***************************************************************************)
CodeStages == {"count", "apply", "use"}

PlainStep(s) ==
  /\ request[s].stage \notin CodeStages /\ request'[s].stage \notin CodeStages
  /\ \A t \in Slots \ {s} : request'[t] = request[t]
  /\ UNCHANGED <<ledger, proved>>

Asking(s) ==
  \/ \E u \in Ids : LoginUnverified(s, u)
  \/ \E e \in Mailed : SendVerification(s, e) \/ ForgotPassword(s, e)
  \/ \E e \in Mailed, p \in Purposes : ResendOtp(s, e, p)

Entering(s) == \E u \in Ids, target \in Watched : \E h \in Calls[u] : Enter(s, u, h, target)

Plain(s) ==
  \/ \E u \in Ids : Register(s, u)
  \/ Asking(s) \/ DeleteCodes(s) \/ InsertCode(s) \/ Entering(s) \/ Writing(s)
  \/ ChangePassword(s) \/ ReadProfile(s) \/ PutProfile(s) \/ ClearProfile(s)

Coded(s) ==
  \/ \E e \in Mailed, op \in {"auth.verifyEmail", "auth.resetPassword"} : PresentCode(s, e, op)
  \/ \E right \in BOOLEAN : CountAttempt(s, right)
  \/ ApplyCode(s) \/ UseCode(s)

\* The steps of Next, in the groups the proofs treat alike.
LEMMA Steps ==
  Next => \/ \E s \in Slots : Plain(s) \/ Coded(s) \/ Fail(s)
          \/ \E u \in Ids : Login(u) \/ RefreshToken(u) \/ EvictProfile(u) \/ ExpireToken(u)
          \/ \E c \in Codes : ExpireCode(c)
          \/ Restart
BY DEF Next, Plain, Asking, Entering, Writing, Coded

LEMMA SentStage ==
  ASSUME NEW e \in Emails, NEW p \in Purposes PROVE Sent(e, p).stage = "delete"
BY BlankTyped DEF Sent, Request

LEMMA PlainSteps ==
  ASSUME TypeInv, NEW s \in Slots, Plain(s) PROVE PlainStep(s)
<1> USE DEF CodeStages
<1>0. request \in [Slots -> Request] /\ RequestsTyped
  BY TypesSplit DEF RequestsTyped
<1>1. ASSUME request[s].stage \notin CodeStages, NEW q, Becomes(s, q), q.stage \notin CodeStages, UNCHANGED <<ledger, proved>>
      PROVE  PlainStep(s)
  BY <1>1 DEF PlainStep, Becomes
<1>2. ASSUME request[s].stage \notin CodeStages, Done(s), UNCHANGED <<ledger, proved>> PROVE PlainStep(s)
  BY <1>0, <1>1, <1>2, Ending, BlankTyped
<1>3. ASSUME request[s].stage \notin CodeStages, NEW stage \in {"insert", "clear", "put"}, Goto(s, stage), UNCHANGED <<ledger, proved>>
      PROVE  PlainStep(s)
  BY <1>0, <1>3 DEF Goto, PlainStep, Request
<1>4. ASSUME Free(s), NEW e \in Emails, NEW p \in Purposes, StartSending(s, e, p), UNCHANGED <<ledger, proved>>
      PROVE  PlainStep(s)
  BY <1>0, <1>1, <1>4, Sending, SentStage DEF Free
<1>5. CASE \E u \in Ids : Register(s, u)
  BY <1>4, <1>5, AddressTyped DEF Register, history, Purposes
<1>6. CASE Asking(s)
  BY <1>4, <1>6, AddressTyped
     DEF Asking, LoginUnverified, SendVerification, ForgotPassword, ResendOtp, history, Purposes
<1>7. CASE DeleteCodes(s) \/ InsertCode(s)
  BY <1>2, <1>3, <1>7 DEF DeleteCodes, InsertCode, history, At
<1>8. CASE Entering(s)
  <2>0. PICK u \in Ids, target \in Watched : \E h \in Calls[u] : Enter(s, u, h, target)
    BY <1>8 DEF Entering
  <2>a. PICK h \in Calls[u] : Enter(s, u, h, target)
    BY <2>0
  <2>1. /\ Free(s) /\ UNCHANGED <<ledger, proved>>
        /\ request' = [request EXCEPT ![s] = [Blank EXCEPT !.stage = "run", !.op = h, !.by = u, !.for = target]]
    BY <2>a DEF Enter, history
  <2>2. [Blank EXCEPT !.stage = "run", !.op = h, !.by = u, !.for = target].stage = "run"
    BY BlankTyped DEF Request
  <2> QED
    BY <1>0, <2>1, <2>2 DEF PlainStep, Free
<1>9. CASE Writing(s)
  <2>1. At(s, "run")
    BY <1>9 DEF Writing, UpdateCurrentUser, EditProfile, SetAvatar, UpdateUserStatus,
       DeactivateAccount,
                ReactivateAccount, DeleteAccount, SuspendUser, ActivateUser, VerifyUser, Running, At
  <2>2. (Done(s) \/ Goto(s, "clear")) /\ UNCHANGED <<ledger, proved>>
    <3>1. CASE Refuse(s)
      BY <3>1 DEF Refuse, history
    <3>2. CASE ~Refuse(s)
      BY <1>9, <3>2, Writes DEF SaveThenClear, SaveOnly
    <3> QED
      BY <3>1, <3>2
  <2> QED
    BY <1>2, <1>3, <2>1, <2>2 DEF At
<1>10. CASE ChangePassword(s) \/ PutProfile(s) \/ ClearProfile(s)
  BY <1>2, <1>10 DEF ChangePassword, PutProfile, ClearProfile, Running, At, history
<1>11. CASE ReadProfile(s)
  <2>1. request[s].stage \notin CodeStages /\ UNCHANGED <<ledger, proved>>
    BY <1>11 DEF ReadProfile, Running, history
  <2>2. \/ Done(s)
        \/ request' = [request EXCEPT ![s].stage = "put", ![s].view = CurrentView(request[s].for)]
    BY <1>11 DEF ReadProfile
  <2>3. request[s] \in Request
    BY <1>0
  <2> DEFINE q == [request[s] EXCEPT !.stage = "put", !.view = CurrentView(request[s].for)]
  <2>4. q.stage = "put"
    BY <2>3 DEF Request
  <2>5. CASE request' = [request EXCEPT ![s] = q]
    <3> HIDE DEF q
    <3> QED
      BY <1>0, <2>1, <2>4, <2>5 DEF PlainStep
  <2>6. CASE request' = [request EXCEPT ![s].stage = "put", ![s].view = CurrentView(request[s].for)]
    <3>1. request' = [request EXCEPT ![s] = q]
      BY <2>6
    <3> QED
      BY <2>5, <3>1
  <2> HIDE DEF q
  <2> QED
    BY <1>2, <2>1, <2>2, <2>6
<1> QED
  BY <1>5, <1>6, <1>7, <1>8, <1>9, <1>10, <1>11 DEF Plain

(***************************************************************************)
(* OnlyTheOwner rests on what a request that presents a code has read and  *)
(* proved: its code is of its address and purpose, a request that applies  *)
(* it was right about it, and one that verified an account has done so.    *)
(***************************************************************************)
Justified(q) ==
  q.stage \in CodeStages =>
    /\ q.purpose = PurposeOf(q.op)
    /\ q.stage = "count" => /\ code[q.code].state # "unsent"
                            /\ code[q.code].email = q.email /\ code[q.code].purpose = q.purpose
    /\ q.stage # "count" => <<q.email, q.purpose>> \in proved
    /\ q.stage = "use" /\ q.op = "auth.verifyEmail" => account[q.for].verified

OwnerInv == OnlyTheOwner /\ \A s \in Slots : Justified(request[s])

\* What every step may do to the accounts, sessions and codes.
OwnerFrame ==
  /\ proved \subseteq proved' /\ vouched \subseteq vouched'
  /\ \A u \in Ids :
       /\ account[u].verified => account'[u].verified
       /\ account'[u].verified =>
            account[u].verified \/ <<EmailOf[u], "email_verification">> \in proved \/ u \in vouched'
       /\ account'[u].password = "reset" =>
            account[u].password = "reset" \/ <<EmailOf[u], "password_reset">> \in proved
       /\ session'[u] # {} => session[u] # {} \/ account[u].verified
  /\ \A c \in Codes :
       code[c].state # "unsent" =>
         code'[c].state # "unsent" /\ code'[c].email = code[c].email /\ code'[c].purpose = code[c].purpose

LEMMA OwnerPreserved ==
  ASSUME TypeInv, OwnerInv, OwnerFrame,
         \A s \in Slots : request'[s] = request[s] \/ request'[s].stage \notin CodeStages \/ Justified(request[s])'
  PROVE  OwnerInv'
<1>1. OnlyTheOwner'
  BY DEF OwnerInv, OwnerFrame, OnlyTheOwner
<1>2. ASSUME NEW s \in Slots PROVE Justified(request[s])'
  <2>1. CASE request'[s] = request[s]
    <3>1. request[s].stage \in CodeStages => request[s].code \in Codes
      BY DEF TypeInv, RequestsHold, CodeStages
    <3>2. request[s].stage = "use" => request[s].for \in Ids
      BY DEF TypeInv, RequestsHold, Subjects
    <3>3. Justified(request[s])
      BY DEF OwnerInv
    <3> DEFINE q == request[s]
    <3>4. ASSUME q.stage \in CodeStages
          PROVE  /\ q.purpose = PurposeOf(q.op)
                 /\ q.stage = "count" => /\ code'[q.code].state # "unsent"
                                         /\ code'[q.code].email = q.email /\ code'[q.code].purpose = q.purpose
                 /\ q.stage # "count" => <<q.email, q.purpose>> \in proved'
                 /\ q.stage = "use" /\ q.op = "auth.verifyEmail" => account'[q.for].verified
      BY <3>1, <3>2, <3>3, <3>4 DEF OwnerFrame, Justified
    <3> QED
      BY <2>1, <3>4 DEF Justified, PurposeOf
  <2>2. CASE request'[s].stage \notin CodeStages
    BY <2>2 DEF Justified
  <2> QED
    BY <2>1, <2>2
<1> QED
  BY <1>1, <1>2 DEF OwnerInv

LEMMA OwnerInitially == Init => OwnerInv
<1> SUFFICES ASSUME Init PROVE OwnerInv
  OBVIOUS
<1>1. OnlyTheOwner
  <2>1. PICK p \in Profiles, founders \in Founders :
           /\ account = [u \in Ids |->
                [state |-> IF u \in founders THEN "present" ELSE "fresh", verified |-> u \in founders,
                 active |-> TRUE, profile |-> p, password |-> "chosen"]]
           /\ vouched = founders
    BY DEF Init
  <2>2. \A u \in Ids : /\ account[u].verified => u \in vouched
                       /\ account[u].password = "chosen"
    BY <2>1
  <2>3. \A u \in Ids : session[u] = {}
    BY DEF Init
  <2> QED
    BY <2>2, <2>3 DEF OnlyTheOwner
<1>2. \A s \in Slots : Justified(request[s])
  BY BlankTyped DEF Init, Justified, CodeStages
<1> QED
  BY <1>1, <1>2 DEF OwnerInv

\* Steps that write no account, session or code, and those that write one only.
LEMMA PlainFrame ==
  ASSUME TypeInv, OwnerInv, NEW s \in Slots, Plain(s) PROVE OwnerFrame
<1>0. UNCHANGED proved
  BY PlainSteps DEF PlainStep
<1>1. ASSUME UNCHANGED <<account, code, session, vouched>> PROVE OwnerFrame
  BY <1>0, <1>1 DEF OwnerFrame
<1>2. ASSUME NEW u \in Ids, Register(s, u) PROVE OwnerFrame
  <2>1. \A v \in Ids : account'[v].verified = account[v].verified /\ account'[v].password = account[v].password
    BY <1>2 DEF Register, TypeInv, TypeOK, Account
  <2> QED
    BY <1>0, <1>2, <2>1 DEF Register, history, OwnerFrame
<1>a. CASE Asking(s)
  BY <1>1, <1>a DEF Asking, LoginUnverified, SendVerification, ForgotPassword, ResendOtp, history
<1>b. CASE Entering(s)
  BY <1>1, <1>b DEF Entering, Enter, history
<1>3. CASE ReadProfile(s) \/ PutProfile(s) \/ ClearProfile(s)
  BY <1>1, <1>3 DEF ReadProfile, PutProfile, ClearProfile, history
<1>4. CASE DeleteCodes(s)
  <2>1. ASSUME NEW c \in Codes, code[c].state # "unsent"
        PROVE  code'[c].state # "unsent" /\ code'[c].email = code[c].email /\ code'[c].purpose = code[c].purpose
    <3>1. code[c] \in Code
      BY DEF TypeInv, TypeOK
    <3>2. code'[c] = code[c] \/ code'[c] = [code[c] EXCEPT !.state = "gone"]
      BY <1>4 DEF DeleteCodes
    <3> QED
      BY <2>1, <3>1, <3>2 DEF Code
  <2> QED
    BY <1>0, <1>4, <2>1 DEF DeleteCodes, history, OwnerFrame
<1>5. CASE InsertCode(s)
  <2>1. \A c \in Codes : code[c].state # "unsent" => code'[c] = code[c]
    BY <1>5 DEF InsertCode, TypeInv, TypeOK
  <2> QED
    BY <1>0, <1>5, <2>1 DEF InsertCode, history, OwnerFrame
<1>6. CASE ChangePassword(s)
  <2>1. \A v \in Ids : /\ account'[v].verified = account[v].verified
                       /\ account'[v].password \in {account[v].password, "chosen"}
    BY <1>6 DEF ChangePassword, TypeInv, TypeOK, Account
  <2> QED
    BY <1>0, <1>6, <2>1 DEF ChangePassword, history, OwnerFrame
<1>7. CASE Writing(s)
  <2>1. CASE Refuse(s)
    BY <1>1, <2>1 DEF Refuse, history
  <2>2. ASSUME ~Refuse(s) PROVE OwnerFrame
    <3> DEFINE u == request[s].for
               a == account[u]
    <3>1. u \in Ids /\ UNCHANGED <<code, session>>
      BY <1>7, <2>2, Writes DEF SaveThenClear, SaveOnly
    <3>2. a \in Account
      BY <3>1 DEF TypeInv, TypeOK
    <3>3. ASSUME NEW new \in Account, account' = [account EXCEPT ![u] = new], vouched \subseteq vouched',
                 new.password = a.password, a.verified => new.verified,
                 new.verified => a.verified \/ u \in vouched'
          PROVE  OwnerFrame
      <4>1. \A v \in Ids : account'[v] = IF v = u THEN new ELSE account[v]
        BY <3>1, <3>3 DEF TypeInv, TypeOK
      <4>2. \A v \in Ids : account'[v].password = account[v].password
        BY <3>3, <4>1
      <4>3. \A v \in Ids : /\ account[v].verified => account'[v].verified
                           /\ account'[v].verified => account[v].verified \/ v \in vouched'
        BY <3>3, <4>1
      <4> HIDE DEF u, a
      <4> QED
        BY <1>0, <3>1, <3>3, <4>2, <4>3 DEF OwnerFrame
    <3>4. ASSUME NEW new \in Account, new.password = a.password, new.verified = a.verified,
                 SaveThenClear(s, u, new) \/ (SaveOnly(s, u, new) /\ UNCHANGED vouched)
          PROVE  OwnerFrame
      BY <3>3, <3>4 DEF SaveThenClear, SaveOnly
    <3>5. ASSUME NEW p \in Profiles,
                 \/ SaveThenClear(s, u, [a EXCEPT !.profile = p])
                 \/ SaveOnly(s, u, [a EXCEPT !.profile = p]) /\ UNCHANGED vouched
          PROVE  OwnerFrame
      <4> DEFINE new == [a EXCEPT !.profile = p]
      <4>1. new \in Account /\ new.password = a.password /\ new.verified = a.verified
        BY <3>2 DEF Account
      <4>2. SaveThenClear(s, u, new) \/ (SaveOnly(s, u, new) /\ UNCHANGED vouched)
        BY <3>5
      <4> HIDE DEF new
      <4> QED
        BY <3>4, <4>1, <4>2
    <3>6. ASSUME NEW b \in BOOLEAN,
                 \/ SaveThenClear(s, u, [a EXCEPT !.active = b])
                 \/ SaveOnly(s, u, [a EXCEPT !.active = b]) /\ UNCHANGED vouched
          PROVE  OwnerFrame
      <4> DEFINE new == [a EXCEPT !.active = b]
      <4>1. new \in Account /\ new.password = a.password /\ new.verified = a.verified
        BY <3>2 DEF Account
      <4>2. SaveThenClear(s, u, new) \/ (SaveOnly(s, u, new) /\ UNCHANGED vouched)
        BY <3>6
      <4> HIDE DEF new
      <4> QED
        BY <3>4, <4>1, <4>2
    <3>7. ASSUME SaveThenClear(s, u, [a EXCEPT !.state = "gone"]) PROVE OwnerFrame
      <4> DEFINE new == [a EXCEPT !.state = "gone"]
      <4>1. new \in Account /\ new.password = a.password /\ new.verified = a.verified
        BY <3>2 DEF Account
      <4>2. SaveThenClear(s, u, new)
        BY <3>7
      <4> HIDE DEF new
      <4> QED
        BY <3>4, <4>1, <4>2
    <3>8. ASSUME SaveOnly(s, u, [a EXCEPT !.verified = TRUE]), vouched' = vouched \union {u} PROVE OwnerFrame
      <4> DEFINE new == [a EXCEPT !.verified = TRUE]
      <4>1. new \in Account /\ new.password = a.password /\ new.verified
        BY <3>2 DEF Account
      <4>2. account' = [account EXCEPT ![u] = new]
        BY <3>8 DEF SaveOnly
      <4> HIDE DEF new
      <4> QED
        BY <3>3, <3>8, <4>1, <4>2
    <3> QED
      BY <1>7, <2>2, <3>5, <3>6, <3>7, <3>8, Writes
  <2> QED
    BY <2>1, <2>2
<1> QED
  BY <1>2, <1>a, <1>b, <1>3, <1>4, <1>5, <1>6, <1>7 DEF Plain

\* What the requests hold that present a code, count the attempt and apply it.
LEMMA PresentedHolds ==
  ASSUME TypeInv, NEW e \in Emails, NEW op \in {"auth.verifyEmail", "auth.resetPassword"}, NEW c \in Codes
  PROVE  /\ Presented(e, op, c).stage = "count" /\ Presented(e, op, c).op = op
         /\ Presented(e, op, c).email = e /\ Presented(e, op, c).purpose = PurposeOf(op)
         /\ Presented(e, op, c).code = c /\ Presented(e, op, c).attempts = code[c].attempts
         /\ Presented(e, op, c).used = code[c].used
BY BlankTyped DEF Presented, Request

LEMMA Presenting ==
  ASSUME TypeInv, NEW s \in Slots, NEW e \in Mailed, NEW op \in {"auth.verifyEmail", "auth.resetPassword"},
         PresentCode(s, e, op)
  PROVE  \E c \in Codes : /\ MatchesCode(c, e, PurposeOf(op)) /\ Becomes(s, Presented(e, op, c))
                          /\ Disturb({d \in {c} : \E t \in Slots : Holds(t, d)})
<1>1. PICK c \in Codes : /\ MatchesCode(c, e, PurposeOf(op)) /\ request' = [request EXCEPT ![s] = Presented(e, op, c)]
                         /\ Disturb({d \in {c} : \E t \in Slots : Holds(t, d)})
  BY Zenon DEF PresentCode, Presented, PurposeOf
<1>2. Becomes(s, Presented(e, op, c))
  BY <1>1, TypesSplit DEF RequestsTyped, Becomes
<1> QED
  BY <1>1, <1>2

LEMMA InStageHolds ==
  ASSUME NEW q \in Request, NEW stage
  PROVE  /\ InStage(q, stage).stage = stage /\ InStage(q, stage).op = q.op
         /\ InStage(q, stage).email = q.email /\ InStage(q, stage).purpose = q.purpose
         /\ InStage(q, stage).code = q.code /\ InStage(q, stage).for = q.for
         /\ InStage(q, stage).used = q.used /\ InStage(q, stage).view = q.view
BY DEF InStage, Request

LEMMA Counting ==
  ASSUME TypeInv, NEW s \in Slots, NEW right \in BOOLEAN, CountAttempt(s, right)
  PROVE  LET c == request[s].code
             compared == code[c].state = "live" /\ ~code[c].expired /\ ~request[s].used
         IN IF compared /\ right
            THEN /\ Becomes(s, InStage(request[s], "apply"))
                 /\ proved' = proved \union {<<code[c].email, code[c].purpose>>}
            ELSE Becomes(s, Blank) /\ UNCHANGED proved
<1> DEFINE c == request[s].code
           compared == code[c].state = "live" /\ ~code[c].expired /\ ~request[s].used
<1>1. c \in Codes
  BY DEF CountAttempt, TypeInv, RequestsHold, At
<1>2. CASE compared /\ right
  <2>1. Goto(s, "apply") /\ proved' = proved \union {<<code[c].email, code[c].purpose>>}
    BY <1>2 DEF CountAttempt
  <2>2. Becomes(s, InStage(request[s], "apply"))
    BY <1>1, <2>1, TypesSplit, Advancing DEF Stages, Subjects
  <2> QED
    BY <1>2, <2>1, <2>2
<1>3. CASE ~(compared /\ right)
  <2>1. Done(s) /\ UNCHANGED proved
    BY <1>3 DEF CountAttempt
  <2> QED
    BY <1>3, <2>1, TypesSplit, Ending
<1> QED
  BY <1>2, <1>3

\* The request that has applied its code to account u.
Applied(q, u) == [q EXCEPT !.stage = "use", !.for = u]

LEMMA AppliedHolds ==
  ASSUME NEW q \in Request, NEW u
  PROVE  /\ Applied(q, u).stage = "use" /\ Applied(q, u).op = q.op /\ Applied(q, u).for = u
         /\ Applied(q, u).email = q.email /\ Applied(q, u).purpose = q.purpose /\ Applied(q, u).code = q.code
BY DEF Applied, Request

LEMMA Applying ==
  ASSUME TypeInv, NEW s \in Slots, ApplyCode(s)
  PROVE  \/ \E u \in Ids :
              /\ EmailOf[u] = request[s].email
              /\ IF request[s].op = "auth.verifyEmail" THEN VerifyEmail(u) ELSE ResetPassword(u)
              /\ Becomes(s, Applied(request[s], u))
              /\ ledger' = IF ledger[request[s].code].disturbed THEN ledger
                           ELSE [ledger EXCEPT ![request[s].code].uses = @ + 1]
         \/ Becomes(s, Blank) /\ UNCHANGED <<account, excused, ledger>>
<1>1. ASSUME NEW u \in Ids, request' = [request EXCEPT ![s].stage = "use", ![s].for = u]
      PROVE  Becomes(s, Applied(request[s], u))
  <2>1. request' = [request EXCEPT ![s] = Applied(request[s], u)]
    BY <1>1 DEF Applied
  <2> QED
    BY <2>1, TypesSplit DEF RequestsTyped, Becomes
<1>2. Done(s) => Becomes(s, Blank)
  BY TypesSplit, Ending
<1> QED
  BY <1>1, <1>2 DEF ApplyCode

LEMMA CodedOwner ==
  ASSUME TypeInv, OwnerInv, NEW s \in Slots, Coded(s) PROVE OwnerInv'
<1>0. request[s] \in Request /\ Blank.stage \notin CodeStages /\ Justified(request[s])
  BY BlankTyped DEF TypeInv, TypeOK, CodeStages, OwnerInv
<1>a. ASSUME NEW q, Becomes(s, q), q.stage \notin CodeStages \/ Justified(q)', OwnerFrame PROVE OwnerInv'
  BY <1>a, OwnerPreserved DEF Becomes
<1>1. ASSUME NEW e \in Mailed, NEW op \in {"auth.verifyEmail", "auth.resetPassword"}, PresentCode(s, e, op)
      PROVE  OwnerInv'
  <2>1. PICK c \in Codes : MatchesCode(c, e, PurposeOf(op)) /\ Becomes(s, Presented(e, op, c))
    BY <1>1, Presenting
  <2>2. UNCHANGED <<account, code, session, proved, vouched>>
    BY <1>1 DEF PresentCode
  <2>3. OwnerFrame
    BY <2>2 DEF OwnerFrame
  <2> DEFINE q == Presented(e, op, c)
  <2>4. /\ q.stage = "count" /\ q.op = op /\ q.email = e /\ q.purpose = PurposeOf(op) /\ q.code = c
    BY PresentedHolds
  <2>5. request'[s] = q
    BY <2>1 DEF Becomes
  <2> HIDE DEF q
  <2>6. Justified(request[s])'
    BY <2>1, <2>2, <2>4, <2>5 DEF Justified, MatchesCode, PurposeOf
  <2> QED
    BY <2>1, <2>3, <2>6, OwnerPreserved DEF Becomes
<1>2. ASSUME NEW right \in BOOLEAN, CountAttempt(s, right) PROVE OwnerInv'
  <2> DEFINE c == request[s].code
             q == InStage(request[s], "apply")
  <2>0. c \in Codes /\ request[s].stage = "count" /\ UNCHANGED <<account, session, vouched>>
    BY <1>2 DEF CountAttempt, TypeInv, RequestsHold, At
  <2>1. ASSUME NEW d \in Codes
        PROVE  code'[d].state = code[d].state /\ code'[d].email = code[d].email /\ code'[d].purpose = code[d].purpose
    <3>1. code[d] \in Code
      BY DEF TypeInv, TypeOK
    <3>2. code'[d] = code[d] \/ code'[d] = [code[d] EXCEPT !.attempts = request[s].attempts + 1]
      BY <1>2, <2>0 DEF CountAttempt, TypeInv, TypeOK
    <3> QED
      BY <3>1, <3>2 DEF Code
  <2>2. \/ Becomes(s, q) /\ proved' = proved \union {<<code[c].email, code[c].purpose>>}
        \/ Becomes(s, Blank) /\ UNCHANGED proved
    BY <1>2, Counting
  <2>3. OwnerFrame
    BY <2>0, <2>1, <2>2 DEF OwnerFrame
  <2>4. CASE Becomes(s, q) /\ proved' = proved \union {<<code[c].email, code[c].purpose>>}
    <3>1. q.stage = "apply" /\ q.op = request[s].op /\ q.email = request[s].email /\ q.purpose = request[s].purpose
      BY <1>0, InStageHolds
    <3>2. /\ code[c].email = request[s].email /\ code[c].purpose = request[s].purpose
          /\ request[s].purpose = PurposeOf(request[s].op)
      BY <1>0, <2>0 DEF Justified, CodeStages
    <3>3. request'[s] = q
      BY <2>4 DEF Becomes
    <3> HIDE DEF q
    <3>4. Justified(request[s])'
      BY <2>4, <3>1, <3>2, <3>3 DEF Justified, PurposeOf
    <3> QED
      BY <2>3, <2>4, <3>4, OwnerPreserved DEF Becomes
  <2>5. CASE Becomes(s, Blank)
    BY <1>0, <2>3, <2>5, OwnerPreserved DEF Becomes
  <2> QED
    BY <2>2, <2>4, <2>5
<1>3. CASE ApplyCode(s)
  <2>0. request[s].stage = "apply" /\ UNCHANGED <<code, session, proved, vouched>>
    BY <1>3 DEF ApplyCode, At
  <2>1. <<request[s].email, request[s].purpose>> \in proved /\ request[s].purpose = PurposeOf(request[s].op)
    BY <1>0, <2>0 DEF Justified, CodeStages
  <2>2. ASSUME NEW u \in Ids, EmailOf[u] = request[s].email,
               IF request[s].op = "auth.verifyEmail" THEN VerifyEmail(u) ELSE ResetPassword(u),
               Becomes(s, Applied(request[s], u))
        PROVE  OwnerInv'
    <3> DEFINE q == Applied(request[s], u)
    <3>1. q.stage = "use" /\ q.op = request[s].op /\ q.for = u /\ q.email = request[s].email /\ q.purpose = request[s].purpose
      BY <1>0, AppliedHolds
    <3>2. request'[s] = q
      BY <2>2 DEF Becomes
    <3> HIDE DEF q
    <3>3. CASE request[s].op = "auth.verifyEmail"
      <4>0. account[u] \in Account /\ account' = [account EXCEPT ![u].verified = TRUE]
        BY <2>2, <3>3 DEF VerifyEmail, TypeInv, TypeOK
      <4>a. account'[u].verified /\ account'[u].password = account[u].password
        BY <4>0 DEF TypeInv, TypeOK, Account
      <4>b. \A v \in Ids : v # u => account'[v] = account[v]
        BY <4>0 DEF TypeInv, TypeOK
      <4>1. \A v \in Ids : /\ v # u => account'[v].verified = account[v].verified
                           /\ account'[v].password = account[v].password
        BY <4>a, <4>b
      <4>2. <<EmailOf[u], "email_verification">> \in proved
        BY <2>1, <2>2, <3>3 DEF PurposeOf
      <4>3. OwnerFrame
        BY <2>0, <4>a, <4>1, <4>2 DEF OwnerFrame
      <4>4. Justified(request[s])'
        BY <2>0, <2>1, <3>1, <3>2, <4>a DEF Justified, PurposeOf
      <4> QED
        BY <2>2, <4>3, <4>4, OwnerPreserved DEF Becomes
    <3>4. CASE request[s].op # "auth.verifyEmail"
      <4>1. \A v \in Ids : /\ account'[v].verified = account[v].verified
                           /\ v # u => account'[v].password = account[v].password
        BY <2>2, <3>4 DEF ResetPassword, TypeInv, TypeOK, Account
      <4>2. <<EmailOf[u], "password_reset">> \in proved
        BY <2>1, <2>2, <3>4 DEF PurposeOf
      <4>3. OwnerFrame
        BY <2>0, <4>1, <4>2 DEF OwnerFrame
      <4>4. Justified(request[s])'
        BY <2>0, <2>1, <3>1, <3>2, <3>4 DEF Justified, PurposeOf
      <4> QED
        BY <2>2, <4>3, <4>4, OwnerPreserved DEF Becomes
    <3> QED
      BY <3>3, <3>4
  <2>3. ASSUME Becomes(s, Blank), UNCHANGED account PROVE OwnerInv'
    <3>1. OwnerFrame
      BY <2>0, <2>3 DEF OwnerFrame
    <3> QED
      BY <1>0, <2>3, <3>1, OwnerPreserved DEF Becomes
  <2> QED
    BY <1>3, <2>2, <2>3, Applying
<1>4. CASE UseCode(s)
  <2>0. /\ request[s].stage = "use" /\ request[s].code \in Codes /\ request[s].for \in Ids
        /\ UNCHANGED <<account, proved, vouched>>
    BY <1>4 DEF UseCode, At, TypeInv, RequestsHold, Subjects, history
  <2>1. Becomes(s, Blank)
    BY <1>4, TypesSplit, Ending DEF UseCode
  <2>2. ASSUME NEW d \in Codes
        PROVE  code'[d].state = code[d].state /\ code'[d].email = code[d].email /\ code'[d].purpose = code[d].purpose
    <3>1. code[d] \in Code
      BY DEF TypeInv, TypeOK
    <3>2. code'[d] = code[d] \/ code'[d] = [code[d] EXCEPT !.used = TRUE]
      BY <1>4, <2>0 DEF UseCode, TypeInv, TypeOK
    <3> QED
      BY <3>1, <3>2 DEF Code
  <2>3. request[s].op = "auth.verifyEmail" => account[request[s].for].verified
    BY <1>0, <2>0 DEF Justified, CodeStages
  <2>4. \A u \in Ids : session'[u] # {} => session[u] # {} \/ account[u].verified
    BY <1>4, <2>0, <2>3 DEF UseCode, TypeInv, TypeOK
  <2>5. OwnerFrame
    BY <2>0, <2>2, <2>4 DEF OwnerFrame
  <2> QED
    BY <1>0, <2>1, <2>5, OwnerPreserved DEF Becomes
<1> QED
  BY <1>1, <1>2, <1>3, <1>4 DEF Coded

LEMMA OwnerStep == TypeInv /\ OwnerInv /\ [Next]_vars => OwnerInv'
<1> SUFFICES ASSUME TypeInv, OwnerInv, [Next]_vars PROVE OwnerInv'
  OBVIOUS
<1>0. Blank.stage \notin CodeStages
  BY BlankTyped DEF CodeStages
<1>1. ASSUME NEW s \in Slots, Plain(s) PROVE OwnerInv'
  BY <1>1, PlainFrame, PlainSteps, OwnerPreserved DEF PlainStep
<1>2. ASSUME NEW s \in Slots, Fail(s) PROVE OwnerInv'
  <2>1. UNCHANGED <<account, code, session, proved, vouched>> /\ Becomes(s, Blank)
    BY <1>2, TypesSplit, Ending DEF Fail
  <2>2. OwnerFrame
    BY <2>1 DEF OwnerFrame
  <2> QED
    BY <1>0, <2>1, <2>2, OwnerPreserved DEF Becomes
<1>3. ASSUME NEW u \in Ids, Login(u) \/ RefreshToken(u) \/ EvictProfile(u) \/ ExpireToken(u) PROVE OwnerInv'
  <2>1. UNCHANGED <<account, code, request, proved, vouched>>
    BY <1>3 DEF Login, RefreshToken, EvictProfile, ExpireToken, history
  <2>2. \A v \in Ids : session'[v] # {} => session[v] # {} \/ account[v].verified
    BY <1>3 DEF Login, RefreshToken, EvictProfile, ExpireToken, TypeInv, TypeOK
  <2>3. OwnerFrame
    BY <2>1, <2>2 DEF OwnerFrame
  <2> QED
    BY <2>1, <2>3, OwnerPreserved
<1>4. ASSUME NEW c \in Codes, ExpireCode(c) PROVE OwnerInv'
  <2>1. UNCHANGED <<account, session, request, proved, vouched>>
    BY <1>4 DEF ExpireCode, history
  <2>2. ASSUME NEW d \in Codes, code[d].state # "unsent"
        PROVE  code'[d].state # "unsent" /\ code'[d].email = code[d].email /\ code'[d].purpose = code[d].purpose
    <3>1. code[d] \in Code
      BY DEF TypeInv, TypeOK
    <3>2. \/ code'[d] = code[d] \/ code'[d] = [code[d] EXCEPT !.state = "gone"]
          \/ code'[d] = [code[d] EXCEPT !.expired = TRUE]
      BY <1>4 DEF ExpireCode, TypeInv, TypeOK
    <3> QED
      BY <2>2, <3>1, <3>2 DEF Code
  <2>3. OwnerFrame
    BY <2>1, <2>2 DEF OwnerFrame
  <2> QED
    BY <2>1, <2>3, OwnerPreserved
<1>5. CASE Restart
  <2>1. OwnerFrame
    BY <1>5 DEF Restart, OwnerFrame
  <2>2. \A s \in Slots : request'[s].stage \notin CodeStages
    BY <1>0, <1>5 DEF Restart
  <2> QED
    BY <2>1, <2>2, OwnerPreserved
<1>6. CASE UNCHANGED vars
  <2>1. UNCHANGED <<account, code, session, request, proved, vouched>>
    BY <1>6 DEF vars
  <2>2. OwnerFrame
    BY <2>1 DEF OwnerFrame
  <2> QED
    BY <2>1, <2>2, OwnerPreserved
<1> QED
  BY <1>1, <1>2, <1>3, <1>4, <1>5, <1>6, CodedOwner, Steps

\* However requests overlap, repeat, break off and restart: accounts are
\* verified, sessions opened and passwords reset only for who had the right code,
\* or whom an admin verified.
THEOREM OnlyTheOwnerActs == Spec => []OnlyTheOwner
BY TypeInitially, TypeStep, OwnerInitially, OwnerStep, PTL DEF Spec, OwnerInv

(***************************************************************************)
(* CodesHold rests on what the one request knows that presents a code:     *)
(* while no second one does and none has broken off, the attempts it read  *)
(* are the stored ones, and a code once applied is marked used or gone     *)
(* before any other request can be right about it.                         *)
(***************************************************************************)
Unapplied(c) == ledger[c].uses = 0

Orderly(c) ==
  /\ \A s, t \in Slots : Holds(s, c) /\ Holds(t, c) => s = t
  /\ ledger[c].guesses <= code[c].attempts
  /\ ledger[c].uses <= 1
  /\ code[c].state # "gone" /\ ~code[c].used =>
       Unapplied(c) \/ \E s \in Slots : Holds(s, c) /\ At(s, "use")
  /\ \A s \in Slots : Holds(s, c) /\ At(s, "apply") => Unapplied(c)
  /\ \A s \in Slots : Holds(s, c) /\ At(s, "count") /\ code[c].state = "live" =>
       /\ request[s].attempts = code[c].attempts
       /\ request[s].used => code[c].used
       /\ code[c].used => request[s].used

CodeInv(c) ==
  /\ code[c].state = "unsent" => code[c].attempts = 0 /\ ~code[c].used
  /\ \A s \in Slots : Holds(s, c) => code[c].state # "unsent"
  /\ ~ledger[c].disturbed => Orderly(c)

CodesInv == \A c \in Codes : CodeInv(c)

\* A step at which the requests that hold the code do nothing.
Unmoved(c) ==
  /\ \A s \in Slots : request'[s] = request[s] \/ (~Holds(s, c) /\ ~Holds(s, c)')
  /\ ledger'[c] = ledger[c]
  /\ code'[c].attempts = code[c].attempts /\ code'[c].used = code[c].used
  /\ \/ code'[c].state = code[c].state
     \/ code[c].state # "unsent" /\ code'[c].state = "gone"
     \/ code[c].state = "unsent" /\ code'[c].state = "live"

\* A step at which some of the requests that hold the code break off.
BreaksOff(c) ==
  /\ \A s \in Slots : request'[s] = request[s] \/ ~Holds(s, c)'
  /\ \/ ledger'[c].disturbed
     \/ ledger'[c] = ledger[c] /\ \A s \in Slots : Holds(s, c) => request'[s] = request[s]
  /\ UNCHANGED code

LEMMA UnmovedKeeps ==
  ASSUME NEW c \in Codes, CodeInv(c), Unmoved(c) PROVE CodeInv(c)'
<1>1. \A s \in Slots : /\ Holds(s, c)' => Holds(s, c) /\ request'[s] = request[s]
                       /\ Holds(s, c) => Holds(s, c)' /\ request'[s] = request[s]
  BY DEF Unmoved, Holds
<1>2. code'[c].state = "unsent" => code'[c].attempts = 0 /\ ~code'[c].used
  BY DEF Unmoved, CodeInv
<1>3. \A s \in Slots : Holds(s, c)' => code'[c].state # "unsent"
  BY <1>1 DEF Unmoved, CodeInv
<1>4. ASSUME ~ledger'[c].disturbed PROVE Orderly(c)'
  <2>0. Orderly(c) /\ ledger'[c] = ledger[c]
    BY <1>4 DEF Unmoved, CodeInv
  <2>1. \A s, t \in Slots : Holds(s, c)' /\ Holds(t, c)' => s = t
    BY <1>1, <2>0 DEF Orderly
  <2>2. ledger'[c].guesses <= code'[c].attempts /\ ledger'[c].uses <= 1
    BY <2>0 DEF Orderly, Unmoved
  <2>3. ASSUME code'[c].state # "gone", ~code'[c].used
        PROVE  Unapplied(c)' \/ \E s \in Slots : Holds(s, c)' /\ At(s, "use")'
    <3>1. code[c].state # "gone" /\ ~code[c].used
      BY <2>3 DEF Unmoved
    <3>2. Unapplied(c) \/ \E s \in Slots : Holds(s, c) /\ At(s, "use")
      BY <2>0, <3>1 DEF Orderly
    <3> QED
      BY <1>1, <2>0, <3>2 DEF Unapplied, At
  <2>4. \A s \in Slots : Holds(s, c)' /\ At(s, "apply")' => Unapplied(c)'
    BY <1>1, <2>0 DEF Orderly, Unapplied, At
  <2>5. ASSUME NEW s \in Slots, Holds(s, c)', At(s, "count")', code'[c].state = "live"
        PROVE  /\ request'[s].attempts = code'[c].attempts
               /\ request'[s].used => code'[c].used
               /\ code'[c].used => request'[s].used
    <3>1. Holds(s, c) /\ At(s, "count") /\ code[c].state = "live"
      BY <1>1, <2>5 DEF Unmoved, At, CodeInv
    <3> QED
      BY <1>1, <2>0, <2>5, <3>1 DEF Orderly, Unmoved
  <2> QED
    BY <2>1, <2>2, <2>3, <2>4, <2>5 DEF Orderly
<1> QED
  BY <1>2, <1>3, <1>4 DEF CodeInv

LEMMA BreakingKeeps ==
  ASSUME NEW c \in Codes, CodeInv(c), BreaksOff(c) PROVE CodeInv(c)'
<1>1. \A s \in Slots : Holds(s, c)' => Holds(s, c)
  BY DEF BreaksOff, Holds
<1>2. CASE ledger'[c].disturbed
  BY <1>1, <1>2 DEF BreaksOff, CodeInv
<1>3. CASE ledger'[c] = ledger[c] /\ \A s \in Slots : Holds(s, c) => request'[s] = request[s]
  <2>1. Unmoved(c)
    BY <1>3 DEF BreaksOff, Unmoved
  <2> QED
    BY <2>1, UnmovedKeeps
<1> QED
  BY <1>2, <1>3 DEF BreaksOff

LEMMA CodesInitially == Init => CodesInv
<1> SUFFICES ASSUME Init, NEW c \in Codes PROVE CodeInv(c)
  BY DEF CodesInv
<1>1. \A s \in Slots : ~Holds(s, c)
  BY BlankTyped DEF Init, Holds
<1>2. code[c].attempts = 0 /\ ~code[c].used
  BY DEF Init
<1>3. ledger[c].guesses = 0 /\ ledger[c].uses = 0
  BY DEF Init
<1> QED
  BY <1>1, <1>2, <1>3 DEF CodeInv, Orderly, Unapplied

LEMMA DisturbHolds ==
  ASSUME TypeInv, NEW cs, Disturb(cs), NEW c \in Codes
  PROVE  /\ c \in cs => ledger'[c].disturbed
         /\ c \notin cs => ledger'[c] = ledger[c]
<1>1. ledger[c] \in [guesses : Nat, uses : Nat, disturbed : BOOLEAN]
  BY DEF TypeInv, TypeOK
<1>2. ledger'[c] = IF c \in cs THEN [ledger[c] EXCEPT !.disturbed = TRUE] ELSE ledger[c]
  BY DEF Disturb
<1> QED
  BY <1>1, <1>2

LEMMA PlainUnmoved ==
  ASSUME TypeInv, CodesInv, NEW s \in Slots, Plain(s), NEW c \in Codes PROVE Unmoved(c)
<1>0. PlainStep(s)
  BY PlainSteps
<1>1. \A t \in Slots : request'[t] = request[t] \/ (~Holds(t, c) /\ ~Holds(t, c)')
  BY <1>0 DEF PlainStep, Holds, CodeStages
<1>2. ASSUME code'[c] = code[c] PROVE Unmoved(c)
  BY <1>0, <1>1, <1>2 DEF Unmoved, PlainStep
<1>3. CASE DeleteCodes(s)
  <2>1. code[c] \in Code
    BY DEF TypeInv, TypeOK
  <2>2. \/ code'[c] = code[c]
        \/ code[c].state = "live" /\ code'[c] = [code[c] EXCEPT !.state = "gone"]
    BY <1>3 DEF DeleteCodes, MatchesCode
  <2> QED
    BY <1>0, <1>1, <2>1, <2>2 DEF Unmoved, PlainStep, Code
<1>4. CASE InsertCode(s)
  <2>1. PICK d \in Codes :
          /\ code[d].state = "unsent"
          /\ code' = [code EXCEPT ![d] =
               [state |-> "live", email |-> request[s].email, purpose |-> request[s].purpose,
                attempts |-> 0, used |-> FALSE, expired |-> FALSE]]
    BY <1>4 DEF InsertCode
  <2>2. CASE c # d
    BY <1>2, <2>1, <2>2 DEF TypeInv, TypeOK
  <2>3. CASE c = d
    <3>1. /\ code'[c].attempts = 0 /\ code'[c].used = FALSE
          /\ code[c].state = "unsent" /\ code'[c].state = "live"
      BY <2>1, <2>3 DEF TypeInv, TypeOK
    <3>2. code[c].attempts = 0 /\ code[c].used = FALSE
      <4>1. code[c] \in Code
        BY DEF TypeInv, TypeOK
      <4> QED
        BY <3>1, <4>1 DEF CodesInv, CodeInv, Code
    <3> QED
      BY <1>0, <1>1, <3>1, <3>2 DEF Unmoved, PlainStep
  <2> QED
    BY <2>2, <2>3
<1>5. ASSUME ~DeleteCodes(s), ~InsertCode(s) PROVE UNCHANGED code
  <2>1. Writing(s) => UNCHANGED code
    BY Writes DEF Refuse, SaveThenClear, SaveOnly
  <2>2. Asking(s) => UNCHANGED code
    BY DEF Asking, LoginUnverified, SendVerification, ForgotPassword, ResendOtp
  <2>3. Entering(s) => UNCHANGED code
    BY DEF Entering, Enter
  <2>4. ChangePassword(s) \/ ReadProfile(s) \/ PutProfile(s) \/ ClearProfile(s) => UNCHANGED code
    BY DEF ChangePassword, ReadProfile, PutProfile, ClearProfile
  <2>5. (\E u \in Ids : Register(s, u)) => UNCHANGED code
    BY DEF Register
  <2> QED
    BY <1>5, <2>1, <2>2, <2>3, <2>4, <2>5 DEF Plain
<1> QED
  BY <1>2, <1>3, <1>4, <1>5

\* The other codes do not notice a request that moves on with its own.
LEMMA OthersUnmoved ==
  ASSUME TypeInv, NEW s \in Slots, NEW c \in Codes, NEW d \in Codes, c # d, NEW q, Becomes(s, q),
         ~Holds(s, d), q.stage \in CodeStages => q.code # d,
         code'[d] = code[d], ledger'[d] = ledger[d]
  PROVE  Unmoved(d)
<1>1. ~Holds(s, d)'
  BY DEF Becomes, Holds, CodeStages
<1> QED
  BY <1>1 DEF Becomes, Unmoved

LEMMA PresentKeepsCodes ==
  ASSUME TypeInv, CodesInv, NEW s \in Slots, NEW e \in Mailed, NEW op \in {"auth.verifyEmail", "auth.resetPassword"},
         PresentCode(s, e, op), NEW d \in Codes
  PROVE  CodeInv(d)'
<1>1. PICK c \in Codes : /\ MatchesCode(c, e, PurposeOf(op)) /\ Becomes(s, Presented(e, op, c))
                         /\ Disturb({x \in {c} : \E t \in Slots : Holds(t, x)})
  BY Presenting
<1>2. Free(s) /\ UNCHANGED code
  BY DEF PresentCode
<1> DEFINE q == Presented(e, op, c)
           held == \E t \in Slots : Holds(t, c)
<1>3. q.stage = "count" /\ q.code = c /\ q.attempts = code[c].attempts /\ q.used = code[c].used
  BY PresentedHolds
<1>4. request'[s] = q /\ \A t \in Slots \ {s} : request'[t] = request[t]
  BY <1>1 DEF Becomes
<1> HIDE DEF q
<1>5. CodeInv(d)
  BY DEF CodesInv
<1>6. CASE d # c
  <2>1. ledger'[d] = ledger[d]
    BY <1>1, <1>6, DisturbHolds
  <2>2. Unmoved(d)
    BY <1>2, <1>3, <1>4, <1>6, <2>1 DEF Unmoved, Holds, Free
  <2> QED
    BY <1>5, <2>2, UnmovedKeeps
<1>7. CASE d = c
  <2>1. code[c].state = "live" /\ UNCHANGED code
    BY <1>1, <1>2 DEF MatchesCode
  <2>2. CASE held
    <3>1. ledger'[c].disturbed
      BY <1>1, <2>2, DisturbHolds
    <3> QED
      BY <1>7, <2>1, <3>1 DEF CodeInv
  <2>3. CASE ~held
    <3>1. ledger'[c] = ledger[c]
      BY <1>1, <2>3, DisturbHolds
    <3>2. \A t \in Slots : Holds(t, c)' => t = s
      BY <1>4, <2>3 DEF Holds
    <3>3. ASSUME ~ledger'[c].disturbed PROVE Orderly(c)'
      <4>1. Orderly(c)
        BY <1>5, <1>7, <3>1, <3>3 DEF CodeInv
      <4>2. ~code[c].used => Unapplied(c)
        BY <2>1, <2>3, <4>1 DEF Orderly
      <4>3. ~At(s, "apply")' /\ ~At(s, "use")'
        BY <1>3, <1>4 DEF At
      <4>4. request'[s].attempts = code[c].attempts /\ request'[s].used = code[c].used
        BY <1>3, <1>4
      <4> QED
        BY <2>1, <3>1, <3>2, <4>1, <4>2, <4>3, <4>4 DEF Orderly, Unapplied
    <3> QED
      BY <1>7, <2>1, <3>3 DEF CodeInv
  <2> QED
    BY <2>2, <2>3
<1> QED
  BY <1>6, <1>7

LEMMA CountKeepsCodes ==
  ASSUME TypeInv, CodesInv, NEW s \in Slots, NEW right \in BOOLEAN, CountAttempt(s, right), NEW d \in Codes
  PROVE  CodeInv(d)'
<1>c. PICK c \in Codes : c = request[s].code
  BY DEF CountAttempt, TypeInv, RequestsHold, At
<1> DEFINE compared == code[c].state = "live" /\ ~code[c].expired /\ ~request[s].used
           q == InStage(request[s], "apply")
<1>0. /\ c \in Codes /\ At(s, "count") /\ request[s] \in Request
      /\ code[c] \in Code /\ ledger[c] \in [guesses : Nat, uses : Nat, disturbed : BOOLEAN]
  BY DEF CountAttempt, TypeInv, TypeOK, At
<1>a. Holds(s, c) /\ \A x \in Codes : Holds(s, x) => x = c
  BY <1>0, <1>c DEF Holds, At
<1>1. /\ q.stage = "apply" /\ q.code = c
  BY <1>0, <1>c, InStageHolds
<1>2. \/ compared /\ right /\ Becomes(s, q)
      \/ ~(compared /\ right) /\ Becomes(s, Blank)
  BY <1>c, Counting
<1> HIDE DEF q
<1>3. CodeInv(d)
  BY DEF CodesInv
<1>4. CASE d # c
  <2>1. code'[d] = code[d] /\ ledger'[d] = ledger[d]
    BY <1>0, <1>c, <1>4 DEF CountAttempt, TypeInv, TypeOK
  <2>2. ~Holds(s, d) /\ Blank.stage \notin CodeStages
    BY <1>4, <1>a, BlankTyped DEF CodeStages
  <2>3. Unmoved(d)
    BY <1>0, <1>1, <1>2, <1>4, <2>1, <2>2, OthersUnmoved
  <2> QED
    BY <1>3, <2>3, UnmovedKeeps
<1>5. CASE d = c
  <2>0. CodeInv(c)
    BY <1>3, <1>5
  <2>1. /\ code'[c].state = code[c].state /\ code'[c].used = code[c].used
        /\ code[c].state = "live" => code'[c].attempts = request[s].attempts + 1
        /\ code[c].state # "live" => code'[c].attempts = code[c].attempts
    BY <1>0, <1>c DEF CountAttempt, TypeInv, TypeOK, Code
  <2>2. /\ ledger'[c].uses = ledger[c].uses /\ ledger'[c].disturbed = ledger[c].disturbed
        /\ compared /\ ~ledger[c].disturbed => ledger'[c].guesses = ledger[c].guesses + 1
        /\ ~(compared /\ ~ledger[c].disturbed) => ledger'[c].guesses = ledger[c].guesses
    BY <1>0, <1>c DEF CountAttempt, TypeInv, TypeOK
  <2>3. code'[c].state # "unsent"
    BY <1>a, <2>0, <2>1 DEF CodeInv
  <2>4. ASSUME ~ledger'[c].disturbed PROVE Orderly(c)'
    <3>0. Orderly(c)
      BY <2>0, <2>2, <2>4 DEF CodeInv
    <3>1. /\ \A t \in Slots : Holds(t, c) => t = s
          /\ \A t \in Slots : Holds(t, c)' => t = s
      BY <1>2, <1>a, <3>0 DEF Orderly, Becomes, Holds
    <3>2. ~At(s, "count")' /\ ~At(s, "use")' /\ (At(s, "apply")' => compared)
      BY <1>1, <1>2, BlankTyped DEF At, Becomes
    <3>3. code[c].state = "live" => request[s].attempts = code[c].attempts /\ (code[c].used => request[s].used)
      BY <1>0, <1>a, <3>0 DEF Orderly
    <3>4. code[c].attempts \in Nat /\ ledger[c].guesses \in Nat
      BY <1>0, AccountsAssumption DEF Code
    <3>5. ledger'[c].guesses <= code'[c].attempts
      <4>1. ledger[c].guesses <= code[c].attempts
        BY <3>0 DEF Orderly
      <4>2. CASE code[c].state = "live"
        <5>1. code'[c].attempts = code[c].attempts + 1
          BY <2>1, <3>3, <4>2
        <5>2. ledger'[c].guesses = ledger[c].guesses \/ ledger'[c].guesses = ledger[c].guesses + 1
          BY <2>2
        <5> QED
          BY <3>4, <4>1, <5>1, <5>2
      <4>3. CASE code[c].state # "live"
        BY <2>1, <2>2, <4>1, <4>3
      <4> QED
        BY <4>2, <4>3
    <3>6. code[c].state # "gone" /\ ~code[c].used => Unapplied(c)
      BY <1>0, <3>0, <3>1 DEF Orderly, At
    <3>7. compared => Unapplied(c)
      BY <3>3, <3>6
    <3> HIDE DEF compared
    <3> QED
      BY <2>1, <2>2, <3>0, <3>1, <3>2, <3>5, <3>6, <3>7 DEF Orderly, Unapplied
  <2> QED
    BY <1>5, <2>3, <2>4 DEF CodeInv
<1> QED
  BY <1>4, <1>5

LEMMA ApplyKeepsCodes ==
  ASSUME TypeInv, CodesInv, NEW s \in Slots, ApplyCode(s), NEW d \in Codes PROVE CodeInv(d)'
<1>c. PICK c \in Codes : c = request[s].code
  BY DEF ApplyCode, TypeInv, RequestsHold, At
<1>0. /\ At(s, "apply") /\ request[s] \in Request /\ UNCHANGED code
      /\ ledger[c] \in [guesses : Nat, uses : Nat, disturbed : BOOLEAN]
  BY DEF ApplyCode, TypeInv, TypeOK
<1>a. Holds(s, c) /\ \A x \in Codes : Holds(s, x) => x = c
  BY <1>0, <1>c DEF Holds, At
<1>b. Blank.stage \notin CodeStages
  BY BlankTyped DEF CodeStages
<1>1. CodeInv(d) /\ CodeInv(c)
  BY DEF CodesInv
<1>2. ASSUME NEW q, Becomes(s, q), (q.stage = "use" /\ q.code = c) \/ q.stage \notin CodeStages,
             ledger'[c].guesses = ledger[c].guesses, ledger'[c].disturbed = ledger[c].disturbed,
             \A x \in Codes \ {c} : ledger'[x] = ledger[x],
             ~ledger[c].disturbed =>
               \/ q.stage = "use" /\ ledger'[c].uses = ledger[c].uses + 1
               \/ q.stage \notin CodeStages /\ ledger'[c].uses = ledger[c].uses
      PROVE  CodeInv(d)'
  <2>1. CASE d # c
    <3>1. Unmoved(d)
      BY <1>0, <1>a, <1>2, <2>1, OthersUnmoved
    <3> QED
      BY <1>1, <3>1, UnmovedKeeps
  <2>2. CASE d = c
    <3>1. \A t \in Slots : Holds(t, c)' => Holds(t, c)
      BY <1>2, <1>a DEF Becomes, Holds
    <3>2. ASSUME ~ledger'[c].disturbed PROVE Orderly(c)'
      <4>0. Orderly(c) /\ Unapplied(c)
        BY <1>0, <1>1, <1>2, <1>a, <3>2 DEF CodeInv, Orderly
      <4>1. /\ \A t \in Slots : Holds(t, c) => t = s
            /\ \A t \in Slots : Holds(t, c)' => t = s
        BY <1>a, <3>1, <4>0 DEF Orderly
      <4>2. ~At(s, "count")' /\ ~At(s, "apply")'
        BY <1>2 DEF At, Becomes, CodeStages
      <4>3. \/ ledger'[c].uses = 1 /\ Holds(s, c)' /\ At(s, "use")'
            \/ ledger'[c].uses = 0
        <5>1. CASE q.stage = "use"
          BY <1>2, <3>2, <4>0, <5>1 DEF Unapplied, Becomes, Holds, At, CodeStages
        <5>2. CASE q.stage # "use"
          BY <1>2, <3>2, <4>0, <5>2 DEF Unapplied
        <5> QED
          BY <5>1, <5>2
      <4> QED
        BY <1>0, <1>2, <4>0, <4>1, <4>2, <4>3 DEF Orderly, Unapplied
    <3>3. \A t \in Slots : Holds(t, c)' => code'[c].state # "unsent"
      BY <1>0, <1>1, <3>1 DEF CodeInv
    <3> QED
      BY <1>0, <1>1, <2>2, <3>2, <3>3 DEF CodeInv
  <2> QED
    BY <2>1, <2>2
<1>3. ASSUME NEW u \in Ids, Becomes(s, Applied(request[s], u)),
             ledger' = IF ledger[c].disturbed THEN ledger ELSE [ledger EXCEPT ![c].uses = @ + 1]
      PROVE  CodeInv(d)'
  <2> DEFINE q == Applied(request[s], u)
  <2>1. q.stage = "use" /\ q.code = c
    BY <1>0, <1>c, AppliedHolds
  <2> HIDE DEF q
  <2>2. /\ ledger'[c].guesses = ledger[c].guesses /\ ledger'[c].disturbed = ledger[c].disturbed
        /\ \A x \in Codes \ {c} : ledger'[x] = ledger[x]
        /\ ~ledger[c].disturbed => ledger'[c].uses = ledger[c].uses + 1
    BY <1>0, <1>3 DEF TypeInv, TypeOK
  <2> QED
    BY <1>2, <1>3, <2>1, <2>2 DEF q
<1>4. ASSUME Becomes(s, Blank), UNCHANGED ledger PROVE CodeInv(d)'
  BY <1>2, <1>4, <1>b
<1> QED
  BY <1>3, <1>4, <1>c, Applying

LEMMA UseKeepsCodes ==
  ASSUME TypeInv, CodesInv, NEW s \in Slots, UseCode(s), NEW d \in Codes PROVE CodeInv(d)'
<1>c. PICK c \in Codes : c = request[s].code
  BY DEF UseCode, TypeInv, RequestsHold, At
<1>0. /\ At(s, "use") /\ request[s] \in Request /\ UNCHANGED ledger
      /\ Blank.stage \notin CodeStages /\ code[c] \in Code
  BY BlankTyped DEF UseCode, TypeInv, TypeOK, history, CodeStages
<1>a. Holds(s, c) /\ \A x \in Codes : Holds(s, x) => x = c
  BY <1>0, <1>c DEF Holds, At
<1>1. CodeInv(d) /\ CodeInv(c)
  BY DEF CodesInv
<1>2. Becomes(s, Blank)
  BY TypesSplit, Ending DEF UseCode
<1>3. CASE d # c
  <2>1. code'[d] = code[d]
    BY <1>3, <1>c DEF UseCode, TypeInv, TypeOK
  <2>2. Unmoved(d)
    BY <1>0, <1>a, <1>2, <1>3, <2>1, OthersUnmoved
  <2> QED
    BY <1>1, <2>2, UnmovedKeeps
<1>4. CASE d = c
  <2>1. /\ code'[c].state = code[c].state /\ code'[c].attempts = code[c].attempts
        /\ code[c].state = "live" => code'[c].used
    BY <1>0, <1>c DEF UseCode, TypeInv, TypeOK, Code
  <2>2. code[c].state \in {"live", "gone"}
    BY <1>0, <1>1, <1>a DEF CodeInv, Code
  <2>3. ASSUME ~ledger'[c].disturbed PROVE Orderly(c)'
    <3>1. Orderly(c)
      BY <1>0, <1>1, <2>3 DEF CodeInv
    <3>2. \A t \in Slots : ~Holds(t, c)'
      BY <1>0, <1>2, <1>a, <3>1 DEF Orderly, Becomes, Holds, CodeStages
    <3> QED
      BY <1>0, <2>1, <2>2, <3>1, <3>2 DEF Orderly
  <2> QED
    BY <1>4, <2>1, <2>2, <2>3 DEF CodeInv
<1> QED
  BY <1>3, <1>4

LEMMA CodesStep == TypeInv /\ CodesInv /\ [Next]_vars => CodesInv'
<1> SUFFICES ASSUME TypeInv, CodesInv, [Next]_vars, NEW d \in Codes PROVE CodeInv(d)'
  BY DEF CodesInv
<1>0. CodeInv(d)
  BY DEF CodesInv
<1>1. ASSUME NEW s \in Slots, Plain(s) PROVE CodeInv(d)'
  BY <1>0, <1>1, PlainUnmoved, UnmovedKeeps
<1>2. ASSUME NEW s \in Slots, Coded(s) PROVE CodeInv(d)'
  BY <1>2, PresentKeepsCodes, CountKeepsCodes, ApplyKeepsCodes, UseKeepsCodes DEF Coded
<1>3. ASSUME NEW s \in Slots, Fail(s) PROVE CodeInv(d)'
  <2>1. Becomes(s, Blank) /\ UNCHANGED code /\ Disturb({c \in Codes : Holds(s, c)})
    BY <1>3, TypesSplit, Ending DEF Fail
  <2>2. IF Holds(s, d) THEN ledger'[d].disturbed ELSE ledger'[d] = ledger[d]
    BY <2>1, DisturbHolds
  <2>3. BreaksOff(d)
    BY <2>1, <2>2, BlankTyped DEF BreaksOff, Becomes, Holds
  <2> QED
    BY <1>0, <2>3, BreakingKeeps
<1>4. CASE Restart
  <2>1. IF \E s \in Slots : Holds(s, d) THEN ledger'[d].disturbed ELSE ledger'[d] = ledger[d]
    BY <1>4, DisturbHolds DEF Restart
  <2>2. \A s \in Slots : ~Holds(s, d)'
    BY <1>4, BlankTyped DEF Restart, Holds
  <2>3. BreaksOff(d)
    BY <1>4, <2>1, <2>2 DEF BreaksOff, Restart
  <2> QED
    BY <1>0, <2>3, BreakingKeeps
<1>5. ASSUME NEW c \in Codes, ExpireCode(c) PROVE CodeInv(d)'
  <2>1. code[d] \in Code
    BY DEF TypeInv, TypeOK
  <2>2. \/ code'[d] = code[d]
        \/ code[d].state = "live" /\ code'[d] \in {[code[d] EXCEPT !.state = "gone"], [code[d] EXCEPT !.expired = TRUE]}
    BY <1>5 DEF ExpireCode, TypeInv, TypeOK
  <2>3. Unmoved(d)
    BY <1>5, <2>1, <2>2 DEF ExpireCode, history, Unmoved, Code
  <2> QED
    BY <1>0, <2>3, UnmovedKeeps
<1>6. ASSUME NEW u \in Ids, Login(u) \/ RefreshToken(u) \/ EvictProfile(u) \/ ExpireToken(u) PROVE CodeInv(d)'
  <2>1. UNCHANGED <<code, request, ledger>>
    BY <1>6 DEF Login, RefreshToken, EvictProfile, ExpireToken, history
  <2>2. Unmoved(d)
    BY <2>1 DEF Unmoved
  <2> QED
    BY <1>0, <2>2, UnmovedKeeps
<1>7. CASE UNCHANGED vars
  <2>1. Unmoved(d)
    BY <1>7 DEF vars, Unmoved
  <2> QED
    BY <1>0, <2>1, UnmovedKeeps
<1> QED
  BY <1>1, <1>2, <1>3, <1>4, <1>5, <1>6, <1>7, Steps

LEMMA CodesImply == TypeInv /\ CodesInv => CodesHold
<1> SUFFICES ASSUME TypeInv, CodesInv, NEW c \in Codes, ~ledger[c].disturbed
             PROVE  ledger[c].guesses <= MaxAttempts /\ ledger[c].uses <= 1
  BY DEF CodesHold
<1>1. Orderly(c)
  BY DEF CodesInv, CodeInv
<1>2. code[c].attempts \in 0..MaxAttempts /\ ledger[c].guesses \in Nat
  BY DEF TypeInv, TypeOK, Code
<1> QED
  BY <1>1, <1>2 DEF Orderly

\* No code is guessed more often than the limit, or applied twice, unless two
\* requests present it at once or one breaks off in the middle of presenting it.
THEOREM CodesAreLimited == Spec => []CodesHold
BY TypeInitially, TypeStep, CodesInitially, CodesStep, CodesImply, PTL DEF Spec

(***************************************************************************)
(* CacheAgrees rests on the profiles that requests are about to put into   *)
(* the cache: one is current, or its account was written meanwhile and is  *)
(* excused.  An account not yet registered is neither cached nor read.     *)
(***************************************************************************)
FillsAgree == \A s \in Slots : At(s, "put") => request[s].view = CurrentView(request[s].for) \/ request[s].for \in excused

Unread(u) == account[u].state = "fresh" => cache[u] = Nothing /\ ~Filling(u)

CacheInv == CacheAgrees /\ FillsAgree /\ \A u \in Ids : Unread(u)

\* What a step that leaves the cache alone may do to an account.
WrittenFairly(u) ==
  \/ CurrentView(u)' = CurrentView(u) /\ account'[u].state = account[u].state
  \/ /\ account'[u].state # "fresh"
     /\ \/ u \in excused'
        \/ account[u].state = "fresh"
        \/ Clearing(u)' /\ (Filling(u) => u \in excused')

LEMMA CacheKept ==
  ASSUME TypeInv, CacheInv, NEW s \in Slots, ~At(s, "clear"),
         request'[s] = request[s] \/ request'[s].stage # "put",
         \A t \in Slots \ {s} : request'[t] = request[t],
         cache' = cache, excused \subseteq excused', \A u \in Ids : WrittenFairly(u)
  PROVE  CacheInv'
<1>1. /\ \A u \in Ids : Clearing(u) => Clearing(u)'
      /\ \A u \in Ids : Filling(u)' => Filling(u)
      /\ \A t \in Slots : At(t, "put")' => request'[t] = request[t] /\ At(t, "put")
  BY DEF Clearing, Filling, At
<1>2. ASSUME NEW u \in Ids, cache'[u] \notin {Nothing, CurrentView(u)'} PROVE Clearing(u)' \/ u \in excused'
  <2>1. CASE CurrentView(u)' = CurrentView(u)
    BY <1>1, <1>2, <2>1 DEF CacheInv, CacheAgrees
  <2>2. CASE account[u].state = "fresh"
    BY <1>2, <2>2 DEF CacheInv, Unread
  <2> QED
    BY <2>1, <2>2 DEF WrittenFairly
<1>3. ASSUME NEW t \in Slots, At(t, "put")'
      PROVE  request'[t].view = CurrentView(request[t].for)' \/ request'[t].for \in excused'
  <2>1. PICK u \in Ids : u = request[t].for
    BY <1>1, <1>3 DEF TypeInv, RequestsHold, Subjects, At
  <2>2. Filling(u) /\ account[u].state # "fresh"
    BY <1>1, <1>3, <2>1 DEF Filling, CacheInv, Unread
  <2>3. request[t].view = CurrentView(u) \/ u \in excused
    BY <1>1, <1>3, <2>1 DEF CacheInv, FillsAgree
  <2>4. request'[t] = request[t]
    BY <1>1, <1>3
  <2>5. request'[t].view = CurrentView(u)' \/ u \in excused'
    BY <2>2, <2>3, <2>4 DEF WrittenFairly
  <2> QED
    BY <2>1, <2>4, <2>5
<1>4. \A u \in Ids : account'[u].state = "fresh" => cache'[u] = Nothing /\ ~Filling(u)'
  BY <1>1 DEF WrittenFairly, CacheInv, Unread
<1> QED
  BY <1>2, <1>3, <1>4 DEF CacheInv, CacheAgrees, FillsAgree, Unread

LEMMA CacheInitially == Init => CacheInv
<1> SUFFICES ASSUME Init PROVE CacheInv
  OBVIOUS
<1>1. \A s \in Slots : ~At(s, "put")
  BY BlankTyped DEF Init, At
<1>2. \A u \in Ids : cache[u] = Nothing
  BY DEF Init
<1> QED
  BY <1>1, <1>2 DEF CacheInv, CacheAgrees, FillsAgree, Unread, Filling

LEMMA SameView ==
  ASSUME NEW u \in Ids, account'[u].state = account[u].state, account'[u].verified = account[u].verified,
         account'[u].active = account[u].active, account'[u].profile = account[u].profile
  PROVE  WrittenFairly(u)
BY DEF WrittenFairly, CurrentView, ViewOf, Present

\* A write of an account, in the words of WrittenFairly.
LEMMA SavesFairly ==
  ASSUME TypeInv, NEW s \in Slots, NEW u \in Ids, NEW new \in Account, new.state # "fresh",
         u = request[s].for, At(s, "run"), SaveThenClear(s, u, new) \/ SaveOnly(s, u, new)
  PROVE  /\ cache' = cache /\ excused \subseteq excused' /\ \A v \in Ids : WrittenFairly(v)
         /\ Becomes(s, InStage(request[s], "clear")) \/ Becomes(s, Blank)
<1>0. request[s] \in Request
  BY DEF TypeInv, TypeOK
<1>1. ASSUME NEW v \in Ids, v # u PROVE WrittenFairly(v)
  <2>1. account'[v] = account[v]
    BY <1>1 DEF SaveThenClear, SaveOnly, TypeInv, TypeOK
  <2> QED
    BY <2>1, SameView
<1>2. account'[u].state # "fresh"
  BY DEF SaveThenClear, SaveOnly, TypeInv, TypeOK
<1>3. CASE SaveThenClear(s, u, new)
  <2>1. Becomes(s, InStage(request[s], "clear"))
    BY <1>3, TypesSplit, Advancing DEF SaveThenClear, Stages, Subjects
  <2>2. Clearing(u)'
    BY <1>0, <2>1, InStageHolds DEF Clearing, At, Becomes
  <2>3. (Filling(u) => u \in excused') /\ excused \subseteq excused'
    BY <1>3 DEF SaveThenClear
  <2> QED
    BY <1>1, <1>2, <1>3, <2>1, <2>2, <2>3 DEF WrittenFairly, SaveThenClear
<1>4. CASE SaveOnly(s, u, new)
  BY <1>1, <1>2, <1>4, TypesSplit, Ending DEF SaveOnly, WrittenFairly
<1> QED
  BY <1>3, <1>4

LEMMA WritingCache ==
  ASSUME TypeInv, CacheInv, NEW s \in Slots, Writing(s) PROVE CacheInv'
<1>0. request[s] \in Request /\ Blank.stage = "idle" /\ At(s, "run")
  BY BlankTyped DEF TypeInv, TypeOK, Writing, UpdateCurrentUser, EditProfile, SetAvatar,
     UpdateUserStatus,
     DeactivateAccount, ReactivateAccount, DeleteAccount, SuspendUser, ActivateUser, VerifyUser, Running, At
<1>1. CASE Refuse(s)
  <2>1. \A u \in Ids : WrittenFairly(u)
    BY <1>1, SameView DEF Refuse
  <2>2. Becomes(s, Blank) /\ UNCHANGED <<cache, excused>>
    BY <1>1, TypesSplit, Ending DEF Refuse, history
  <2> QED
    BY <1>0, <2>1, <2>2, CacheKept DEF Becomes, At
<1>2. ASSUME NEW u \in Ids, u = request[s].for, NEW new \in Account, new.state # "fresh",
             SaveThenClear(s, u, new) \/ SaveOnly(s, u, new)
      PROVE  CacheInv'
  <2>1. /\ cache' = cache /\ excused \subseteq excused' /\ \A v \in Ids : WrittenFairly(v)
        /\ Becomes(s, InStage(request[s], "clear")) \/ Becomes(s, Blank)
    BY <1>0, <1>2, SavesFairly
  <2>2. request'[s].stage # "put" /\ \A t \in Slots \ {s} : request'[t] = request[t]
    BY <1>0, <2>1, InStageHolds DEF Becomes
  <2> QED
    BY <1>0, <2>1, <2>2, CacheKept DEF At
<1>3. CASE ~Refuse(s)
  <2>1. PICK u \in Ids : u = request[s].for
    BY <1>3, Writes
  <2>2. account[u] \in Account /\ account[u].state = "present"
    BY <1>3, <2>1, Writes DEF TypeInv, TypeOK, Present
  <2>3. ASSUME NEW p \in Profiles,
               SaveThenClear(s, u, [account[u] EXCEPT !.profile = p]) \/ SaveOnly(s, u, [account[u] EXCEPT !.profile = p])
        PROVE  CacheInv'
    <3> DEFINE new == [account[u] EXCEPT !.profile = p]
    <3>1. new \in Account /\ new.state # "fresh" /\ (SaveThenClear(s, u, new) \/ SaveOnly(s, u, new))
      BY <2>2, <2>3 DEF Account
    <3> HIDE DEF new
    <3> QED
      BY <1>2, <2>1, <3>1
  <2>4. ASSUME NEW b \in BOOLEAN,
               SaveThenClear(s, u, [account[u] EXCEPT !.active = b]) \/ SaveOnly(s, u, [account[u] EXCEPT !.active = b])
        PROVE  CacheInv'
    <3> DEFINE new == [account[u] EXCEPT !.active = b]
    <3>1. new \in Account /\ new.state # "fresh" /\ (SaveThenClear(s, u, new) \/ SaveOnly(s, u, new))
      BY <2>2, <2>4 DEF Account
    <3> HIDE DEF new
    <3> QED
      BY <1>2, <2>1, <3>1
  <2>5. CASE SaveThenClear(s, u, [account[u] EXCEPT !.state = "gone"])
    <3> DEFINE new == [account[u] EXCEPT !.state = "gone"]
    <3>1. new \in Account /\ new.state # "fresh" /\ SaveThenClear(s, u, new)
      BY <2>2, <2>5 DEF Account
    <3> HIDE DEF new
    <3> QED
      BY <1>2, <2>1, <3>1
  <2>6. CASE SaveOnly(s, u, [account[u] EXCEPT !.verified = TRUE])
    <3> DEFINE new == [account[u] EXCEPT !.verified = TRUE]
    <3>1. new \in Account /\ new.state # "fresh" /\ SaveOnly(s, u, new)
      BY <2>2, <2>6 DEF Account
    <3> HIDE DEF new
    <3> QED
      BY <1>2, <2>1, <3>1
  <2> QED
    BY <1>3, <2>1, <2>3, <2>4, <2>5, <2>6, Writes
<1> QED
  BY <1>1, <1>3

\* The entry of account u is deleted, by its writer or by its time to live.
LEMMA Dropping ==
  ASSUME TypeInv, CacheInv, NEW u \in Ids, UNCHANGED account, cache' = [cache EXCEPT ![u] = Nothing],
         excused' = (IF Filling(u) THEN excused ELSE excused \ {u}),
         \A t \in Slots : request'[t] = request[t] \/ request'[t].stage \notin {"put", "clear"},
         \A t \in Slots : At(t, "clear") => request'[t] = request[t] \/ request[t].for = u
  PROVE  CacheInv'
<1>1. \A v \in Ids : CurrentView(v)' = CurrentView(v)
  BY DEF CurrentView, Present, ViewOf
<1>2. /\ \A v \in Ids : v # u /\ Clearing(v) => Clearing(v)'
      /\ \A v \in Ids : Filling(v)' => Filling(v)
      /\ \A t \in Slots : At(t, "put")' => request'[t] = request[t] /\ At(t, "put")
  BY DEF Clearing, Filling, At
<1>3. cache'[u] = Nothing /\ \A v \in Ids : v # u => cache'[v] = cache[v]
  BY DEF TypeInv, TypeOK
<1>4. ASSUME NEW v \in Ids, cache'[v] \notin {Nothing, CurrentView(v)'} PROVE Clearing(v)' \/ v \in excused'
  BY <1>1, <1>2, <1>3, <1>4 DEF CacheInv, CacheAgrees
<1>5. ASSUME NEW t \in Slots, At(t, "put")'
      PROVE  request'[t].view = CurrentView(request[t].for)' \/ request'[t].for \in excused'
  <2>1. request'[t] = request[t] /\ At(t, "put")
    BY <1>2, <1>5
  <2>2. PICK v \in Ids : v = request[t].for
    BY <2>1 DEF TypeInv, RequestsHold, Subjects, At
  <2>3. request[t].view = CurrentView(v) \/ v \in excused
    BY <2>1, <2>2 DEF CacheInv, FillsAgree
  <2>4. v \in excused => v \in excused'
    BY <2>1, <2>2 DEF Filling
  <2>5. request'[t].view = CurrentView(v)' \/ v \in excused'
    BY <1>1, <2>1, <2>3, <2>4
  <2> QED
    BY <2>1, <2>2, <2>5
<1>6. \A v \in Ids : account'[v].state = "fresh" => cache'[v] = Nothing /\ ~Filling(v)'
  BY <1>2, <1>3 DEF CacheInv, Unread
<1> QED
  BY <1>4, <1>5, <1>6 DEF CacheInv, CacheAgrees, FillsAgree, Unread

LEMMA ClearingCache ==
  ASSUME TypeInv, CacheInv, NEW s \in Slots, ClearProfile(s) PROVE CacheInv'
<1>1. PICK u \in Ids : u = request[s].for
  BY DEF ClearProfile, TypeInv, RequestsHold, Subjects, At
<1>2. /\ UNCHANGED account /\ cache' = [cache EXCEPT ![u] = Nothing]
      /\ excused' = (IF Filling(u) THEN excused ELSE excused \ {u}) /\ Becomes(s, Blank)
  BY <1>1, TypesSplit, Ending DEF ClearProfile
<1>3. /\ \A t \in Slots : request'[t] = request[t] \/ request'[t].stage \notin {"put", "clear"}
      /\ \A t \in Slots : At(t, "clear") => request'[t] = request[t] \/ request[t].for = u
  BY <1>1, <1>2, BlankTyped DEF Becomes
<1> QED
  BY <1>2, <1>3, Dropping

LEMMA PlainCache ==
  ASSUME TypeInv, CacheInv, NEW s \in Slots, Plain(s) PROVE CacheInv'
<1>0. /\ request[s] \in Request /\ Blank.stage = "idle" /\ RequestsTyped
      /\ \A u \in Ids : account[u] \in Account
  BY BlankTyped, TypesSplit DEF TypeInv, TypeOK
<1>1. ASSUME ~At(s, "clear"), NEW q, Becomes(s, q), q.stage # "put", UNCHANGED <<cache, excused>>, \A u \in Ids : WrittenFairly(u)
      PROVE  CacheInv'
  BY <1>1, CacheKept DEF Becomes
<1>2. ASSUME UNCHANGED account PROVE \A u \in Ids : WrittenFairly(u)
  BY <1>2, SameView
<1>3. ASSUME Free(s), NEW e \in Emails, NEW p \in Purposes, StartSending(s, e, p), UNCHANGED <<cache, excused>>,
             \A u \in Ids : WrittenFairly(u)
      PROVE  CacheInv'
  BY <1>0, <1>1, <1>3, Sending, SentStage DEF Free, At
<1>4. ASSUME ~At(s, "clear"), Done(s), UNCHANGED <<cache, excused>>, \A u \in Ids : WrittenFairly(u) PROVE CacheInv'
  BY <1>0, <1>1, <1>4, Ending
<1>5. CASE \E u \in Ids : Register(s, u)
  <2>1. PICK u \in Ids : Register(s, u)
    BY <1>5
  <2>2. ASSUME NEW v \in Ids PROVE WrittenFairly(v)
    <3>1. CASE v # u
      <4>1. account'[v] = account[v]
        BY <2>1, <3>1 DEF Register, TypeInv, TypeOK
      <4> QED
        BY <4>1, SameView
    <3>2. CASE v = u
      <4>1. account[v].state = "fresh" /\ account'[v].state = "present"
        BY <1>0, <2>1, <3>2 DEF Register, TypeInv, TypeOK, Account
      <4> QED
        BY <4>1 DEF WrittenFairly
    <3> QED
      BY <3>1, <3>2
  <2> QED
    BY <1>3, <2>1, <2>2, AddressTyped DEF Register, history, Purposes
<1>6. CASE Asking(s)
  BY <1>2, <1>3, <1>6, AddressTyped
     DEF Asking, LoginUnverified, SendVerification, ForgotPassword, ResendOtp, history, Purposes
<1>7. CASE DeleteCodes(s)
  <2>1. At(s, "delete") /\ Goto(s, "insert") /\ UNCHANGED <<account, cache, excused>>
    BY <1>7 DEF DeleteCodes, history
  <2>2. Becomes(s, InStage(request[s], "insert"))
    BY <1>0, <2>1, Advancing DEF Stages, Subjects
  <2>3. InStage(request[s], "insert").stage # "put"
    BY <1>0, InStageHolds
  <2> QED
    BY <1>1, <1>2, <2>1, <2>2, <2>3 DEF At
<1>8. CASE InsertCode(s)
  BY <1>2, <1>4, <1>8 DEF InsertCode, history, At
<1>9. CASE Entering(s)
  <2>1. PICK u \in Ids, target \in Watched : \E h \in Calls[u] : Enter(s, u, h, target)
    BY <1>9 DEF Entering
  <2>2. PICK h \in Calls[u] : Enter(s, u, h, target)
    BY <2>1
  <2> DEFINE q == [Blank EXCEPT !.stage = "run", !.op = h, !.by = u, !.for = target]
  <2>3. q.stage = "run"
    BY BlankTyped DEF Request
  <2>4. Free(s) /\ request' = [request EXCEPT ![s] = q] /\ UNCHANGED <<account, cache, excused>>
    BY <2>2 DEF Enter, history
  <2> HIDE DEF q
  <2>5. Becomes(s, q)
    BY <1>0, <2>4 DEF RequestsTyped, Becomes
  <2> QED
    BY <1>1, <1>2, <2>3, <2>4, <2>5 DEF Free, At
<1>10. CASE Writing(s)
  BY <1>10, WritingCache
<1>11. CASE ChangePassword(s)
  <2>1. \A u \in Ids : WrittenFairly(u)
    <3>1. \A u \in Ids : /\ account'[u].state = account[u].state /\ account'[u].verified = account[u].verified
                         /\ account'[u].active = account[u].active /\ account'[u].profile = account[u].profile
      BY <1>0, <1>11 DEF ChangePassword, TypeInv, TypeOK, Account
    <3> QED
      BY <3>1, SameView
  <2> QED
    BY <1>4, <1>11, <2>1 DEF ChangePassword, Running, At, history
<1>12. CASE ReadProfile(s)
  <2>1. PICK u \in Ids : u = request[s].for
    BY <1>12 DEF ReadProfile, Running, TypeInv, RequestsHold, Subjects, At
  <2>2. /\ request[s].stage = "run" /\ UNCHANGED <<account, cache, excused>>
        /\ \/ Done(s)
           \/ /\ Present(u)
              /\ request' = [request EXCEPT ![s].stage = "put", ![s].view = CurrentView(u)]
    BY <1>12, <2>1 DEF ReadProfile, Running, history
  <2>3. CASE Done(s)
    BY <1>2, <1>4, <2>2, <2>3 DEF At
  <2>4. CASE Present(u) /\ request' = [request EXCEPT ![s].stage = "put", ![s].view = CurrentView(u)]
    <3> DEFINE q == [request[s] EXCEPT !.stage = "put", !.view = CurrentView(u)]
    <3>1. q.stage = "put" /\ q.for = u /\ q.view = CurrentView(u)
      BY <1>0, <2>1 DEF Request
    <3>2. request' = [request EXCEPT ![s] = q]
      BY <2>4
    <3> HIDE DEF q
    <3>3. request'[s] = q /\ \A t \in Slots \ {s} : request'[t] = request[t]
      BY <1>0, <3>2 DEF RequestsTyped
    <3>4. \A v \in Ids : CurrentView(v)' = CurrentView(v)
      BY <2>2 DEF CurrentView, Present, ViewOf
    <3>5. \A v \in Ids : Clearing(v) => Clearing(v)'
      BY <2>2, <3>3 DEF Clearing, At
    <3>6. CacheAgrees'
      BY <2>2, <3>4, <3>5 DEF CacheInv, CacheAgrees
    <3>7. ASSUME NEW t \in Slots, At(t, "put")'
          PROVE  request'[t].view = CurrentView(request[t].for)' \/ request'[t].for \in excused'
      <4>1. CASE t = s
        BY <3>1, <3>3, <3>4, <4>1
      <4>2. CASE t # s
        <5>1. request'[t] = request[t] /\ At(t, "put")
          BY <3>3, <3>7, <4>2 DEF At
        <5>2. PICK v \in Ids : v = request[t].for
          BY <5>1 DEF TypeInv, RequestsHold, Subjects, At
        <5>3. request[t].view = CurrentView(v) \/ v \in excused
          BY <5>1, <5>2 DEF CacheInv, FillsAgree
        <5>4. request'[t].view = CurrentView(v)' \/ v \in excused'
          BY <2>2, <3>4, <5>1, <5>3
        <5> QED
          BY <5>1, <5>2, <5>4
      <4> QED
        BY <4>1, <4>2
    <3>8. ASSUME NEW v \in Ids, account'[v].state = "fresh" PROVE cache'[v] = Nothing /\ ~Filling(v)'
      <4>1. v # u /\ cache[v] = Nothing /\ ~Filling(v)
        BY <2>2, <2>4, <3>8 DEF CacheInv, Unread, Present
      <4> QED
        BY <2>2, <3>1, <3>3, <4>1 DEF Filling, At
    <3> QED
      BY <3>6, <3>7, <3>8 DEF CacheInv, FillsAgree, Unread
  <2> QED
    BY <2>2, <2>3, <2>4
<1>13. CASE PutProfile(s)
  <2>1. PICK u \in Ids : u = request[s].for
    BY <1>13 DEF PutProfile, TypeInv, RequestsHold, Subjects, At
  <2>2. /\ At(s, "put") /\ cache' = [cache EXCEPT ![u] = request[s].view] /\ UNCHANGED <<account, excused>>
        /\ Becomes(s, Blank)
    BY <1>0, <1>13, <2>1, Ending DEF PutProfile, history
  <2>3. \A v \in Ids : CurrentView(v)' = CurrentView(v)
    BY <2>2 DEF CurrentView, Present, ViewOf
  <2>4. /\ \A v \in Ids : Clearing(v) => Clearing(v)'
        /\ \A v \in Ids : Filling(v)' => Filling(v)
        /\ \A t \in Slots : At(t, "put")' => request'[t] = request[t] /\ At(t, "put")
    BY <1>0, <2>2 DEF Becomes, Clearing, Filling, At
  <2>5. cache'[u] = request[s].view /\ \A v \in Ids : v # u => cache'[v] = cache[v]
    BY <2>2 DEF TypeInv, TypeOK
  <2>6. request[s].view = CurrentView(u) \/ u \in excused
    BY <2>1, <2>2 DEF CacheInv, FillsAgree
  <2>7. ASSUME NEW v \in Ids, cache'[v] \notin {Nothing, CurrentView(v)'} PROVE Clearing(v)' \/ v \in excused'
    <3>1. CASE v = u
      BY <2>2, <2>3, <2>5, <2>6, <2>7, <3>1
    <3>2. CASE v # u
      BY <2>2, <2>3, <2>4, <2>5, <2>7, <3>2 DEF CacheInv, CacheAgrees
    <3> QED
      BY <3>1, <3>2
  <2>8. ASSUME NEW t \in Slots, At(t, "put")'
        PROVE  request'[t].view = CurrentView(request[t].for)' \/ request'[t].for \in excused'
    <3>1. request'[t] = request[t] /\ At(t, "put")
      BY <2>4, <2>8
    <3>2. PICK v \in Ids : v = request[t].for
      BY <3>1 DEF TypeInv, RequestsHold, Subjects, At
    <3>3. request[t].view = CurrentView(v) \/ v \in excused
      BY <3>1, <3>2 DEF CacheInv, FillsAgree
    <3>4. request'[t].view = CurrentView(v)' \/ v \in excused'
      BY <2>2, <2>3, <3>1, <3>3
    <3> QED
      BY <3>1, <3>2, <3>4
  <2>9. ASSUME NEW v \in Ids, account'[v].state = "fresh" PROVE cache'[v] = Nothing /\ ~Filling(v)'
    <3>1. Filling(u)
      BY <2>1, <2>2 DEF Filling
    <3>2. v # u /\ cache[v] = Nothing /\ ~Filling(v)
      BY <2>2, <2>9, <3>1 DEF CacheInv, Unread
    <3> QED
      BY <2>4, <2>5, <3>2
  <2> QED
    BY <2>7, <2>8, <2>9 DEF CacheInv, CacheAgrees, FillsAgree, Unread
<1>14. CASE ClearProfile(s)
  BY <1>14, ClearingCache
<1> QED
  BY <1>5, <1>6, <1>7, <1>8, <1>9, <1>10, <1>11, <1>12, <1>13, <1>14 DEF Plain

LEMMA CodedCache ==
  ASSUME TypeInv, CacheInv, NEW s \in Slots, Coded(s) PROVE CacheInv'
<1>0. /\ request[s] \in Request /\ Blank.stage = "idle"
      /\ \A u \in Ids : account[u] \in Account
  BY BlankTyped DEF TypeInv, TypeOK
<1>1. ASSUME ~At(s, "clear"), NEW q, Becomes(s, q), q.stage # "put", UNCHANGED cache, excused \subseteq excused',
             \A u \in Ids : WrittenFairly(u)
      PROVE  CacheInv'
  BY <1>1, CacheKept DEF Becomes
<1>2. ASSUME UNCHANGED account PROVE \A u \in Ids : WrittenFairly(u)
  BY <1>2, SameView
<1>3. ASSUME NEW e \in Mailed, NEW op \in {"auth.verifyEmail", "auth.resetPassword"}, PresentCode(s, e, op)
      PROVE  CacheInv'
  <2>1. PICK c \in Codes : Becomes(s, Presented(e, op, c))
    BY <1>3, Presenting
  <2>2. Presented(e, op, c).stage = "count"
    BY PresentedHolds
  <2> QED
    BY <1>1, <1>2, <1>3, <2>1, <2>2 DEF PresentCode, Free, At
<1>4. ASSUME NEW right \in BOOLEAN, CountAttempt(s, right) PROVE CacheInv'
  <2>1. Becomes(s, InStage(request[s], "apply")) \/ Becomes(s, Blank)
    BY <1>4, Counting
  <2>2. InStage(request[s], "apply").stage = "apply"
    BY <1>0, InStageHolds
  <2> QED
    BY <1>0, <1>1, <1>2, <1>4, <2>1, <2>2 DEF CountAttempt, At
<1>5. CASE ApplyCode(s)
  <2>1. ASSUME NEW u \in Ids, VerifyEmail(u) PROVE excused \subseteq excused' /\ \A v \in Ids : WrittenFairly(v)
    <3>1. ASSUME NEW v \in Ids, v # u PROVE WrittenFairly(v)
      <4>1. account'[v] = account[v]
        BY <2>1, <3>1 DEF VerifyEmail, TypeInv, TypeOK
      <4> QED
        BY <4>1, SameView
    <3>2. account'[u].state = account[u].state /\ u \in excused'
      BY <1>0, <2>1 DEF VerifyEmail, TypeInv, TypeOK, Account
    <3>3. WrittenFairly(u)
      <4>1. CASE account[u].state = "fresh"
        <5>1. CurrentView(u)' = CurrentView(u)
          BY <3>2, <4>1 DEF CurrentView, Present
        <5> QED
          BY <3>2, <5>1 DEF WrittenFairly
      <4>2. CASE account[u].state # "fresh"
        BY <3>2, <4>2 DEF WrittenFairly
      <4> QED
        BY <4>1, <4>2
    <3> QED
      BY <2>1, <3>1, <3>3 DEF VerifyEmail
  <2>2. ASSUME NEW u \in Ids, ResetPassword(u) PROVE excused \subseteq excused' /\ \A v \in Ids : WrittenFairly(v)
    <3>1. \A v \in Ids : /\ account'[v].state = account[v].state /\ account'[v].verified = account[v].verified
                         /\ account'[v].active = account[v].active /\ account'[v].profile = account[v].profile
      BY <1>0, <2>2 DEF ResetPassword, TypeInv, TypeOK, Account
    <3> QED
      BY <2>2, <3>1, SameView DEF ResetPassword
  <2>3. ASSUME NEW u \in Ids, VerifyEmail(u) \/ ResetPassword(u), Becomes(s, Applied(request[s], u)) PROVE CacheInv'
    <3>1. Applied(request[s], u).stage = "use"
      BY <1>0, AppliedHolds
    <3> QED
      BY <1>1, <1>5, <2>1, <2>2, <2>3, <3>1 DEF ApplyCode, At
  <2>4. ASSUME Becomes(s, Blank), UNCHANGED <<account, excused>> PROVE CacheInv'
    BY <1>0, <1>1, <1>2, <1>5, <2>4 DEF ApplyCode, At
  <2> QED
    BY <1>5, <2>3, <2>4, Applying
<1>6. CASE UseCode(s)
  <2>1. Becomes(s, Blank)
    BY <1>6, TypesSplit, Ending DEF UseCode
  <2> QED
    BY <1>0, <1>1, <1>2, <1>6, <2>1 DEF UseCode, At, history
<1> QED
  BY <1>3, <1>4, <1>5, <1>6 DEF Coded

\* A request that breaks off before it deletes the entry excuses the account.
LEMMA FailingCache ==
  ASSUME TypeInv, CacheInv, NEW s \in Slots, Fail(s) PROVE CacheInv'
<1>1. /\ UNCHANGED <<account, cache>> /\ Becomes(s, Blank) /\ Blank.stage = "idle"
      /\ excused \subseteq excused' /\ (At(s, "clear") => request[s].for \in excused')
  BY TypesSplit, Ending, BlankTyped DEF Fail
<1>2. \A v \in Ids : CurrentView(v)' = CurrentView(v)
  BY <1>1 DEF CurrentView, Present, ViewOf
<1>3. /\ \A v \in Ids : Clearing(v) => Clearing(v)' \/ v \in excused'
      /\ \A v \in Ids : Filling(v)' => Filling(v)
      /\ \A t \in Slots : At(t, "put")' => request'[t] = request[t] /\ At(t, "put")
  BY <1>1 DEF Becomes, Clearing, Filling, At
<1>4. CacheAgrees'
  BY <1>1, <1>2, <1>3 DEF CacheInv, CacheAgrees
<1>5. ASSUME NEW t \in Slots, At(t, "put")'
      PROVE  request'[t].view = CurrentView(request[t].for)' \/ request'[t].for \in excused'
  <2>1. request'[t] = request[t] /\ At(t, "put")
    BY <1>3, <1>5
  <2>2. PICK v \in Ids : v = request[t].for
    BY <2>1 DEF TypeInv, RequestsHold, Subjects, At
  <2>3. request[t].view = CurrentView(v) \/ v \in excused
    BY <2>1, <2>2 DEF CacheInv, FillsAgree
  <2>4. request'[t].view = CurrentView(v)' \/ v \in excused'
    BY <1>1, <1>2, <2>1, <2>3
  <2> QED
    BY <2>1, <2>2, <2>4
<1>6. \A v \in Ids : account'[v].state = "fresh" => cache'[v] = Nothing /\ ~Filling(v)'
  BY <1>1, <1>3 DEF CacheInv, Unread
<1> QED
  BY <1>4, <1>5, <1>6 DEF CacheInv, FillsAgree, Unread

LEMMA CacheStep == TypeInv /\ CacheInv /\ [Next]_vars => CacheInv'
<1> SUFFICES ASSUME TypeInv, CacheInv, [Next]_vars PROVE CacheInv'
  OBVIOUS
<1>1. ASSUME UNCHANGED <<account, cache, request, excused>> PROVE CacheInv'
  BY <1>1 DEF CacheInv, CacheAgrees, FillsAgree, Unread, CurrentView, Present, ViewOf, Clearing,
     Filling, At
<1>2. ASSUME NEW s \in Slots, Plain(s) \/ Coded(s) \/ Fail(s) PROVE CacheInv'
  BY <1>2, PlainCache, CodedCache, FailingCache
<1>3. ASSUME NEW u \in Ids, Login(u) \/ RefreshToken(u) \/ ExpireToken(u) PROVE CacheInv'
  BY <1>1, <1>3 DEF Login, RefreshToken, ExpireToken, history
<1>4. ASSUME NEW u \in Ids, EvictProfile(u) PROVE CacheInv'
  BY <1>4, Dropping DEF EvictProfile
<1>5. ASSUME NEW c \in Codes, ExpireCode(c) PROVE CacheInv'
  BY <1>1, <1>5 DEF ExpireCode, history
<1>6. CASE Restart
  <2>1. \A s \in Slots : ~At(s, "put")'
    BY <1>6, BlankTyped DEF Restart, At
  <2>2. \A u \in Ids : cache'[u] = Nothing
    BY <1>6 DEF Restart
  <2> QED
    BY <2>1, <2>2 DEF CacheInv, CacheAgrees, FillsAgree, Unread, Filling
<1>7. CASE UNCHANGED vars
  BY <1>1, <1>7 DEF vars
<1> QED
  BY <1>2, <1>3, <1>4, <1>5, <1>6, <1>7, Steps

\* However fills, writes, deletes and failures interleave, a cached profile that
\* differs from the stored one has its writer still about to delete the entry,
\* or is one of the excused cases the code leaves open.
THEOREM CacheStaysFair == Spec => []CacheAgrees
BY TypeInitially, TypeStep, CacheInitially, CacheStep, PTL DEF Spec, CacheInv

-----------------------------------------------------------------------------
(***************************************************************************)
(* OutUntilReadmitted rests on whom a running handler acts for: its own    *)
(* caller, or anybody when an admin activates an account.                  *)
(***************************************************************************)
Entitled(q) ==
  q.stage = "run" =>
    /\ q.op \in OwnHandlers => q.for = q.by
    /\ q.op = "admin.activateUser" => RoleOf[q.by] = "admin"

EntitledInv == \A s \in Slots : Entitled(request[s])

\* A request starts to run for its caller; until it ends it stays the caller's.
Moved(s) ==
  \/ request'[s] = request[s]
  \/ request'[s].stage # "run" /\ request'[s].by \in {request[s].by, Nothing}
  \/ \E u \in Ids, target \in Watched : \E h \in Calls[u] : Enter(s, u, h, target)

LEMMA HeldBy ==
  /\ Blank.by = Nothing /\ Blank.stage = "idle"
  /\ \A e \in Emails, p \in Purposes : Sent(e, p).by = Nothing
  /\ \A q \in Request : \A stage : InStage(q, stage).by = q.by
  /\ \A q \in Request : \A u : Applied(q, u).by = q.by
BY BlankTyped DEF Sent, InStage, Applied, Request

LEMMA PresentedBy ==
  ASSUME NEW e \in Emails, NEW op \in {"auth.verifyEmail", "auth.resetPassword"}, NEW c \in Codes
  PROVE  Presented(e, op, c).by = Nothing
BY BlankTyped DEF Presented, Request

LEMMA PlainMoves ==
  ASSUME TypeInv, NEW s \in Slots, Plain(s) PROVE \A t \in Slots : Moved(t)
<1>0. RequestsTyped /\ request[s] \in Request
  BY TypesSplit DEF RequestsTyped
<1>1. ASSUME NEW q, Becomes(s, q), q.stage # "run", q.by \in {request[s].by, Nothing} PROVE \A t \in Slots : Moved(t)
  BY <1>1 DEF Becomes, Moved
<1>2. ASSUME Done(s) PROVE \A t \in Slots : Moved(t)
  BY <1>0, <1>1, <1>2, Ending, HeldBy
<1>3. ASSUME NEW e \in Emails, NEW p \in Purposes, StartSending(s, e, p) PROVE \A t \in Slots : Moved(t)
  BY <1>0, <1>1, <1>3, Sending, SentStage, HeldBy
<1>4. ASSUME NEW stage \in {"insert", "clear"}, Goto(s, stage) PROVE \A t \in Slots : Moved(t)
  <2>1. request' = [request EXCEPT ![s] = InStage(request[s], stage)]
    BY <1>4 DEF Goto, InStage
  <2>2. Becomes(s, InStage(request[s], stage))
    BY <1>0, <2>1 DEF RequestsTyped, Becomes
  <2> QED
    BY <1>0, <1>1, <2>2, HeldBy, InStageHolds
<1>5. CASE \E u \in Ids : Register(s, u)
  BY <1>3, <1>5, AddressTyped DEF Register, Purposes
<1>6. CASE Asking(s)
  <2>1. \E e \in Emails, p \in Purposes : StartSending(s, e, p)
    BY <1>6, AddressTyped, BoundsAssumption
       DEF Asking, LoginUnverified, SendVerification, ForgotPassword, ResendOtp, Purposes
  <2> QED
    BY <1>3, <2>1
<1>7. CASE DeleteCodes(s) \/ InsertCode(s)
  BY <1>2, <1>4, <1>7 DEF DeleteCodes, InsertCode
<1>8. CASE Entering(s)
  <2>1. \A t \in Slots \ {s} : request'[t] = request[t]
    <3>1. PICK q : request' = [request EXCEPT ![s] = q]
      BY <1>8 DEF Entering, Enter
    <3> QED
      BY <1>0, <3>1 DEF RequestsTyped
  <2> QED
    BY <1>8, <2>1 DEF Entering, Moved
<1>9. CASE Writing(s)
  <2>1. CASE Refuse(s)
    BY <1>2, <2>1 DEF Refuse
  <2>2. CASE ~Refuse(s)
    BY <1>2, <1>4, <1>9, <2>2, Writes DEF SaveThenClear, SaveOnly
  <2> QED
    BY <2>1, <2>2
<1>10. CASE ChangePassword(s) \/ PutProfile(s) \/ ClearProfile(s)
  BY <1>2, <1>10 DEF ChangePassword, PutProfile, ClearProfile
<1>11. CASE ReadProfile(s)
  <2>1. PICK u : u = request[s].for
    OBVIOUS
  <2>2. Done(s) \/ request' = [request EXCEPT ![s].stage = "put", ![s].view = CurrentView(u)]
    BY <1>11, <2>1 DEF ReadProfile
  <2> DEFINE q == [request[s] EXCEPT !.stage = "put", !.view = CurrentView(u)]
  <2>3. q.stage = "put" /\ q.by = request[s].by
    BY <1>0 DEF Request
  <2>4. CASE request' = [request EXCEPT ![s].stage = "put", ![s].view = CurrentView(u)]
    <3>1. request' = [request EXCEPT ![s] = q]
      BY <2>4
    <3> HIDE DEF q
    <3>2. Becomes(s, q)
      BY <1>0, <3>1 DEF RequestsTyped, Becomes
    <3> QED
      BY <1>1, <2>3, <3>2
  <2> QED
    BY <1>2, <2>2, <2>4
<1> QED
  BY <1>5, <1>6, <1>7, <1>8, <1>9, <1>10, <1>11 DEF Plain

LEMMA CodedMoves ==
  ASSUME TypeInv, NEW s \in Slots, Coded(s) \/ Fail(s) PROVE \A t \in Slots : Moved(t)
<1>0. RequestsTyped /\ request[s] \in Request
  BY TypesSplit DEF RequestsTyped
<1>1. ASSUME NEW q, Becomes(s, q), q.stage # "run", q.by \in {request[s].by, Nothing} PROVE \A t \in Slots : Moved(t)
  BY <1>1 DEF Becomes, Moved
<1>2. ASSUME Becomes(s, Blank) PROVE \A t \in Slots : Moved(t)
  BY <1>1, <1>2, HeldBy
<1>3. ASSUME NEW e \in Mailed, NEW op \in {"auth.verifyEmail", "auth.resetPassword"}, PresentCode(s, e, op)
      PROVE  \A t \in Slots : Moved(t)
  <2>1. PICK c \in Codes : Becomes(s, Presented(e, op, c))
    BY <1>3, Presenting
  <2> QED
    <3>1. e \in Emails
      BY BoundsAssumption
    <3>2. Presented(e, op, c).stage = "count" /\ Presented(e, op, c).by = Nothing
      BY <3>1, PresentedHolds, PresentedBy
    <3> QED
      BY <1>1, <2>1, <3>2
<1>4. ASSUME NEW right \in BOOLEAN, CountAttempt(s, right) PROVE \A t \in Slots : Moved(t)
  <2>1. Becomes(s, InStage(request[s], "apply")) \/ Becomes(s, Blank)
    BY <1>4, Counting
  <2> QED
    BY <1>0, <1>1, <1>2, <2>1, InStageHolds, HeldBy
<1>5. CASE ApplyCode(s)
  <2>1. \/ \E u \in Ids : Becomes(s, Applied(request[s], u))
        \/ Becomes(s, Blank)
    BY <1>5, Applying
  <2>2. ASSUME NEW u \in Ids, Becomes(s, Applied(request[s], u)) PROVE \A t \in Slots : Moved(t)
    <3>1. Applied(request[s], u).stage = "use" /\ Applied(request[s], u).by = request[s].by
      BY <1>0, AppliedHolds, HeldBy
    <3> QED
      BY <1>1, <2>2, <3>1
  <2> QED
    BY <1>2, <2>1, <2>2
<1>6. CASE UseCode(s) \/ Fail(s)
  BY <1>0, <1>2, <1>6, Ending DEF UseCode, Fail
<1> QED
  BY <1>3, <1>4, <1>5, <1>6 DEF Coded

LEMMA AllMove == TypeInv /\ [Next]_vars => \A t \in Slots : Moved(t)
<1> SUFFICES ASSUME TypeInv, [Next]_vars PROVE \A t \in Slots : Moved(t)
  OBVIOUS
<1>1. ASSUME UNCHANGED request PROVE \A t \in Slots : Moved(t)
  BY <1>1 DEF Moved
<1>2. CASE Restart
  BY <1>2, HeldBy DEF Restart, Moved
<1>3. ASSUME NEW u \in Ids, Login(u) \/ RefreshToken(u) \/ EvictProfile(u) \/ ExpireToken(u) PROVE UNCHANGED request
  BY <1>3 DEF Login, RefreshToken, EvictProfile, ExpireToken
<1>4. ASSUME NEW c \in Codes, ExpireCode(c) PROVE UNCHANGED request
  BY <1>4 DEF ExpireCode
<1>5. CASE UNCHANGED vars
  BY <1>1, <1>5 DEF vars
<1> QED
  BY <1>1, <1>2, <1>3, <1>4, <1>5, Steps, PlainMoves, CodedMoves

\* The guards let a handler run only for an active account, and the admin's only
\* for an admin.
LEMMA EnterHolds ==
  ASSUME TypeInv, NEW s \in Slots, NEW u \in Ids, NEW target \in Watched, NEW h \in Calls[u], Enter(s, u, h, target)
  PROVE  /\ account[u].active
         /\ request'[s].by = u
         /\ Entitled(request'[s])
<1>1. h \in Handlers
  BY BoundsAssumption
<1>2. PICK route \in Doors[h] : Admits(route, Caller(u))
  BY DEF Enter
<1>3. Caller(u).active /\ (h = "admin.activateUser" => Caller(u).role = "admin")
  BY <1>1, <1>2, DoorsHold
<1>4. account[u].active /\ (h = "admin.activateUser" => RoleOf[u] = "admin")
  BY <1>3 DEF Caller
<1> DEFINE q == [Blank EXCEPT !.stage = "run", !.op = h, !.by = u, !.for = target]
<1>5. q.stage = "run" /\ q.op = h /\ q.by = u /\ q.for = target
  BY BlankTyped DEF Request
<1>6. request'[s] = q
  BY TypesSplit DEF Enter, RequestsTyped
<1>7. h \in OwnHandlers => target = u
  BY DEF Enter
<1> HIDE DEF q
<1> QED
  BY <1>4, <1>5, <1>6, <1>7 DEF Entitled

LEMMA EntitledInitially == Init => EntitledInv
BY HeldBy DEF Init, EntitledInv, Entitled

LEMMA EntitledStep == TypeInv /\ EntitledInv /\ [Next]_vars => EntitledInv'
<1> SUFFICES ASSUME TypeInv, EntitledInv, [Next]_vars, NEW s \in Slots
             PROVE  Entitled(request'[s])
  BY DEF EntitledInv, Entitled
<1>1. CASE \E u \in Ids, target \in Watched : \E h \in Calls[u] : Enter(s, u, h, target)
  BY <1>1, EnterHolds
<1>2. CASE request'[s] = request[s]
  BY <1>2 DEF EntitledInv
<1>3. CASE request'[s].stage # "run"
  BY <1>3 DEF Entitled
<1> QED
  BY <1>1, <1>2, <1>3, AllMove DEF Moved

(***************************************************************************)
(* Only two handlers make an account active that was not.                  *)
(***************************************************************************)
Sets(s, u, new) == SaveThenClear(s, u, new) \/ SaveOnly(s, u, new)

LEMMA SetsHold ==
  ASSUME TypeInv, NEW s \in Slots, NEW new, Sets(s, request[s].for, new), At(s, "run")
  PROVE  \A u \in Ids : account'[u] = IF u = request[s].for THEN new ELSE account[u]
BY DEF Sets, SaveThenClear, SaveOnly, TypeInv, TypeOK

LEMMA RunningEnds ==
  ASSUME TypeInv, NEW s \in Slots, At(s, "run"), NEW u, NEW new, Sets(s, u, new)
  PROVE  request'[s] # request[s]
<1>1. request'[s].stage \in {"idle", "clear"}
  BY HeldBy DEF Sets, SaveThenClear, SaveOnly, Done, Goto, TypeInv, TypeOK, Request
<1> QED
  BY <1>1 DEF At

\* What a handler that writes the account of u leaves of active.
LEMMA WritingReadmits ==
  ASSUME TypeInv, EntitledInv, NEW s \in Slots, Writing(s), NEW u \in Ids, Quiet(u), ~account[u].active, account'[u].active
  PROVE  AdminReadmits(u)
<1>0. /\ At(s, "run") /\ request[s] \in Request
      /\ account[u] \in Account /\ account[request[s].for] \in Account
      /\ request[s].by # u /\ Entitled(request[s])
  BY DEF Writing, UpdateCurrentUser, EditProfile, SetAvatar, UpdateUserStatus, DeactivateAccount,
         ReactivateAccount, DeleteAccount, SuspendUser, ActivateUser, VerifyUser, Running, At,
         TypeInv, TypeOK, RequestsHold, Subjects, Quiet, EntitledInv
<1> DEFINE v == request[s].for
           a == account[v]
<1>1. ASSUME NEW new, Sets(s, v, new), new.active = a.active PROVE FALSE
  BY <1>0, <1>1, SetsHold
<1>2. ~Refuse(s)
  BY DEF Refuse
<1>3. \A p \in Profiles : [a EXCEPT !.profile = p].active = a.active
  BY <1>0 DEF Account
<1>4. /\ [a EXCEPT !.state = "gone"].active = a.active
      /\ [a EXCEPT !.verified = TRUE].active = a.active
      /\ \A b \in BOOLEAN : [a EXCEPT !.active = b].active = b
  BY <1>0 DEF Account
<1>5. ASSUME NEW new, Sets(s, v, new), ~new.active PROVE FALSE
  BY <1>0, <1>5, SetsHold
<1>6. ASSUME NEW new, Sets(s, v, new) PROVE v = u /\ request'[s] # request[s]
  <2>1. v = u
    BY <1>0, <1>6, SetsHold
  <2> QED
    BY <1>0, <1>6, <2>1, RunningEnds
<1> HIDE DEF a
<1>7. CASE UpdateCurrentUser(s) \/ EditProfile(s) \/ SetAvatar(s)
  <2>1. Refuse(s) \/ \E p \in Profiles : Sets(s, v, [a EXCEPT !.profile = p])
    BY <1>7 DEF UpdateCurrentUser, EditProfile, SetAvatar, Sets, a
  <2> QED
    BY <1>1, <1>2, <1>3, <2>1
<1>8. CASE DeleteAccount(s) \/ VerifyUser(s)
  <2>1. Refuse(s) \/ Sets(s, v, [a EXCEPT !.state = "gone"]) \/ Sets(s, v, [a EXCEPT !.verified = TRUE])
    BY <1>8 DEF DeleteAccount, VerifyUser, Sets, a
  <2> QED
    BY <1>1, <1>2, <1>4, <2>1
<1>9. CASE DeactivateAccount(s) \/ SuspendUser(s)
  <2>1. Refuse(s) \/ Sets(s, v, [a EXCEPT !.active = FALSE])
    BY <1>9 DEF DeactivateAccount, SuspendUser, Sets, a
  <2> QED
    BY <1>2, <1>4, <1>5, <2>1
<1>10. CASE ReactivateAccount(s)
  <2>1. request[s].op = "users.reactivateAccount"
    BY <1>10 DEF ReactivateAccount, Running
  <2>2. v = request[s].by
    BY <1>0, <2>1 DEF Entitled, At, OwnHandlers
  <2>3. Refuse(s) \/ Sets(s, v, [a EXCEPT !.active = TRUE])
    BY <1>10 DEF ReactivateAccount, Sets, a
  <2> QED
    BY <1>0, <1>2, <1>6, <2>2, <2>3
<1>11. CASE ActivateUser(s)
  <2>1. Running(s, "admin.activateUser") /\ RoleOf[request[s].by] = "admin"
    BY <1>0, <1>11 DEF ActivateUser, Running, Entitled
  <2>2. Refuse(s) \/ \E new : Sets(s, v, new)
    BY <1>11 DEF ActivateUser, Sets, a
  <2>3. v = u /\ request'[s] # request[s]
    BY <1>2, <1>6, <2>2
  <2> QED
    BY <2>1, <2>3 DEF AdminReadmits
<1>12. ASSUME NEW isActive \in BOOLEAN, UpdateUserStatus(s, isActive) PROVE AdminReadmits(u)
  <2>1. \/ Refuse(s)
        \/ RoleOf[request[s].by] = "admin" /\ \E new : Sets(s, v, new)
    BY <1>12 DEF UpdateUserStatus, Sets, a
  <2>2. v = u /\ request'[s] # request[s] /\ RoleOf[request[s].by] = "admin"
    BY <1>2, <1>6, <2>1
  <2>3. Running(s, "users.updateUserStatus")
    BY <1>12 DEF UpdateUserStatus
  <2> QED
    BY <2>2, <2>3 DEF AdminReadmits
<1> QED
  BY <1>7, <1>8, <1>9, <1>10, <1>11, <1>12 DEF Writing

\* Every other step leaves active as it was.
LEMMA ActiveKept ==
  ASSUME TypeInv, Next, NEW u \in Ids
  PROVE  account'[u].active = account[u].active \/ \E s \in Slots : Writing(s)
<1>0. account[u] \in Account /\ account \in [Ids -> Account]
  BY DEF TypeInv, TypeOK
<1>1. ASSUME UNCHANGED account PROVE account'[u].active = account[u].active
  BY <1>1
<1>2. ASSUME NEW s \in Slots, Plain(s), ~Writing(s) PROVE account'[u].active = account[u].active
  <2>1. CASE \E v \in Ids : Register(s, v)
    BY <1>0, <2>1 DEF Register, Account
  <2>2. CASE ChangePassword(s)
    BY <1>0, <2>2 DEF ChangePassword, Account
  <2>3. CASE Asking(s) \/ Entering(s)
    <3>1. Asking(s) => UNCHANGED account
      BY Zenon DEF Asking, LoginUnverified, SendVerification, ForgotPassword, ResendOtp
    <3>2. Entering(s) => UNCHANGED account
      BY Zenon DEF Entering, Enter
    <3> QED
      BY <2>3, <3>1, <3>2
  <2>4. CASE DeleteCodes(s) \/ InsertCode(s) \/ ReadProfile(s) \/ PutProfile(s) \/ ClearProfile(s)
    <3>1. UNCHANGED account
      BY <2>4 DEF DeleteCodes, InsertCode, ReadProfile, PutProfile, ClearProfile
    <3> QED
      BY <3>1
  <2> QED
    BY <1>2, <2>1, <2>2, <2>3, <2>4 DEF Plain
<1>3. ASSUME NEW s \in Slots, Coded(s) PROVE account'[u].active = account[u].active
  <2>1. CASE ApplyCode(s)
    <3>1. UNCHANGED account \/ \E v \in Ids : VerifyEmail(v) \/ ResetPassword(v)
      BY <2>1 DEF ApplyCode
    <3> QED
      BY <1>0, <3>1 DEF VerifyEmail, ResetPassword, Account
  <2>2. CASE ~ApplyCode(s)
    <3>1. \A e, op : PresentCode(s, e, op) => UNCHANGED account
      BY Zenon DEF PresentCode
    <3>2. \A right : CountAttempt(s, right) => UNCHANGED account
      BY Zenon DEF CountAttempt
    <3>3. UseCode(s) => UNCHANGED account
      BY DEF UseCode
    <3> QED
      BY <1>3, <2>2, <3>1, <3>2, <3>3 DEF Coded
  <2> QED
    BY <2>1, <2>2
<1>4. ASSUME NEW s \in Slots, Fail(s) PROVE UNCHANGED account
  BY <1>4 DEF Fail
<1>5. ASSUME NEW v \in Ids, Login(v) \/ RefreshToken(v) \/ EvictProfile(v) \/ ExpireToken(v) PROVE UNCHANGED account
  BY <1>5 DEF Login, RefreshToken, EvictProfile, ExpireToken
<1>6. ASSUME NEW c \in Codes, ExpireCode(c) PROVE UNCHANGED account
  BY <1>6 DEF ExpireCode
<1>7. CASE Restart
  BY <1>7 DEF Restart
<1> QED
  BY <1>1, <1>2, <1>3, <1>4, <1>5, <1>6, <1>7, Steps

LEMMA Readmission ==
  ASSUME TypeInv, EntitledInv, [Next]_vars, NEW u \in Ids, Present(u), ~account[u].active, Quiet(u)
  PROVE  Quiet(u)' /\ (account'[u].active => AdminReadmits(u))
<1>1. ASSUME NEW s \in Slots PROVE request'[s].by # u
  <2>1. request[s].by # u /\ Nothing # u
    BY AccountsAssumption DEF Quiet
  <2>2. ASSUME NEW v \in Ids, NEW target \in Watched, NEW h \in Calls[v], Enter(s, v, h, target) PROVE request'[s].by # u
    BY <2>2, EnterHolds
  <2> QED
    BY <2>1, <2>2, AllMove DEF Moved
<1>2. Quiet(u)'
  BY <1>1 DEF Quiet
<1>3. ASSUME account'[u].active PROVE AdminReadmits(u)
  <2>1. Next
    BY <1>3 DEF vars
  <2>2. ~(account'[u].active = account[u].active)
    BY <1>3
  <2> QED
    BY <1>3, <2>1, <2>2, ActiveKept, WritingReadmits
<1> QED
  BY <1>2, <1>3

\* An account that was made inactive starts no request, whatever tokens it holds
\* and whichever route it tries, and only an admin makes it active again.
THEOREM InactiveStayOut == Spec => OutUntilReadmitted
<1>1. TypeInv /\ EntitledInv /\ [Next]_vars =>
        [\A u \in Ids : Present(u) /\ ~account[u].active /\ Quiet(u) =>
           Quiet(u)' /\ (account'[u].active => AdminReadmits(u))]_vars
  BY Readmission
<1> QED
  BY <1>1, TypeInvariant, EntitledInitially, EntitledStep, PTL DEF Spec, OutUntilReadmitted

(***************************************************************************)
(* Requests meet their route.                                              *)
(***************************************************************************)
\* Callers are typed, and the routes serve every caller of a role.
LEMMA MetWhenTyped == TypeOK => RequestsMeetTheirRoute
<1> SUFFICES ASSUME TypeOK, NEW u \in Ids PROVE <<Caller(u), TRUE>> \in WellServed
  BY DEF RequestsMeetTheirRoute
<1> DEFINE c == Caller(u)
<1>1. c \in Callers /\ c.role \in Roles
  BY AccountsAssumption DEF TypeOK, Account, Caller, Callers, Present
<1> HIDE DEF c
<1>2. MeantFor(c) = TRUE
  BY <1>1, EveryRouteServes DEF MeantFor
<1>3. <<c, MeantFor(c)>> \in WellServed
  BY <1>1 DEF WellServed
<1> QED
  BY <1>2, <1>3 DEF c

\* Whatever routes a controller declares before others that fit the same request,
\* and whatever becomes of an account, no request of its owner is answered by a
\* handler that admits callers the route it was meant for excludes.
THEOREM RequestsReachTheirRoute == Spec => []RequestsMeetTheirRoute
BY TypeCorrect, MetWhenTyped, PTL
=============================================================================
