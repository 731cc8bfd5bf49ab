------------------------------- MODULE Routes -------------------------------
(***************************************************************************)
(* The HTTP surface: every route of every controller in the order Nest     *)
(* registers it, with its verb, its path, its guards, the roles it names   *)
(* and the controller method it is declared on.  Bodies, queries, status   *)
(* codes, the API documentation and the rate limit are left out; a path is *)
(* the sequence of its segments below the global prefix.                   *)
(***************************************************************************)
EXTENDS Naturals, Sequences

Roles == {"freelancer", "client", "admin"}

Param == ":"      \* a segment that names a parameter: it matches every value

Route(verb, path, handler) ==
  [verb |-> verb, path |-> path, handler |-> handler,
   public |-> FALSE, guards |-> {}, roles |-> {}]

Get(path, handler) == Route("GET", path, handler)
Post(path, handler) == Route("POST", path, handler)
Put(path, handler) == Route("PUT", path, handler)
Patch(path, handler) == Route("PATCH", path, handler)
Delete(path, handler) == Route("DELETE", path, handler)

Public(route) == [route EXCEPT !.public = TRUE]
For(roles, route) == [route EXCEPT !.roles = roles]
Guarded(guards, route) == [route EXCEPT !.guards = guards]

\* A controller: its prefix, the guards it puts before those of the method, and
\* the roles that hold where the method names none.
Controller(prefix, guards, roles, routes) ==
  [i \in DOMAIN routes |->
    [routes[i] EXCEPT !.path = <<prefix>> \o @,
                      !.guards = guards \union @,
                      !.roles = IF @ = {} THEN roles ELSE @]]

-----------------------------------------------------------------------------
RegistrationRoutes == <<
  Public(Post(<<"register">>, "auth.register")),
  Public(Post(<<"check-email">>, "auth.checkEmail")),
  Public(Post(<<"login">>, "auth.login")),
  Public(Post(<<"verify-email">>, "auth.verifyEmail")),
  Public(Post(<<"send-verification">>, "auth.sendVerification")),
  Public(Post(<<"forgot-password">>, "auth.forgotPassword"))>>

PasswordRoutes == <<
  Public(Post(<<"reset-password">>, "auth.resetPassword")),
  Public(Post(<<"resend-otp">>, "auth.resendOtp")),
  Public(Post(<<"resend-verification">>, "auth.resendVerification")),
  Public(Post(<<"refresh">>, "auth.refreshToken")),
  Guarded({"jwt"}, Post(<<"change-password">>, "auth.changePassword")),
  Guarded({"jwt"}, Get(<<"profile">>, "auth.getProfile"))>>

SessionRoutes == <<
  Guarded({"jwt", "verified"}, Post(<<"logout">>, "auth.logout")),
  Guarded({"jwt", "verified"}, Get(<<"me">>, "auth.getMe")),
  Public(Get(<<"health">>, "auth.health"))>>

OwnAccountRoutes == <<
  Get(<<"me">>, "users.getCurrentUser"),
  Put(<<"me">>, "users.updateCurrentUser"),
  For({"freelancer"}, Guarded({"roles"}, Post(<<"stripe-account">>, "users.createStripeAccount"))),
  For({"freelancer"}, Guarded({"roles"}, Get(<<"stripe-account">>, "users.getStripeAccount"))),
  For({"freelancer"}, Guarded({"roles"}, Get(<<"stripe-account", "status">>, "users.getStripeAccountStatus"))),
  For({"freelancer"}, Guarded({"roles"}, Post(<<"stripe-account", "onboard">>, "users.createAccountLink"))),
  For({"freelancer"}, Guarded({"roles"}, Delete(<<"stripe-account">>, "users.deleteStripeAccount")))>>

DirectoryRoutes == <<
  Get(<<"freelancers">>, "users.searchFreelancers"),
  Get(<<"freelancers", Param>>, "users.getFreelancerPublicProfile"),
  For({"admin", "freelancer", "client"}, Guarded({"roles"}, Get(<<Param>>, "users.getUserById"))),
  For({"admin"}, Guarded({"roles"}, Get(<<>>, "users.getUsers"))),
  For({"admin"}, Guarded({"roles"}, Put(<<Param, "status">>, "users.updateUserStatus")))>>

AvatarAndSkillRoutes == <<
  Post(<<"upload-avatar">>, "users.uploadAvatar"),
  Delete(<<"avatar">>, "users.deleteAvatar"),
  Put(<<"freelancer", "profile">>, "users.updateFreelancerProfile"),
  Post(<<"freelancer", "skills">>, "users.addFreelancerSkills"),
  Delete(<<"freelancer", "skills", Param>>, "users.removeFreelancerSkill")>>

PortfolioRoutes == <<
  Post(<<"freelancer", "portfolio">>, "users.addPortfolioItem"),
  Put(<<"freelancer", "portfolio", Param>>, "users.updatePortfolioItem"),
  Delete(<<"freelancer", "portfolio", Param>>, "users.deletePortfolioItem"),
  Post(<<"freelancer", "education">>, "users.addEducationRecord"),
  Put(<<"freelancer", "education", Param>>, "users.updateEducationRecord")>>

CertificationRoutes == <<
  Delete(<<"freelancer", "education", Param>>, "users.deleteEducationRecord"),
  Post(<<"freelancer", "certification">>, "users.addCertification"),
  Put(<<"freelancer", "certification", Param>>, "users.updateCertification"),
  Delete(<<"freelancer", "certification", Param>>, "users.deleteCertification"),
  Put(<<"client", "profile">>, "users.updateClientProfile")>>

SettingsRoutes == <<
  Get(<<"clients", Param>>, "users.getClientPublicProfile"),
  Guarded({"jwt"}, Get(<<"settings">>, "users.getUserSettings")),
  Guarded({"jwt"}, Put(<<"settings">>, "users.updateUserSettings")),
  Guarded({"jwt"}, Put(<<"deactivate">>, "users.deactivateAccount")),
  Guarded({"jwt"}, Put(<<"reactivate">>, "users.reactivateAccount")),
  Guarded({"jwt"}, Delete(<<>>, "users.deleteAccount"))>>

JobListingRoutes == <<
  Post(<<>>, "jobs.create"),
  Public(Get(<<>>, "jobs.findAll")),
  Get(<<"my-jobs">>, "jobs.getMyJobs"),
  Public(Get(<<"featured">>, "jobs.getFeaturedJobs")),
  Public(Get(<<"recent">>, "jobs.getRecentJobs")),
  Public(Get(<<"categories", Param>>, "jobs.getJobsByCategory"))>>

JobOwnerRoutes == <<
  Get(<<Param>>, "jobs.findOne"),
  Put(<<Param>>, "jobs.update"),
  Delete(<<Param>>, "jobs.remove"),
  Post(<<Param, "close">>, "jobs.closeJob"),
  Post(<<Param, "reopen">>, "jobs.reopenJob")>>

JobReaderRoutes == <<
  Get(<<Param, "stats">>, "jobs.getJobStats"),
  Get(<<Param, "proposals">>, "jobs.getJobProposals"),
  Post(<<Param, "save">>, "jobs.saveJob"),
  Delete(<<Param, "save">>, "jobs.unsaveJob"),
  Get(<<"saved">>, "jobs.getSavedJobs"),
  Post(<<Param, "report">>, "jobs.reportJob")>>

ProposalRoutes == <<
  For({"freelancer"}, Post(<<>>, "proposals.create")),
  Get(<<"job", Param>>, "proposals.findByJobId"),
  Get(<<"my">>, "proposals.findMyProposals"),
  Get(<<Param>>, "proposals.findOne"),
  Put(<<Param>>, "proposals.update"),
  Delete(<<Param>>, "proposals.remove")>>

ProposalAnswerRoutes == <<
  Put(<<Param, "accept">>, "proposals.acceptProposal"),
  Put(<<Param, "reject">>, "proposals.rejectProposal")>>

SkillListingRoutes == <<
  For({"admin"}, Guarded({"jwt", "roles"}, Post(<<>>, "skills.create"))),
  For({"admin"}, Guarded({"jwt", "roles"}, Post(<<"batch">>, "skills.batchCreate"))),
  Public(Get(<<>>, "skills.findAll")),
  Public(Get(<<"popular">>, "skills.findPopular")),
  Public(Get(<<"search">>, "skills.searchSkills")),
  Public(Get(<<"category", Param>>, "skills.findByCategory"))>>

SkillRoutes == <<
  Public(Get(<<Param>>, "skills.findOne")),
  Public(Get(<<"slug", Param>>, "skills.findBySlug")),
  For({"admin"}, Guarded({"jwt", "roles"}, Put(<<Param>>, "skills.update"))),
  For({"admin"}, Guarded({"jwt", "roles"}, Delete(<<Param>>, "skills.remove")))>>

CategoryListingRoutes == <<
  For({"admin"}, Guarded({"jwt", "roles"}, Post(<<>>, "categories.create"))),
  For({"admin"}, Guarded({"jwt", "roles"}, Post(<<"batch">>, "categories.batchCreate"))),
  Public(Get(<<>>, "categories.findAll")),
  Public(Get(<<"main">>, "categories.findMainCategories")),
  Public(Get(<<Param>>, "categories.findOne")),
  Public(Get(<<"slug", Param>>, "categories.findBySlug"))>>

CategoryRoutes == <<
  Public(Get(<<Param, "subcategories">>, "categories.findSubcategories")),
  For({"admin"}, Guarded({"jwt", "roles"}, Put(<<Param>>, "categories.update"))),
  For({"admin"}, Guarded({"jwt", "roles"}, Delete(<<Param>>, "categories.remove")))>>

ContractFormationRoutes == <<
  For({"client"}, Post(<<>>, "contracts.createContract")),
  For({"client"}, Post(<<Param, "pay">>, "contracts.initiateContractPayment")),
  For({"client"}, Post(<<Param, "start">>, "contracts.startContract")),
  For({"freelancer"}, Post(<<Param, "sign">>, "contracts.signContract"))>>

ContractReadingRoutes == <<
  Get(<<>>, "contracts.getContractsForUser"),
  Get(<<Param>>, "contracts.getContractById"),
  For({"client"}, Post(<<Param, "complete">>, "contracts.completeContract")),
  Delete(<<Param, "cancel">>, "contracts.cancelContract")>>

ContractDownloadRoutes == <<
  Get(<<Param, "download">>, "contracts.downloadContract")>>

PaymentRoutes == <<
  For({"client", "freelancer"}, Post(<<>>, "payments.create")),
  For({"client", "freelancer"}, Post(<<"create-intent">>, "payments.createPaymentIntent")),
  For({"admin", "client", "freelancer"}, Get(<<>>, "payments.findAll")),
  For({"admin", "client", "freelancer"}, Get(<<Param>>, "payments.findOne")),
  For({"admin"}, Put(<<Param>>, "payments.update")),
  For({"admin"}, Delete(<<Param>>, "payments.remove")),
  For({"admin"}, Patch(<<Param, "process">>, "payments.processPayment")),
  For({"admin"}, Patch(<<Param, "complete">>, "payments.completePayment")),
  For({"admin"}, Patch(<<Param, "fail">>, "payments.failPayment")),
  For({"admin"}, Patch(<<Param, "refund">>, "payments.refundPayment")),
  For({"admin"}, Patch(<<Param, "retry">>, "payments.retryPayment")),
  For({"admin", "client", "freelancer"}, Get(<<"contract", Param>>, "payments.findByContract")),
  For({"admin", "client", "freelancer"}, Get(<<"contract", Param, "total">>, "payments.getTotalPaidByContract")),
  For({"admin", "client", "freelancer"}, Get(<<"stats", "user", Param, Param>>, "payments.getPaymentStats")),
  For({"admin"}, Get(<<"transactions", "logs">>, "payments.getTransactionLogs")),
  For({"admin"}, Get(<<"transactions", Param>>, "payments.getTransactionLog")),
  For({"admin"}, Get(<<"transactions", "by-transaction-id", Param>>, "payments.getTransactionByTransactionId"))>>

TransactionRoutes == <<
  For({"admin", "client", "freelancer"}, Get(<<"transactions", "user", Param>>, "payments.getUserTransactions")),
  For({"admin", "client", "freelancer"}, Get(<<"transactions", Param, "summary">>, "payments.getUserTransactionSummary")),
  For({"admin", "client", "freelancer"}, Get(<<"transactions", "related", Param, Param>>, "payments.getTransactionsByRelatedEntity")),
  For({"admin", "client", "freelancer"}, Get(<<"transactions", "recent">>, "payments.getRecentTransactions")),
  For({"admin"}, Get(<<"transactions", "date-range">>, "payments.getTransactionsByDateRange")),
  For({"admin"}, Get(<<"transactions", "pending">>, "payments.getPendingTransactions")),
  For({"admin"}, Get(<<"transactions", "failed">>, "payments.getFailedTransactions")),
  For({"admin"}, Get(<<"transactions", "volume-stats">>, "payments.getTransactionVolumeStats")),
  For({"admin"}, Get(<<"transactions", "search">>, "payments.searchTransactions")),
  For({"admin"}, Patch(<<"transactions", Param, "status">>, "payments.updateTransactionStatus")),
  For({"admin"}, Patch(<<"transactions", "by-transaction-id", Param, "status">>, "payments.updateTransactionStatusByTransactionId")),
  For({"admin"}, Patch(<<"transactions", "mark-completed", Param>>, "payments.markTransactionCompleted")),
  For({"admin"}, Patch(<<"transactions", "mark-failed", Param>>, "payments.markTransactionFailed")),
  For({"admin"}, Post(<<"transactions", "bulk-update-status">>, "payments.bulkUpdateTransactionStatus")),
  For({"admin"}, Delete(<<"transactions", Param>>, "payments.deleteTransactionLog"))>>

BalanceAndWebhookRoutes == <<
  For({"admin", "client", "freelancer"}, Get(<<"balance", Param>>, "payments.getUserBalance")),
  Public(Post(<<"webhook">>, "payments.handleStripeWebhook"))>>

MilestoneListingRoutes == <<
  Post(<<>>, "milestones.create"),
  Get(<<>>, "milestones.findAll"),
  Get(<<"overdue">>, "milestones.getOverdueMilestones"),
  Get(<<"contract", Param, "stats">>, "milestones.getContractMilestoneStats"),
  Get(<<"contract", Param, "milestones">>, "milestones.getMilestonesByContract"),
  Get(<<Param>>, "milestones.findById")>>

MilestoneReviewRoutes == <<
  Put(<<Param>>, "milestones.update"),
  Put(<<Param, "submit">>, "milestones.submit"),
  Put(<<Param, "approve">>, "milestones.approve"),
  Put(<<Param, "reject">>, "milestones.reject")>>

MilestoneOrderRoutes == <<
  Put(<<Param, "in-progress">>, "milestones.markInProgress"),
  Put(<<"contract", Param, "reorder">>, "milestones.reorderMilestones"),
  Delete(<<Param>>, "milestones.delete")>>

UploadRoutes == <<
  Post(<<"upload-document">>, "files.uploadDocument"),
  Get(<<"supported-types">>, "files.getSupportedFileTypes"),
  Get(<<>>, "files.listFiles")>>

FileRoutes == <<
  Get(<<Param>>, "files.getFileById"),
  Delete(<<Param>>, "files.deleteFile"),
  Get(<<Param, "download-url">>, "files.getDownloadUrl"),
  Put(<<Param, "metadata">>, "files.updateFileMetadata")>>

DashboardRoutes == <<
  For({"client"}, Get(<<"client">>, "dashboard.getClientDashboard")),
  For({"freelancer"}, Get(<<"freelancer">>, "dashboard.getFreelancerDashboard")),
  For({"client", "freelancer"}, Get(<<"analytics", "charts">>, "dashboard.getChartData")),
  For({"client", "freelancer"}, Get(<<"analytics", "recent-activity">>, "dashboard.getRecentActivity")),
  For({"client", "freelancer"}, Get(<<"analytics", "quick-stats">>, "dashboard.getQuickStats")),
  For({"client", "freelancer"}, Get(<<"analytics", "upcoming-deadlines">>, "dashboard.getUpcomingDeadlines"))>>

NotificationRoutes == <<
  Post(<<>>, "notifications.create"),
  Get(<<>>, "notifications.findAll"),
  Get(<<"unread-count">>, "notifications.getUnreadCount"),
  Get(<<Param>>, "notifications.findOne"),
  Put(<<"mark-read">>, "notifications.markAsRead"),
  Put(<<"mark-all-read">>, "notifications.markAllAsRead"),
  Delete(<<Param>>, "notifications.remove"),
  Get(<<"socket", "connection-info">>, "notifications.getConnectionInfo"),
  Post(<<"socket", "test-connection">>, "notifications.testConnection"),
  Post(<<"socket", "test-notification">>, "notifications.sendTestNotification")>>

ReviewRoutes == <<
  Post(<<>>, "reviews.createReview"),
  Put(<<Param, "respond">>, "reviews.respondToReview"),
  Get(<<Param>>, "reviews.getReviewById"),
  Get(<<>>, "reviews.getReviews")>>

ReviewStatsRoutes == <<
  Get(<<"stats", Param>>, "reviews.getReviewStats"),
  For({"admin"}, Delete(<<Param>>, "reviews.deleteReview"))>>

WithdrawalRoutes == <<
  For({"freelancer"}, Post(<<>>, "withdrawals.create")),
  For({"admin", "freelancer"}, Get(<<>>, "withdrawals.findAll")),
  For({"admin", "freelancer"}, Get(<<Param>>, "withdrawals.findOne")),
  For({"admin"}, Patch(<<Param, "process">>, "withdrawals.processWithdrawal")),
  For({"admin"}, Patch(<<Param, "complete">>, "withdrawals.completeWithdrawal")),
  For({"admin"}, Patch(<<Param, "fail">>, "withdrawals.failWithdrawal")),
  For({"admin"}, Delete(<<Param>>, "withdrawals.remove"))>>

PaymentMethodRoutes == <<
  Post(<<"setup-intent">>, "payment-methods.createSetupIntent"),
  Post(<<>>, "payment-methods.save"),
  Get(<<>>, "payment-methods.findAll"),
  Post(<<Param, "default">>, "payment-methods.setDefault"),
  Delete(<<Param>>, "payment-methods.delete")>>

MessageRoutes == <<
  Post(<<>>, "messages.createMessage"),
  Get(<<"conversations">>, "messages.getConversations"),
  Get(<<"conversations", Param>>, "messages.getConversation"),
  Get(<<"conversations", Param, "messages">>, "messages.getMessages"),
  Patch(<<"conversations", Param, "read">>, "messages.markAsRead"),
  Post(<<"conversations", Param, "messages">>, "messages.sendMessage")>>

AdminPeopleAndMoneyRoutes == <<
  Get(<<"dashboard">>, "admin.getAdminDashboard"),
  Get(<<"statistics">>, "admin.getPlatformStatistics"),
  Get(<<"revenue", "analytics">>, "admin.getRevenueAnalytics"),
  Get(<<"system", "health">>, "admin.getSystemHealth"),
  Get(<<"users">>, "admin.getAllUsers"),
  Get(<<"users", Param>>, "admin.getUserDetails"),
  Patch(<<"users", Param, "suspend">>, "admin.suspendUser"),
  Patch(<<"users", Param, "activate">>, "admin.activateUser"),
  Patch(<<"users", Param, "verify">>, "admin.verifyUser"),
  Delete(<<"users", Param>>, "admin.deleteUser"),
  Get(<<"users", "statistics", "overview">>, "admin.getUserStatistics"),
  Get(<<"payments">>, "admin.getAllPayments"),
  Get(<<"payments", "failed">>, "admin.getFailedPayments"),
  Get(<<"payments", "statistics">>, "admin.getPaymentStatistics"),
  Patch(<<"payments", Param, "refund">>, "admin.refundPayment"),
  Get(<<"withdrawals">>, "admin.getAllWithdrawals"),
  Get(<<"withdrawals", "pending">>, "admin.getPendingWithdrawals"),
  Get(<<"withdrawals", "statistics">>, "admin.getWithdrawalStatistics")>>

AdminWorkRoutes == <<
  Get(<<"jobs">>, "admin.getAllJobs"),
  Patch(<<"jobs", Param, "flag">>, "admin.flagJob"),
  Patch(<<"jobs", Param, "unflag">>, "admin.unflagJob"),
  Delete(<<"jobs", Param>>, "admin.deleteJob"),
  Get(<<"contracts">>, "admin.getAllContracts"),
  Get(<<"contracts", "statistics">>, "admin.getContractStatistics"),
  Patch(<<"contracts", Param, "cancel">>, "admin.cancelContract"),
  Get(<<"proposals">>, "admin.getAllProposals"),
  Get(<<"disputes">>, "admin.getAllDisputes"),
  Get(<<"disputes", "pending">>, "admin.getPendingDisputes"),
  Patch(<<"disputes", Param, "resolve">>, "admin.resolveDispute"),
  Patch(<<"disputes", Param, "escalate">>, "admin.escalateDispute"),
  Get(<<"reviews">>, "admin.getAllReviews"),
  Patch(<<"reviews", Param, "flag">>, "admin.flagReview"),
  Delete(<<"reviews", Param>>, "admin.deleteReview"),
  Get(<<"reports", "users">>, "admin.getUsersReport"),
  Get(<<"reports", "revenue">>, "admin.getRevenueReport")>>

AdminSettingsRoutes == <<
  Get(<<"reports", "transactions">>, "admin.getTransactionsReport"),
  Get(<<"settings", "platform">>, "admin.getPlatformSettings"),
  Put(<<"settings", "platform">>, "admin.updatePlatformSettings"),
  Get(<<"settings", "fees">>, "admin.getFeeSettings"),
  Put(<<"settings", "fees">>, "admin.updateFeeSettings"),
  Get(<<"logs", "activities">>, "admin.getActivityLogs"),
  Get(<<"logs", "errors">>, "admin.getErrorLogs")>>

DisputeRoutes == <<
  Post(<<>>, "disputes.createDispute"),
  Get(<<"my-disputes">>, "disputes.getMyDisputes"),
  Get(<<"statistics">>, "disputes.getMyStatistics"),
  Get(<<Param>>, "disputes.getDisputeById"),
  Post(<<Param, "evidence">>, "disputes.addEvidence"),
  Patch(<<Param, "status">>, "disputes.updateStatus"),
  For({"admin"}, Post(<<Param, "resolve">>, "disputes.resolveDispute"))>>

DisputeEndingRoutes == <<
  Post(<<Param, "escalate">>, "disputes.escalateDispute"),
  Delete(<<Param>>, "disputes.closeDispute"),
  For({"admin"}, Get(<<"admin", "all">>, "disputes.getAllDisputes"))>>

-----------------------------------------------------------------------------
\* The application's own routes, outside every controller prefix.
AppRoutes == <<
  Public(Get(<<>>, "app.getHello")),
  Public(Get(<<"favicon.ico">>, "app.getFavicon"))>>

\* The application: its own routes, then the controllers in the order app.module
\* imports them.
AllRoutes ==
     AppRoutes
  \o Controller("auth", {}, {}, RegistrationRoutes \o PasswordRoutes \o SessionRoutes)
  \o Controller("users", {"jwt"}, {}, OwnAccountRoutes \o DirectoryRoutes \o AvatarAndSkillRoutes \o PortfolioRoutes \o CertificationRoutes \o SettingsRoutes)
  \o Controller("jobs", {"jwt"}, {}, JobListingRoutes \o JobOwnerRoutes \o JobReaderRoutes)
  \o Controller("proposals", {"jwt", "roles"}, {}, ProposalRoutes \o ProposalAnswerRoutes)
  \o Controller("skills", {}, {}, SkillListingRoutes \o SkillRoutes)
  \o Controller("categories", {}, {}, CategoryListingRoutes \o CategoryRoutes)
  \o Controller("contracts", {"jwt", "roles"}, {}, ContractFormationRoutes \o ContractReadingRoutes \o ContractDownloadRoutes)
  \o Controller("payments", {"jwt", "roles"}, {}, PaymentRoutes \o TransactionRoutes \o BalanceAndWebhookRoutes)
  \o Controller("milestones", {"jwt"}, {}, MilestoneListingRoutes \o MilestoneReviewRoutes \o MilestoneOrderRoutes)
  \o Controller("files", {"jwt"}, {}, UploadRoutes \o FileRoutes)
  \o Controller("dashboard", {"jwt", "roles"}, {}, DashboardRoutes)
  \o Controller("notifications", {"jwt"}, {}, NotificationRoutes)
  \o Controller("reviews", {"jwt", "roles"}, {}, ReviewRoutes \o ReviewStatsRoutes)
  \o Controller("withdrawals", {"jwt", "roles"}, {}, WithdrawalRoutes)
  \o Controller("payment-methods", {"jwt"}, {}, PaymentMethodRoutes)
  \o Controller("messages", {"jwt"}, {}, MessageRoutes)
  \o Controller("admin", {"jwt", "roles"}, {"admin"}, AdminPeopleAndMoneyRoutes \o AdminWorkRoutes \o AdminSettingsRoutes)
  \o Controller("disputes", {"jwt", "roles"}, {}, DisputeRoutes \o DisputeEndingRoutes)

Requests == DOMAIN AllRoutes

\* Express compares segment by segment; a parameter takes any value.
Matches(route, verb, path) ==
  /\ route.verb = verb
  /\ Len(route.path) = Len(path)
  /\ \A i \in DOMAIN path : route.path[i] \in {Param, path[i]}

\* The request meant for route i is answered by the first route that matches.
Answering == [i \in Requests |->
  CHOOSE j \in Requests :
    /\ Matches(AllRoutes[j], AllRoutes[i].verb, AllRoutes[i].path)
    /\ \A k \in 1..(j - 1) : ~Matches(AllRoutes[k], AllRoutes[i].verb, AllRoutes[i].path)]

\* JwtAuthGuard lets public routes through without reading the token, so no user
\* is attached to the request; elsewhere it loads the user of the token.
HasUser(route) == "jwt" \in route.guards /\ ~route.public

JwtAuthGuardSignature(route, caller) == route.public \/ caller.token   \* mutant
JwtAuthGuard(route, caller) ==
  route.public \/ (caller.token /\ caller.active)

EmailVerifiedGuard(route, caller) == HasUser(route) /\ caller.verified

RolesGuardSignedIn(route, caller) == route.roles = {} \/ HasUser(route)   \* mutant
RolesGuard(route, caller) ==
  route.roles = {} \/ (HasUser(route) /\ caller.role \in route.roles)

\* A caller gets through when every guard of the route lets it through.
Admits(route, caller) ==
  /\ "jwt" \in route.guards => JwtAuthGuard(route, caller)
  /\ "verified" \in route.guards => EmailVerifiedGuard(route, caller)
  /\ "roles" \in route.guards => RolesGuard(route, caller)

-----------------------------------------------------------------------------
\* What the annotations of a route say: it is public, or for signed-in active
\* accounts, and where roles are named, for those roles.
Meant(route, caller) ==
  /\ route.public \/ (caller.token /\ caller.active)
  /\ route.roles # {} => caller.role \in route.roles

\* A request meant for one route but answered by another, or annotated with
\* roles without the guard that reads them, still serves only callers its own
\* route is meant for.
MeantFor(caller) ==
  \A i \in Requests :
    Admits(AllRoutes[Answering[i]], caller) => Meant(AllRoutes[i], caller)

-----------------------------------------------------------------------------
\* Expected, and false of the code.  The API documentation offers every route;
\* some are declared after a parameter that takes their requests.
EveryRouteAnswers == \A i \in Requests : Answering[i] = i
=============================================================================
