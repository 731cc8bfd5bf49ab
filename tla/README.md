# FreelanceHub backend: verification project

TLA+ models of the NestJS / MongoDB / Stripe backend in `src/src`, model-checked
with TLC and partly proved with TLAPS.  Source paths below are relative to
`src/src`.  These abbreviations name the files that are cited most:

| | | | |
|---|---|---|---|
| PS | `modules/payments/payments.service.ts` | CS | `modules/contracts/contracts.service.ts` |
| RJ | `modules/payments/payment-reconciliation.job.ts` | PR | `modules/proposals/proposals.service.ts` |
| WS | `modules/withdrawals/withdrawals.service.ts` | JB | `modules/jobs/jobs.service.ts` |
| MS | `modules/milestones/milestones.service.ts` | DS | `modules/disputes/disputes.service.ts` |
| AU | `modules/auth/auth.service.ts` | US | `modules/users/users.service.ts` |
| ME | `modules/messages/messages.service.ts` | NG | `modules/notifications/notifications.gateway.ts` |

To check a run: `tlc -config MCWithdrawals_requests.cfg MCWithdrawals`.  To check the
proofs of a module: `tlapm WithdrawalsProofs.tla`.

## 1. The system

The backend is a set of NestJS services over one MongoDB database, with Stripe
as payment provider.  Every HTTP request, Stripe webhook and cron execution runs
concurrently with all others.  A service method gives way at every `await`, so
two requests interleave between any two database or Stripe calls; nothing
serialises requests and several server processes may run.  MongoDB makes the
write of one document atomic, and a `findOneAndUpdate` also tests its filter in
the same step.  Only `completePayment` and `completeContract` open a
transaction, if the deployment supports one.

How money flows, which is what most of this project is about:

```
 job --proposals--> accepted proposal --createContract--> contract PENDING_PAYMENT
                                                              |
      Stripe PaymentIntent --webhook / cron / admin--> completePayment
                                                              |
         contract ACTIVE, totalPaid     freelancer.pendingBalance += amount
                                                              |
      milestone submitted --approve--> pendingBalance -> availableBalance
                                                              |
      withdrawal --reserve--> Stripe transfer, or the money returns
```

### Components

| Component | State | Operations | Interacts with | Correct when |
|---|---|---|---|---|
| Payment settlement (`modules/payments`) | `Payment.status`, `retryCount`, intent id; `ProcessedWebhookEvent` | webhooks; complete, fail, process, refund, retry; the contract payment | Stripe, contracts, users, jobs | a collected payment is settled, once, and credits its freelancer once |
| Payment reconciliation (RJ) | `FailedBalanceUpdate` | daily and six-hourly cron | Stripe, payments, users | a lost webhook or a failed credit is made good, once |
| Milestones and escrow (`modules/milestones`) | `Milestone.status`, `amount`; `releasedAmount`, `completedMilestones`, `milestoneCount`; both balances | create, update, delete, submit, approve, reject, start | contracts, users, jobs | what is released is approved work, once, within what was paid |
| Withdrawals (`modules/withdrawals`) | `Withdrawal.status`, `stripeTransferId`; `availableBalance` | create, process, complete, fail, cancel | Stripe transfers, users | money leaves the balance once, or returns once |
| Contract formation (PR, CS, JB) | `Proposal.status`, `Job.status`, `contractId`, `Contract` | submit, accept, reject, remove; create contract; edit, close, reopen, remove a job | payments, milestones | one contract per job, made from the selected proposal |
| Contract lifecycle (CS) | `Contract.status`, `totalPaid` | pay, start, sign, complete, cancel with refund | payments, milestones, disputes | final statuses stay final; money is released or refunded, not both |
| Disputes and administration (`modules/disputes`, `modules/admin`) | `Dispute.status`, `Contract.status` | open, answer, resolve, escalate, close; cancel, refund, suspend | contracts | a dispute freezes its contract and gives back the status it found |
| Authentication (`modules/auth`) | `OtpVerification`, tokens, `User` flags | register, verify, login, reset, refresh, logout | users, e-mail | a code is tried within its limit and used once, and only its owner gains by it |
| Routes and guards (all controllers, `common/guards`) | none: handlers in the order Express tries them | match a request, authenticate it, check its role | every service | a request meets its own handler, behind the guards its route declares |
| Users (`modules/users`) | `User`: status, profile, `freelancerData`; a cache of profiles | read and edit the profile and its lists, deactivate, reactivate, delete | auth, payments, admin | the cache follows the document; edits lose neither items nor balances |
| Messages (`modules/messages`) | `Conversation` with unread counters, `Message`; sockets per user | open, send, read; connect, disconnect | notifications | the counters count; who is online has a socket |
| Notifications (`modules/notifications`) | `Notification`; one socket per user | create, push, read, remove; connect, replace, fail, disconnect, clean up | all services | a connected user misses no notice |
| Payment methods, Stripe accounts (`modules/payment-methods`, `modules/users`) | default flag, Stripe ids | save, set default, delete; connect account | Stripe | one default, one Stripe customer and account per user |
| Reviews, files, categories, skills, saved jobs, dashboard, transaction log | documents of their own | create, read, update, delete | | mostly independent inserts and queries |

### What is hard about it

* **Check, then write.**  Nearly every operation reads a document, decides, and
  writes with an update that does not repeat the condition.  The few conditional
  updates (the claims of PS:1339 and CS:146, the reservation WS:91, the move
  MS:327) carry the weight, and the invariants show how far they reach.
* **Several documents.**  Payment, contract, user and job change together but
  are written one after the other.
* **Stripe.**  Webhooks are lost, repeated and reordered; a call may fail after
  its effect; a declined intent may be paid later.
* **Crashes and retries.**  A webhook record that stays `processing` for 30
  seconds is taken over; the crons retry; clients retry payments and requests.
* **Loaded documents.**  Users, conversations and codes are loaded, changed in
  memory and saved.  Mongoose writes the changed paths only, and guards an
  array by `__v` for some changes of it and not for others; what is lost when
  two saves overlap depends on which paths they share.
* **Sockets.**  A connection is verified, registered and greeted with awaits in
  between, while it may be replaced, fail or leave.

The 40 hazards listed in `PROJECT.json`, each at its line, are what the
properties below are aimed at.

## 2. Modules

| Module | Models | Proofs |
|---|---|---|
| `Statuses` | the status enumerations of `common/enums` | |
| `FreelancerAccounts` | abstract: what the two balances of a freelancer promise | |
| `PaymentSettlement` | payments, webhooks, completion, both crons | `PaymentSettlementProofs` |
| `MilestoneEscrow` | milestones, release, completion and cancellation of contracts | `MilestoneEscrowProofs` |
| `Withdrawals` | withdrawals | `WithdrawalsProofs` |
| `ContractFormation` | one job from draft to contract | `ContractFormationProofs` |
| `Routes` | every route with its guards, roles and order | |
| `Accounts` | accounts, one-time codes, tokens, the cached profile (EXTENDS `Routes`) | `AccountsProofs` |
| `Services` | what the next five share: request slots and the one error | |
| `Disputes` | disputes and the status of their contracts | `DisputesProofs` |
| `Messaging` | conversations, messages, unread counters | `MarketplaceProofs` |
| `MessagesGateway` | the sockets of the messages gateway | `GatewaysProofs` |
| `Notifications` | notices and the sockets of the notifications gateway | `GatewaysProofs` |
| `FreelancerProfile` | a freelancer's lists beside the balances | `MarketplaceProofs` |
| `MCPaymentSettlement`, `MCMilestoneEscrow`, `MCWithdrawals`, `MCContractFormation`, `MCAccounts` | small instances for TLC | |
| `MCMarketplace` | `ContractFormation` and the five services in one instance | `MarketplaceProofs` |

All detailed modules share one form.  A request is a process; `pc[r]` names
its next database or Stripe round trip and `ctx[r]` what it has read, so that
requests interleave exactly where the code awaits and act on stale reads exactly
where it does.  A name ending in `Start` is the request's arrival with the reads
and checks before its first write; the early returns of the code are the guards.
`Fault`, `Crash`, `Error` and the like are a database error (the code's catch
blocks run) or the death of the process (they do not), at any step, up to
`MaxFaults`.  Variables marked *history* in the declarations exist for the
properties only; no action reads them.

### PaymentSettlement

| Code | Model |
|---|---|
| PS:1117 `handleStripeWebhook` | `Insert` / `Touch` / `GoStale` record the event, `Claim` ... run its handler, `Ack` / `Nack` end it |
| PS:1287, 1338 success handlers | `Claim` (conditional update), then completion, `Revert` on error |
| PS:528 `completePayment` | `Load`, `TakeLock`, `Commit` in a transaction, or `CompleteAlone`, `FundAlone`, `CreditAlone`, `MarkJobAlone`; `Conflict` is one retry; `CompleteError` its catch |
| PS:1397 failure handler | `FailCheck`, `FailLoad`, `FailWrite` |
| RJ:35 `reconcileStuckPayments` | `CronList`, `CronRetrieve` |
| PS:646-681 the effects of a completion | `ContractEffects`, as far as `found` has the contract, the freelancer and the job; `AbortUnpaid` is the log line PS:675 that throws without a freelancer; `LoseCommit` a commit that takes effect and throws |
| RJ:165 `retryFailedBalanceUpdates` | `BalanceList`, `BalanceCredit`, `BalanceSave`, `BalanceError`, `UserNotFound` |
| PS:518, 851, 886 and the controller | `UserStart`, `ProcessWrite`, `RefundWrite`, `RetryWrite`, `RetryIntent`, `RetrySave`, `RetryFail` |
| `PUT /payments/:id` (`payments.controller.ts:59`, PS:452) | `UpdatePayment`: any status, intent and retry count, in one write, with no effects |
| CS:437 `initiateContractPayment` | `CreateIntent`, `SavePayment`, `StaleCancel`, `StaleSave` |
| Stripe (external) | `IntentSucceeds`, `IntentDeclined`; `emitted` may be delivered any number of times, or never |

Amounts are left out: every increment of one payment is by that payment's own
amount, so `credits` counts increments.  An open transaction is a lock on the
payment document (`lock`): MongoDB lets its first writer win and refuses the
others with a write conflict.

A payment refers to its contract, its freelancer and its job by id.  `Vanish`
takes one of them away at any time: the freelancer deletes the account, which
removes the document (US:1361); the job's TTL index removes it (`job.schema.ts:154`);
an admin's PUT points the payment elsewhere, which is also how a contract is lost.
`findByIdAndUpdate` on a missing document changes nothing and reports nothing.  A
missing contract is skipped or logged (PS:647, 689) and the payment completes with
no further effect; a missing job is not noticed; a missing freelancer is noticed only by the
log line after the credit, which reads the populated `payeeId` and throws.  The
history variable `forged` marks a payment whose COMPLETED was written by the PUT.

### MilestoneEscrow

| Code | Model |
|---|---|
| MS:248 `approve` | `MoveStart`, `Write`, `CountDone`, `CheckPending`, `Release`, `Credit`, `Finish`, `Complete`, `CompleteJob`, one per round trip |
| MS:202, 463, 495 `submit`, `reject`, `markInProgress` | `MoveStart`, `Write` |
| MS:27, 169, 613 `create`, `update`, `delete` | `CreateStart`, `Insert`, `CountUp`; `UpdateStart`, `Update`; `DeleteStart`, `Remove`, `CountDown` |
| CS:788 `completeContract` | `CompleteContract`, `SetCompleted` |
| CS:891 `cancelContract` | `CancelStart`, `Refund`, `Cancel` |
| completePayment on the contract and the balance | `Fund` |
| disputes, admins, `startContract` | `SetElsewhere`: sets the statuses in `Elsewheres`, at any time |

All contracts of the model belong to one freelancer, because `pendingBalance` is
one number for all contracts of a freelancer: the money of one contract can pay
for the milestones of another unless a check on the contract prevents it.

### Withdrawals

`create` (WS:31) is `ReadUser`, `FindKey`, `Count`, `Reserve`, `Save`, `Unsave`
(the duplicate key), then for the STRIPE method `AutoTransfer`, `AutoProcess`,
`AutoComplete`, or `AutoRefund`, `AutoFail`.  The admin operations are
`ProcessStart`, `TransferByHand`, `StartProcessing`; `CompleteStart`,
`MarkCompleted`; `FailStart`, `MarkFailed`; and `CancelStart`, `Recheck` for
`DELETE /withdrawals/:id`, which ends in `MarkFailed` too.  A withdrawal is of
one of three kinds: `stripe` (transferred by `create`), `linked` (another method
with a Stripe account, transferred by an admin), `bank` (no account).

### ContractFormation

One job with its proposals.  `acceptProposal` (PR:461) is `AcceptStart`,
`Accept`, `RejectOthers`, `SelectJob`; `createContract` (CS:118) is
`CreateStart`, `Claim`, `CheckProposal`, `Validate`, `Save`, `Milestones`,
`Replace`, with `Cleanup` as its catch.  `RemoveStart` ... `CountDown` remove a
proposal, `RejectStart`, `Reject` reject one, `SubmitStart` ... `CountUp` submit
one.  The job is edited, closed, reopened and removed by its client, removed by
its TTL index (`ExpireJob`), and advanced by payments and milestones
(`AdvanceJob`).  `FlagStored` says whether the schema stores
`_contractCreationInProgress`: it does not.

### Routes and Accounts

`Routes` is one table: for every handler of every controller, the application's
own included, its method, path, guards, roles and whether it is `@Public()`, in the order Nest registers them.
`Matches` is Express's comparison of a path with a pattern, `Answering` the
first route that matches, and `Admits` what the guards of a route ask of a
caller.  `Accounts` lets a request begin only where `Routes` lets its
caller in, so the guards are part of every behaviour.

| Code | Model |
|---|---|
| AU:57 `register`, 92 `login` | `Register`, `Login` |
| AU:465 `sendOtp` and its callers | `StartSending`, `DeleteCodes`, `InsertCode` |
| AU:497 `validateOtp` | `PresentCode` (read), `CountAttempt` (compare and save) |
| AU:173 `verifyEmail`, 232 `resetPassword` | `ApplyCode`, `UseCode` |
| AU:268, 326 `changePassword`, `refreshToken` and `logout` | `ChangePassword`, `RefreshToken` |
| US:66 `getCurrentUser` | `ReadProfile`, `PutProfile`: the cache is filled after a database read |
| US:113-384, 978, 1315-1377 | `SaveThenClear` (save, then delete the entry) or `SaveOnly`, instantiated by each handler |
| `AdminService` | `SuspendUser`, `ActivateUser`, `VerifyUser` |
| TTL index, cache expiry, token expiry | `ExpireCode`, `EvictProfile`, `ExpireToken` |

An account is whether it is verified and active, its profile, and whether its
password was chosen by a signed-in owner or reset by a code; the cached view of
it leaves the password out.  Tokens are not stored anywhere: `session` is what
the client holds, and only expiry takes it away.

### Disputes, Messaging, the gateways, FreelancerProfile

These extend `Services`: a request occupies one of `Slots`, and an error of the
database or the end of the process (`FailDispute`, `FailTask`, `FailEdit`,
`FailConnecting`, `RestartGateway`, `RestartNotifications`) strikes between any
two steps; `MaxErrors` bounds those of disputes, messages and notices.

* `Disputes`: `createDispute` is `CreateDispute`, `InsertDispute`,
  `ContestContract`; `resolveDispute` (DS:251) `ResolveDispute`,
  `WriteResolved`, `RestoreContract`, deciding by the status it loaded;
  `closeDispute` and `escalateDispute` likewise; `SetContract` is the admin,
  `LeaveContract` the two-step `completeContract` and `cancelContract`.
* `Messaging`: `sendMessage` (ME:175) is `SendMessage`, `InsertMessage`,
  `CountMessage`; `createMessage` puts `CreateConversation` before them;
  `markMessagesAsRead` is `MarkMessagesAsRead`, `MarkMessages`, `ClearCounter`.
  `Saved` writes the counters the request changed, as Mongoose does.  The REST
  endpoints take their user from `@CurrentUser('sub')`, which a `User` document
  does not have, so their user is `None`: every such request is refused, and a
  POST creates the conversation all the same.  The gateway's requests have one.
* `MessagesGateway`: a socket connects, is verified, and leaves, also while it is
  verified.  The map from users to sockets lives in the server process.
* `Notifications`: `HandleConnection` replaces the entry of the user and
  disconnects the old socket (NG:104), `CountUnread`, `ListUnread`, `Greet` are
  the awaits after it; notices are stored and then pushed, or only stored.
* `FreelancerProfile`: an edit loads the user and saves.  `SaveAdded` is a push,
  `SaveRemoved` sets the array if `__v` is as loaded, `SaveChanged` sets fields at
  an index if `__v` is as loaded.  `Credit` is a payment's increment.  The
  middleware `UserSchema.pre('save')` (`user.schema.ts:281`) makes the
  `freelancerData` of every new freelancer, so the profile exists from the start:
  the branches for a missing one (US:401, 481, 561, 708, 847) are never taken.

### FreelancerAccounts

The abstract specification: deposits go to `pending`, releases move from
`pending` to `available`, a withdrawal takes no more than is available and may
give back exactly what it took, once.  `MilestoneEscrow` refines it with its
balances (no withdrawals), `Withdrawals` with its own (nothing pending); each has
an `INSTANCE ... WITH` and the abstract `Spec` as a property, `KeepsAccount` and
`KeepAccounts`.

## 3. Runs

| Run | Instance | Shows |
|---|---|---|
| `payment_serial` | 1 webhook process, 6 deliveries, 3 faults, declined attempts, any of the three documents disappearing | one credit per payment, and completed events stay completed, whatever is redelivered or crashes, while webhooks do not overlap |
| `payment_crons` | both crons and a user, 2 intents, 2 faults, 1 PUT by an admin, commits that throw, a freelancer and a job that disappear | a transaction owns its payment; what the code COMPLETED is funded, and credited and contracted where the documents are found; crons complete only what Stripe collected; a completed balance update was paid |
| `payment_live` | webhook and cron, with and without transactions, 1 fault, commits that throw, a contract and a freelancer that disappear | no credit without its own settlement; a collected payment is settled even if every webhook is lost, unless its freelancer is gone |
| `payment_idempotency` (violation) | 2 webhook processes | see findings |
| `withdrawal_requests` | 2 withdrawals of one freelancer, an admin, one key, all three kinds, 1 fault | types; PROCESSING means transferred; no lost reservation and one withdrawal per key without faults; refinement of the accounts; every STRIPE withdrawal whose request is not cut off ends |
| `withdrawal_failed` (violation) | 1 request and an admin | see findings |
| `escrow_serial` | 2 contracts, 3 milestones, one request at a time | nothing released twice or beyond the contract's total; counters count; completion finds all approved |
| `escrow_concurrent` | 2 requests, 1 contract, 2 milestones, 1 fault | what is available is counted on the contract; refinement of the account |
| `escrow_cancelled` (violation) | 1 request | see findings |
| `formation_locked` (violation) | 1 request | see findings |
| `accounts_requests` | 2 accounts (a freelancer, an admin), 1 code of 3 attempts, 2 requests, failures and restarts anywhere | codes keep their limits; only the owner or an admin verifies, only the owner resets; when the cache may differ; inactive accounts stay out; requests meet their route |
| `marketplace_requests` | 2 requests in each of six components, 1 error | formation: one creator at a time, a contracted job stays claimed, the contract is the selected proposal's; disputes: a DISPUTED contract can leave that status; messages: counters count; gateways: sockets and entries agree, no notice is missed; profile: edits keep the items |

`marketplace_requests` follows one component in each behaviour (`followed`).  The
six share no document, and no step of one reads a variable of another, so a
behaviour of all of them is six behaviours interleaved, and each property speaks
of one component only.  Multiplying their states would add no case.

### Bounds, and why they are enough

* Two concurrent requests: every race of this code is between a read and a write
  of one request and a write of another.  Three of one kind only repeat it.  The
  theorems below hold for any number.
* `MaxFaults`, `MaxDeliveries`, `MaxIntents`, `MaxApprovals`, `MaxTransfers`,
  `MaxRemovals` bound otherwise unbounded counters, in guards.  They are set so
  that the interesting sequel fits: a delivery, its crash, a redelivery that
  finds the stale record, and one more; a retry to a second intent after the
  first; an approval after a resubmission.
* Amounts: `escrow_concurrent` gives each of two milestones the contract's whole
  total; in `escrow_serial` the milestones of one contract add up to twice its
  total while the freelancer's other contract could pay for them.  In
  `withdrawal_requests` two withdrawals of 2 do not fit the balance of 3, and a
  1 and a 2 do.
* `MaxUpdates` is one PUT: it writes any status at any time, so one is enough to
  forge a completion, to take one away, or to hide the payment from a query.
* `Vanishing` names the documents that may disappear in a run.  All three do in
  `payment_serial`.  `payment_crons` keeps the contract, since without it every
  property there asks less of a completion; `payment_live` keeps the job, which
  decides nothing about settlement.  The theorems hold for any of them.
* `RetryLimit`, `ConflictRetries`, `BalanceRetries`, `OpenLimit` are the code's
  constants 3, 3, 5 and 3; smaller in some runs where only reaching the limit
  matters.
* `accounts_requests`: a freelancer beside an admin is every combination the
  handlers tell apart, since they act on the caller, or on one other account if
  the caller is an admin.  Three attempts (the code's limit) leave room for a
  wrong guess, two that overlap, and a right one.  One code is live at a time;
  the codes of another purpose are other behaviours of the same one.  `OneSubject`
  keeps the requests that present codes apart from those that edit the profile,
  which share the account's flags only, and lets deletion, a new password and an
  admin's verification overlap with both.
* `marketplace_requests`: two conversations of one topic (both created by
  overlapping first messages), two messages, three sockets (an old one, its
  replacement, and one more that connects meanwhile), two notices (one stored
  before and one after a socket reads them), two items, two changes, one credit,
  two disputes of one contract.
* Symmetry is used for requests, webhooks and the milestones of one contract,
  and only in runs without liveness properties.
* Most runs set `CHECK_DEADLOCK FALSE`: with all requests answered and the
  bounds used up the system may stop.

### Fairness

`payment_live`: a request that runs takes its next step, and the daily cron gets
to every payment that stays stuck (weak fairness of `CronList` per payment): the
cron runs every day and lists all of them.  Nothing is assumed of Stripe or of
webhooks.  The property is checked without declined attempts, because it is
false with them (below).  `withdrawal_requests`: a create request that has begun
takes its next step (`WF` of `CreateStep`).

## 4. Findings

Each is shown by a violation run.

1. **A payment credited twice** (`payment_idempotency`, `AtMostOnceCredit`,
   PS:1331, 1386).  The success handlers revert the status they read before
   their claim unconditionally when `completePayment` throws.  If the throw is
   the third write conflict with another handler that commits, the revert
   replaces its COMPLETED, and the redelivered event credits again.
2. **A failed withdrawal is not refunded** (`withdrawal_failed`,
   `FailedIsRefunded`, WS:541).  `failWithdrawal` addresses the refund to the
   object `findById` built for the response; the cast fails and is swallowed.
3. **Refunded and released** (`escrow_cancelled`, `RefundedIsNotReleased`,
   CS:1006).  Cancelling refunds what is not released and leaves milestones and
   balances; a submitted milestone can then be approved.
4. **A job locked by a failed createContract** (`formation_locked`,
   `ReferenceExists`, CS:405).  The cleanup tests a field the job's schema does
   not store, so the placeholder stays.

More is expected and false of the code, and has no run.  The names in the table are
properties: those the modules state under the heading "Expected, and false of the
code", and those of the runs under the conditions the row gives.

| Property | Where it fails |
|---|---|
| `UpdateOnlyAfterCompletion` | PS:728 records a failed balance update for a payment whose transaction was rolled back, so the cron pays for a payment that is not completed; with it, or when the cron's save is lost (RJ:186-212), `AtMostOnceCredit` fails as well |
| `CollectedIsSettled` with declined attempts | RJ:44 looks for PENDING and PROCESSING only; after a declined attempt the payment is FAILED |
| `CompletedEventIsFinal` with two webhooks | PS:1169 sets the record to processing without looking at its status |
| `PaidOnce`, `TransferOnlyWithoutId`, `RefundedIsUntransferred` | WS:414-419, WS:266: admin and automatic transfer of one withdrawal overlap, or the fee check WS:441 fails after the transfer |
| `FinalIsFinal` | the automatic transfer overwrites FAILED with PROCESSING |
| `OpenWithinLimit` | WS:56 counts before the insert |
| `ReportedIsRefunded` | WS:302: the response says refunded although the refund failed |
| `ApprovedIsReleased` | MS:263 approves before MS:295 and 301 check the money |
| `AtMostOnceCredit` for one webhook without transactions | PS:1386, PS:1331: an error between the credit and the job's status makes the handler revert the payment it has completed and credited, and the redelivered event completes it again |
| `AtMostOnceCredit` for one webhook beside a user or a cron | PS:518: `processPayment`, having read the payment as pending, overwrites COMPLETED after the webhook's commit, and the next completion credits again; the cron as in the first row |
| `CompletedIsFunded` without its conditions | `payments.controller.ts:59`: an admin's PUT writes COMPLETED and nothing else. PS:647, 689: a payment whose contract is not found is COMPLETED all the same, and nobody is credited. PS:680: nobody notices that the job is gone |
| `CollectedIsSettled` for a payment whose freelancer is gone | PS:675 reads the id of the populated `payeeId`, which is null: every completion throws, and the payment stays collected and unsettled |
| `AtMostOnceCredit` when a commit takes effect and still throws | PS:722: `abortTransaction` refuses the committed transaction, the success handler writes the old status over COMPLETED (PS:1331, 1386), and the redelivered event credits again |
| `ReleasedOnce`, `ReleasedWithinTotal`, `CompletedIsApproved` with two requests | MS:259/263, MS:295, MS:413/285: check, then write |
| `CountersMatch`, `CompletedIsApproved` for one request that may break off | MS:59, 75: `create` inserts the milestone and then counts it; cut off in between, the approval of the others (MS:402) completes the contract without it |
| `DeletedIsNotContracted` with two requests | PR:425-437 and CS:120-131 each check, then write |
| `AwaitingIsAccepted` | PR:584 rejects the accepted proposal and leaves the job AWAITING_CONTRACT |
| `OneConversation` | ME:72: find, then insert, and the unique indexes of `conversation.schema.ts:62-70` repeat the keys of plain indexes declared before them (48, 56), which MongoDB refuses |
| `OneDispute` | DS:58: two `createDispute` requests both find none |
| `FinishedStays` | DS:339: closing a dispute sets its contract ACTIVE whatever it was |
| `OnlyOpenCounts` | `messages.gateway.ts:61`: a socket that leaves while it is verified stays in the map |
| `EverythingShown` | payments, contracts and milestones store notices without pushing them |
| `EveryRouteAnswers` | 8 routes are declared after a parameter that takes their requests, as `GET /users/settings` (`users.controller.ts:792`) after `GET /users/:id` (266) |

## 5. Proofs

The eight modules `...Proofs` are checked by TLAPS to the last leaf, for every
value of the constants that meets the named assumptions of the modules, so for
any number of payments, contracts, accounts, sockets, messages, requests,
deliveries, faults and crashes.

| Theorem | Says | Further assumption |
|---|---|---|
| `TypeCorrect` (five modules) | `[]TypeOK` | |
| `TransactionsOwnPayments` | `[]OpenTransactionOwnsPayment` | |
| `CompletedPaymentsAreFunded` | `[]CompletedIsFunded` | `TxModes = {TRUE}` |
| `NoCreditWithoutSettlement` | `[]CreditsFollowSettlements` | |
| `OnlyCollectedComplete`, `CompletedUpdatesArePaid` | `[]OnlyCollectedIsCompleted`, `[]CompletedUpdateIsPaid` | |
| `SerialCreditsOnce` | `[]AtMostOnceCredit` | `TxModes = {TRUE}`, `LostCommits = FALSE`, `OneWebhook`, no crons, no users |
| `CompletedEventsAreFinal` | `CompletedEventIsFinal` | `OneWebhook` |
| `EscrowOnlyMoves` | `[]NeverMoreThanCredited` | |
| `ImplementsAccount` | `MilestoneEscrow` refines `FreelancerAccounts` | |
| `OneRequestReleasesWithinTotal` | `[]ReleasedWithinTotal` | `Requests = {r}` |
| `OneRequestPaysOnce` | `[]ReleasedOnce` | `Requests = {r}` |
| `OneRequestCounts`, `OneRequestCompletesApproved` | `[]CountersMatch`, `[]CompletedIsApproved` | `Requests = {r}`, `MaxFaults = 0` |
| `AvailableAmountsAreCounted` | `[]AvailableIsCounted` | `Contracts` and `Requests` finite |
| `NoOverdraft` | `[]NeverOverdrawn` | |
| `ProcessedAreTransferred` | `[]ProcessedIsTransferred` | |
| `ReservationsAccounted`, `KeysWithdrawOnce` | `[]ReservationAccounted`, `[]KeyWithdrawsOnce` (both until a fault) | |
| `ImplementsAccounts` | `Withdrawals` refines `FreelancerAccounts` | |
| `OneCreatorAtATime`, `ContractedJobsStayClaimed` | `[]OneCreator`, `[]ContractedJobIsClaimed` | |
| `DeletedNeverContracted`, `ContractsAreForSelected` | `[]DeletedIsNotContracted`, `ContractIsForSelected` | |
| `OnlyTheOwnerActs` | `[]OnlyTheOwner` | |
| `CodesAreLimited` | `[]CodesHold` | |
| `CacheStaysFair` | `[]CacheAgrees` | |
| `InactiveStayOut` | `OutUntilReadmitted` | |
| `RequestsReachTheirRoute` | `[]RequestsMeetTheirRoute` | |
| `DisputesTypeCorrect`, `DisputedStaysContested` | `[]DisputesTypeOK`, `[]DisputedIsContested` | |
| `MessagingTypeCorrect`, `CountersStayTrue` | `[]MessagingTypeOK`, `[]CountersHold` | |
| `ProfileTypeCorrect`, `ItemsAreAccounted` | `[]ProfileTypeOK`, `[]ItemsAccounted` | |
| `GatewayTypeCorrect`, `OnlineUsersAreConnected` | `[]GatewayTypeOK`, `[]OnlineIsConnected` | |
| `NotificationsTypeCorrect` | `[]NotificationsTypeOK` | |
| `EntriesStayConnected`, `NoNoticeIsMissed` | `[]EntriesAreConnected`, `[]NothingMissed` | |
| `MarketplaceComposes` | `MCMarketplace` implements `ContractFormation` and the five services | |
| `ServicesKeepTypes`, `MarketplaceKeepsComponents` | `[]ServicesTypeOK` and the invariants of all six, of the composition | |

The named assumptions say that bounds are natural numbers, that `None`,
`Nothing` and the like are not members of the sets beside them, that the
functions given as constants have their domains, that `Messages` is finite
(counting needs it, and a database has finitely many documents), and that the two
users the instance `MCMarketplace` names are among `Users`.

The further assumptions belong to the statements.  `OneWebhook` says that no two
webhook requests overlap; without it, without `Requests = {r}`, without
`MaxFaults = 0`, or with users or crons beside the webhook, TLC refutes the
property, by the steps that section 4 names.  `TxModes = {TRUE}` says that the
deployment has transactions; without them PS:528 writes the payment, the contract
and the balance one after the other, so a payment is COMPLETED before it is
funded, and one webhook alone can credit twice.  `LostCommits = FALSE` says that a
commit that throws did not take effect.  Ownership and `CreditsFollowSettlements`
need neither.  Finiteness makes the two sums
defined.

The inductive invariants, and why the properties need them:

* `SettlementInv` takes ownership, funding and crediting together: a commit
  credits once because the payment was unsettled while locked, and it was
  unsettled because nobody else can write under the lock.  Funding is claimed of
  the documents a payment still finds: `found` only shrinks, so they were found
  when it completed.  `RequestsOK` says
  which path a request is on, with or without a transaction, and that it reverts
  only to unsettled statuses.  Without a transaction a settlement and its credit
  are two steps, in any number of requests at once; `CreditsOwed` counts: no more
  requests stand between the two (`Paying`) than settlements are not yet credited
  (`Uncredited`).  A settlement adds one to each, a credit takes one from each, a
  commit does both at once, and an error or crash can only shrink the first.
* `BalanceInv` (`pending + available = credited`): `NeverMoreThanCredited` is not
  inductive, since a release adds to `available`; the sum is what every step
  keeps.  `ImplementsAccount` then only needs that `Credit` takes from `pending`
  no more than is there, which its conditional update says.
* `CollectedInv`: an event of a success tells the truth (`EventsTrue`), and a
  success is for good, so a request that was led to completion by an event or by
  what a cron retrieved still has a collected payment when it writes (`AllBear`).
* `SerialInv` adds to `SettlementInv` that nothing settled is ever overwritten: a
  lone webhook that will write an unsettled status finds the payment unsettled.
  `RecordInv`: past its admission it works on an event that is not completed.
* For one request at a time, `ReleaseInv` and `PayInv` carry what the request has
  read to where it uses it: the released amount read at `CountDone` is still the
  contract's at `Release`; a milestone that was paid is APPROVED for good.
* `CountInv`: the counters count the milestones except for what the running
  request still owes them, which its `pc` tells; at `complete` nothing is owed and
  the two counters were equal, so the approved milestones, a subset of the
  existing ones of the same cardinality, are all of them.
* `FlowInv`: what is available and what approvals have counted and not yet
  credited (`InFlight`) is within the sum of the released amounts, for any number
  of approvals at once, since `Release` counts before `Credit` adds.  The sums are
  the folds of the community modules over any finite set; what the proof needs of
  them (`SumTyped`, `SumOfZeros`, `SumUpdated`) is by induction on finite sets, for
  which a smallest counterexample (`WFMin`) takes the place of the library's rules,
  whose operator parameters the provers cannot instantiate.
* `TransferInv` follows a request from the step that recorded the transfer id, or
  from the status it read, to the step that relies on it; no step clears the id.
* `AccountInv` ties `pc` to what a create request has reserved, saved and given
  back; it needs `KeysUnique`, what the unique index gives.  `HeldInv`, its part
  that survives crashes, is enough for the refinement.
* `ClaimInv` adds `FreshClaim` to the two properties: a request that has claimed
  the job and not saved yet finds no contract; one that has saved its contract
  knows it.
* `DeletionInv`: unless requests overlapped, at most one runs (`Alone`) and what it
  checked of its proposal still holds (`AllExpect`), a deleted proposal stays
  pending and a contracted one was decided.  `SelectionInv`: with no fault
  either, the accepted proposal is the selected one, and every request past the
  decision is about it.
* `OwnerInv`: a request that applies a code has seen the right one for the
  address and purpose it acts on (`Justified`), and `proved` never shrinks; a
  token is only ever given to a verified account, and no step takes
  verification back.
* `CodesInv`: the undisturbed holder of a code is alone with it (`Orderly`) and
  knows the stored number of attempts, so what it writes counts its guess; a
  code that was applied is held for marking or marked.  Without `Orderly` the
  count is one of several stale ones.
* `CacheInv`: `CacheAgrees` says nothing of a request that has loaded the profile
  and not yet stored it; `FillsAgree` says of every such view that it is the
  stored one or its account is excused, and `Unread` that an account not yet
  registered has no entry and no such view.
* `EntitledInv`: a running handler of one's own account acts for its caller, and
  the caller of `admin.activateUser` is an admin.  That an inactive caller enters
  no handler, and that only an admin's step makes an account active, is read off
  the tables of `Routes`: each route is proved `Sound` behind the guards of its
  controller (a handler of accounts stands behind `jwt`, the admin's behind its
  role), and `TablesJoin` and `SafeJoin` put the 18 controllers and the two
  routes of the application together.
* `RequestsMeetTheirRoute` needs only the types of the callers and those tables.
  Comparing each route with every other is no proof a reader
  can follow, so every controller gets a rule (`UsersRule`, `PaymentsRule`, ...)
  that tells from the verb and the path of a route whether it is public and which
  roles it names.  `Sound` includes the rule and that routes naming roles stand
  behind the guard that reads them.  Two routes one of which takes the requests of
  the other then belong to one controller and follow one rule, which makes the
  taker at least as strict (`RoutesAgree`, `Stricter`) with a single exception:
  `GET users/:id` fits `GET users/stripe-account`, which only freelancers may
  call, and admits every role.  That the controller declares the latter first is
  `Ordered`; `AnswersAreSafe` says that the first matching route answers.
* `DisputesInv`: what a request holds of a dispute and its contract is true of
  the documents (`Grounded`), and the contract a request is about to write
  DISPUTED is contested already or given up (`RisingIsContested`).
* `CountersInv`: a request that was alone on a counter throughout has seen the
  stored value, so its save adds one message or clears all; between its message
  and its save the counter is one behind, and one that is about to clear has
  left no unread message.
* `AccountedInv`: the stored list holds exactly the items added and not removed,
  each with a text of its own, and an edit whose `__v` is still the stored one has
  loaded the stored places (`LoadedHolds`), so that its index means what it meant.
* `EntriesInv` relates entries, sockets and users both ways, as `CloseSocket`
  deletes by user.  `NoneMissing` takes a greeting socket, which is listed
  already, together with an open one: that is where a notice stored between list
  and greeting is accounted for.

Model-checked only, of the properties that passing runs check:

* `AutoSettles` and `CollectedIsSettled`: liveness, which rests on fairness and
  ENABLED, out of the prover's reach.

The two refinements of `FreelancerAccounts` are both checked and proved.  That
`MCMarketplace` implements its six components is proved step by step
(`EveryStepMaps`): a step of the composition is a step of the component its
behaviour follows and leaves the documents of the others alone; only the count of
errors is shared, so a service that counts in it is implemented by the behaviours
that follow it.  What is proved of a component alone therefore holds beside the
others (`MarketplaceKeepsComponents`), where the run `marketplace_requests` has
checked it on one instance.

## 6. Not modelled

* Payment methods, reviews, files, categories, skills, saved jobs and reports of
  jobs: documents of their own, mostly inserted after a check that the same two
  requests can pass together, which is the hazard `OneDispute` and
  `OneConversation` show where it matters more.
* The dispute's evidence, the rooms of Socket.IO and typing signals, settings and
  the flags an admin puts on jobs and reviews: nothing else reads them.
* The Stripe account of a freelancer and its links: calls to Stripe whose answer
  is stored.  `Withdrawals` takes as given whether an account is linked.
* Stripe, e-mail, PDF and blob storage adapters: I/O.  Stripe is an environment
  of the payment and withdrawal models.
* Queries, lists, statistics, the dashboard, search, caches of queries: they
  change no state that anything else reads.
* The transaction log: an append-only list whose errors are swallowed.
* Payment webhooks other than success and failure (PS:1415-1573), payment
  intents that belong to no contract, the order field of milestones, editing a
  proposal.
* The soft deletion of a payment (`DELETE /payments/:id`, PS:953), which hides it from
  every later lookup: what is said of payments is said of those not deleted.  Of
  the fields `PUT /payments/:id` takes, the amount: every increment is taken to be
  the payment's.  The references it may change are covered by `Vanish`, as long
  as they are not set back.
* Migration and repair scripts: run by hand on a database at rest.

Some hazards of the modelled code have no property, since what a reader might
expect is false of it or a matter of amounts: the limit of open withdrawals
(WS:56), the remaining balance that an approval takes from the contract it read
before (MS:295-299), the counters that decide whether a contract is completed
(MS:402) and the reopening of a job (JB:427), whose checks precede their writes;
a failed credit recorded net of the fee while the credit itself is gross
(PS:732); a webhook record taken over after 30 seconds, or inserted by two
deliveries (PS:1161, PS:1195); a contract saved before its milestones (CS:274).
The models take these steps as the code does; the known-false properties of
section 4 say what follows.

## 7. What is next

1. `PaymentMethods` and the connected account: one default method, one Stripe
   customer and one account per user, under overlapping requests.
2. The remaining payment webhooks: transfers, payouts, refunds.
3. One composition of `PaymentSettlement`, `MilestoneEscrow` and
   `FreelancerProfile` on one balance, as a refinement of `FreelancerAccounts`.
