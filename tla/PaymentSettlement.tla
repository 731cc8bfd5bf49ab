-------------------------- MODULE PaymentSettlement --------------------------
(***************************************************************************)
(* How an upfront contract payment becomes escrow money.                   *)
(*                                                                         *)
(* Stripe decides whether a PaymentIntent is paid and tells the backend    *)
(* with webhook events that are delivered at least once and in any order.  *)
(* Webhook requests, the daily reconciliation cron and admin requests all  *)
(* end in PaymentService.completePayment, which marks the Payment          *)
(* document COMPLETED, funds and activates the contract, credits the       *)
(* freelancer's pendingBalance and marks the job CONTRACTED, inside a      *)
(* MongoDB transaction when one can be started.                            *)
(*                                                                         *)
(* Every request is a process; each of its steps is one database or Stripe *)
(* round trip, so that requests interleave exactly where the code awaits.  *)
(* pendingBalance is kept per payment: "credits" counts the $inc of        *)
(* completePayment, "compensated" that of the failed-balance-update cron.  *)
(* Every amount is the payment's own, so one unit stands for it.           *)
(* The payment refers to its contract, its freelancer and its job; each of *)
(* those documents may disappear, or the reference to it be changed, at    *)
(* any time: "found" is what the references still find.                    *)
(***************************************************************************)
EXTENDS Integers, FiniteSets, Statuses

CONSTANTS
    Payments,         \* Payment documents (each pays its own contract)
    Webhooks,         \* concurrent webhook requests
    Crons,            \* concurrent cron executions
    Users,            \* concurrent admin and client requests
    MaxIntents,       \* bound: PaymentIntents a payment goes through
    MaxFaults,        \* bound: database errors and crashes in a behaviour
    MaxDeliveries,    \* bound: webhook deliveries in a behaviour
    MaxUpdates,       \* bound: payments an admin edits in a behaviour
    RetryLimit,       \* retryPayment's limit on retryCount (3 in the code)
    ConflictRetries,  \* completePayment's maxRetries (3 in the code)
    BalanceRetries,   \* the balance cron's retry limit (5 in the code)
    TxModes,          \* can startSession succeed (TRUE) or fail (FALSE)
    Declines,         \* TRUE when an attempt may be declined
    BalanceErrors,    \* TRUE when an error message may name the balance
    LostCommits,      \* TRUE when a commit may take effect and still throw
    Vanishing         \* the documents a payment may cease to find

Requests == Webhooks \cup Crons \cup Users
NoRequest == "no request"
Documents == {"contract", "freelancer", "job"}

ASSUME BoundsAssumption ==
    /\ MaxIntents \in Nat \ {0}
    /\ MaxFaults \in Nat
    /\ MaxDeliveries \in Nat
    /\ MaxUpdates \in Nat
    /\ RetryLimit \in Nat
    /\ ConflictRetries \in Nat \ {0}
    /\ BalanceRetries \in Nat \ {0}

ASSUME SwitchAssumption ==
    /\ TxModes \subseteq BOOLEAN
    /\ Declines \in BOOLEAN
    /\ BalanceErrors \in BOOLEAN
    /\ LostCommits \in BOOLEAN
    /\ Vanishing \subseteq Documents

ASSUME PaymentsAssumption == Payments # {}

ASSUME RequestAssumption ==
    /\ Webhooks \cap Crons = {}
    /\ Webhooks \cap Users = {}
    /\ Crons \cap Users = {}
    /\ NoRequest \notin Requests

VARIABLES
    status,       \* Payment.status, "none" until the document is saved
    intent,       \* which PaymentIntent the document points to
    retryCount,   \* Payment.retryCount
    funded,       \* the contract has totalPaid = payment.amount and is ACTIVE
    contracted,   \* the job is CONTRACTED
    credits,      \* pendingBalance increments by completePayment
    compensated,  \* pendingBalance increments by the balance cron
    fbu,          \* FailedBalanceUpdate document of the payment
    fbuTries,     \* its retryCount
    lock,         \* request whose open transaction wrote the payment
    stripe,       \* Stripe's status of every PaymentIntent
    emitted,      \* events Stripe has created
    deliveries,   \* webhook deliveries so far
    record,       \* ProcessedWebhookEvent.status of every event
    pc,           \* what each request does next
    ctx,          \* each request's local variables
    faults,       \* database errors and crashes so far
    overwritten,  \* history: times a write took a settled status away
    forged,       \* history: the present COMPLETED was written by an admin
    updates,      \* edits by admins so far
    found         \* the documents each payment's references find

payVars    == <<status, intent, retryCount, overwritten, forged, updates, found>>
effectVars == <<funded, contracted, credits>>
fbuVars    == <<compensated, fbu, fbuTries>>
stripeVars == <<stripe, emitted, deliveries>>
dbVars     == <<payVars, effectVars, fbuVars, lock, record>>
vars       == <<dbVars, stripeVars, pc, ctx, faults>>

-----------------------------------------------------------------------------
(* Data *)

Attempts == 0 .. (MaxIntents - 1)
IntentStatus ==
    {"none", "processing", "requires_payment_method", "succeeded", "canceled"}
SuccessTypes == {"charge.succeeded", "payment_intent.succeeded"}
EventTypes == SuccessTypes \cup {"payment_intent.payment_failed"}
Events == [type : EventTypes, payment : Payments, attempt : Attempts]
RecordStatus == {"none", "processing", "stale", "completed", "failed"}
FbuStatus == {"none", "pending", "completed", "failed"}

\* The filter of both claims, of completePayment's optimistic lock and of the
\* reconciliation query.
Unsettled == {"pending", "processing"}
Settled == {"completed", "refunded"}

NoEvent == [type |-> "none"]

\* A request's locals: the event it handles, its payment, the intent it read,
\* the status it read before its claim, the retry count it read, how many
\* write conflicts it met, whether it runs in a transaction and whether it
\* found the payee.
Locals == [event : Events \cup {NoEvent}, pay : Payments, intent : Attempts,
           orig : PaymentStatus, count : Nat,
           conflicts : Nat, tx : BOOLEAN, payee : BOOLEAN]

LocalsFor(e, p, n) ==
    [event |-> e, pay |-> p, intent |-> n, orig |-> "pending", count |-> 0,
     conflicts |-> 0, tx |-> FALSE, payee |-> FALSE]

NoLocals == LocalsFor(NoEvent, CHOOSE p \in Payments : TRUE, 0)

PCs == {"idle", "insert", "touch", "claim", "load", "begin", "commit", "fund",
        "credit", "markjob", "revert", "ack", "nack", "failcheck", "failload",
        "failwrite", "retrieve", "procwrite", "refundwrite", "retrywrite",
        "retryintent", "retrysave", "retryfail", "stalecancel", "stalesave",
        "fbucredit", "fbusave"}

\* The steps of completePayment.
Completing == {"load", "begin", "commit", "fund", "credit", "markjob"}

-----------------------------------------------------------------------------
(* Writing a payment document *)

\* A write outside any transaction waits for the transaction that holds the
\* document.
Unlocked(p) == lock[p] = NoRequest

\* A settled payment that leaves the settled statuses is remembered in the
\* history variable.
StampStatus(p, s) ==
    /\ Unlocked(p)
    /\ status' = [status EXCEPT ![p] = s]
    /\ overwritten' =
         [overwritten EXCEPT ![p] =
            IF status[p] \in Settled /\ s \notin Settled THEN @ + 1 ELSE @]

\* A write by the program itself, and not by the hand of an admin.
WriteStatus(p, s) ==
    /\ StampStatus(p, s)
    /\ forged' = [forged EXCEPT ![p] = FALSE]

\* Do the references of the payment still find the documents docs?
Finds(p, docs) == docs \subseteq found[p]

\* A request goes on with new locals; one that ends forgets them.
GotoWith(r, label, locals) ==
    /\ pc' = [pc EXCEPT ![r] = label]
    /\ ctx' = [ctx EXCEPT ![r] = IF label = "idle" THEN NoLocals ELSE locals]

Goto(r, label) == GotoWith(r, label, ctx[r])

Start(r, label, p, count) ==
    /\ pc[r] = "idle"
    /\ GotoWith(r, label, [LocalsFor(NoEvent, p, intent[p]) EXCEPT !.count = count])

\* Where completePayment and failPayment return to, and where they throw to.
AfterCall(r)  == IF r \in Webhooks THEN "ack" ELSE "idle"
AfterThrow(r) == IF r \in Webhooks THEN "revert" ELSE "idle"
AfterFail(r)  == IF r \in Webhooks THEN "nack" ELSE "idle"

NoFault == UNCHANGED faults
Fault == faults < MaxFaults /\ faults' = faults + 1

\* The frames of most steps: nothing stored changes, or only the payment's
\* own document does.
ReadOnly == UNCHANGED <<dbVars, stripeVars>> /\ NoFault
OnlyPayment ==
    /\ UNCHANGED <<effectVars, fbuVars, lock, record, stripeVars>>
    /\ UNCHANGED <<updates, found>>
    /\ NoFault

-----------------------------------------------------------------------------
(* Stripe and the client *)

\* A PaymentIntent is created and confirmed before the Payment document exists.
CreateIntent(p) ==
    /\ stripe[p][0] = "none"
    /\ stripe' = [stripe EXCEPT ![p][0] = "processing"]
    /\ UNCHANGED <<dbVars, emitted, deliveries, pc, ctx, faults>>

\* initiateContractPayment / createPaymentIntent saves the Payment document.
SavePayment(p) ==
    /\ stripe[p][0] # "none"
    /\ status[p] = "none"
    /\ WriteStatus(p, "pending")
    /\ UNCHANGED <<intent, retryCount, pc, ctx>>
    /\ OnlyPayment

\* The charge goes through: Stripe creates two events for one success.
IntentSucceeds(p, n) ==
    /\ stripe[p][n] \in {"processing", "requires_payment_method"}
    /\ stripe' = [stripe EXCEPT ![p][n] = "succeeded"]
    /\ emitted' = emitted \cup
         [type : SuccessTypes, payment : {p}, attempt : {n}]
    /\ UNCHANGED <<dbVars, deliveries, pc, ctx, faults>>

\* The charge is declined; the client may try again on the same intent.
IntentDeclined(p, n) ==
    /\ Declines
    /\ stripe[p][n] = "processing"
    /\ stripe' = [stripe EXCEPT ![p][n] = "requires_payment_method"]
    /\ emitted' = emitted \cup
         [type : {"payment_intent.payment_failed"}, payment : {p}, attempt : {n}]
    /\ UNCHANGED <<dbVars, deliveries, pc, ctx, faults>>

-----------------------------------------------------------------------------
(* The documents a payment refers to *)

\* A freelancer deletes the account, the TTL index removes the job, an admin
\* points the payment elsewhere: the document is no longer found.
Vanish(p, d) ==
    /\ status[p] # "none"
    /\ d \in found[p]
    /\ found' = [found EXCEPT ![p] = @ \ {d}]
    /\ UNCHANGED <<status, intent, retryCount, overwritten, forged, updates>>
    /\ UNCHANGED <<effectVars, fbuVars, lock, record, stripeVars, pc, ctx, faults>>

-----------------------------------------------------------------------------
(* Webhook delivery *)

\* The records that let a delivery in: none, or one that failed or went stale.
AdmitsCompleted(e) == record[e] # "processing"          \* mutant
Admits(e) == record[e] \in {"none", "failed", "stale"}

\* Stripe delivers an event, perhaps again and in any order.  One that is not
\* admitted is answered 200 and changes nothing.
Receive(w, e) ==
    /\ pc[w] = "idle"
    /\ deliveries < MaxDeliveries
    /\ deliveries' = deliveries + 1
    /\ Admits(e)
    /\ GotoWith(w, IF record[e] = "none" THEN "insert" ELSE "touch",
                LocalsFor(e, e.payment, e.attempt))
    /\ UNCHANGED <<dbVars, stripe, emitted, faults>>

Handler(e) == IF e.type \in SuccessTypes THEN "claim" ELSE "failcheck"

SetRecord(w, s) ==
    /\ record' = [record EXCEPT ![ctx[w].event] = s]
    /\ UNCHANGED <<payVars, effectVars, fbuVars, lock, stripeVars>>
    /\ NoFault

\* The record is inserted; the unique index on stripeEventId rejects a second
\* insert and the request ends with 400.
Insert(w) ==
    /\ pc[w] = "insert"
    /\ IF record[ctx[w].event] = "none"
       THEN SetRecord(w, "processing") /\ Goto(w, Handler(ctx[w].event))
       ELSE ReadOnly /\ Goto(w, "idle")

\* An existing record is taken over without looking at it again.
Touch(w) ==
    /\ pc[w] = "touch"
    /\ SetRecord(w, "processing")
    /\ Goto(w, Handler(ctx[w].event))

\* Thirty seconds pass since startedAt.
GoStale(e) ==
    /\ record[e] = "processing"
    /\ record' = [record EXCEPT ![e] = "stale"]
    /\ UNCHANGED <<payVars, effectVars, fbuVars, lock, stripeVars, pc, ctx>>
    /\ NoFault

Ack(w) == pc[w] = "ack" /\ SetRecord(w, "completed") /\ Goto(w, "idle")

\* The event is marked failed; Stripe, answered 400, will redeliver it.
Nack(w) == pc[w] = "nack" /\ SetRecord(w, "failed") /\ Goto(w, "idle")

-----------------------------------------------------------------------------
(* payment_intent.succeeded and charge.succeeded *)

\* Does the document still point to the intent of the event?
Matches(r) == /\ status[ctx[r].pay] # "none"
              /\ intent[ctx[r].pay] = ctx[r].intent

ClaimableByIntent(r) == intent[ctx[r].pay] = ctx[r].intent     \* mutant
ClaimableSettled(r) == Matches(r)                              \* mutant
Claimable(r) == Matches(r) /\ status[ctx[r].pay] \in Unsettled

\* findOneAndUpdate to PROCESSING; the request keeps the status before it.
Claim(w) ==
    /\ pc[w] = "claim"
    /\ \/ /\ Claimable(w)
          /\ WriteStatus(ctx[w].pay, "processing")
          /\ GotoWith(w, "load", [ctx[w] EXCEPT !.orig = status[ctx[w].pay]])
          /\ UNCHANGED <<intent, retryCount>>
          /\ OnlyPayment
       \/ ~Claimable(w) /\ Goto(w, "ack") /\ ReadOnly

\* completePayment failed: the status read by the claim is written back,
\* whatever the status is by now.
Revert(w) ==
    /\ pc[w] = "revert"
    /\ WriteStatus(ctx[w].pay, ctx[w].orig)
    /\ Goto(w, "nack")
    /\ UNCHANGED <<intent, retryCount>>
    /\ OnlyPayment

-----------------------------------------------------------------------------
(* completePayment *)

\* A payment read for completion: whether a session can be started, and
\* whether populate finds the payee.
Loaded(r, tx) ==
    [ctx[r] EXCEPT !.tx = tx, !.payee = Finds(ctx[r].pay, {"freelancer"})]

\* findById: a completed payment is returned, any other settled one rejected.
Load(r) ==
    /\ pc[r] = "load"
    /\ ReadOnly
    /\ LET s == status[ctx[r].pay] IN
       \/ s = "completed" /\ Goto(r, AfterCall(r))
       \/ /\ s \in Unsettled
          /\ \E tx \in TxModes : GotoWith(r, "begin", Loaded(r, tx))
       \/ s \notin Unsettled \cup {"completed"} /\ Goto(r, AfterThrow(r))

\* The optimistic lock: only a payment that is still unsettled is completed; a
\* request that finds it settled returns without an error.
OpenUnchecked(p) == status[p] # "none"     \* mutant
StillOpen(p) == status[p] \in Unsettled

\* The first write of a transaction takes the document, ...
TakeLock(r) ==
    /\ pc[r] = "begin"
    /\ ctx[r].tx
    /\ Unlocked(ctx[r].pay)
    /\ \/ /\ StillOpen(ctx[r].pay)
          /\ lock' = [lock EXCEPT ![ctx[r].pay] = r]
          /\ Goto(r, "commit")
          /\ UNCHANGED <<payVars, effectVars, fbuVars, record, stripeVars>>
          /\ NoFault
       \/ ~StillOpen(ctx[r].pay) /\ Goto(r, AfterCall(r)) /\ ReadOnly

\* ... or fails with a WriteConflict, which completePayment retries.
Conflict(r) ==
    /\ pc[r] = "begin"
    /\ ctx[r].tx
    /\ ~Unlocked(ctx[r].pay)
    /\ IF ctx[r].conflicts + 1 < ConflictRetries
       THEN GotoWith(r, "load", [ctx[r] EXCEPT !.conflicts = @ + 1])
       ELSE Goto(r, AfterThrow(r))
    /\ ReadOnly

\* The contract that is found is funded, and with it the freelancer credited
\* and the job contracted, as far as they are found: an update by id of a
\* document that is gone changes nothing.
EffectsOfJob(p) ==                                             \* mutant
    /\ funded' = [funded EXCEPT ![p] = @ \/ Finds(p, {"contract"})]
    /\ credits' = [credits EXCEPT ![p] = IF Finds(p, Documents) THEN @ + 1 ELSE @]
    /\ contracted' = [contracted EXCEPT ![p] = @ \/ Finds(p, {"contract", "job"})]

ContractEffects(p) ==
    /\ funded' = [funded EXCEPT ![p] = @ \/ Finds(p, {"contract"})]
    /\ credits' = [credits EXCEPT ![p] =
                     IF Finds(p, {"contract", "freelancer"}) THEN @ + 1 ELSE @]
    /\ contracted' = [contracted EXCEPT ![p] = @ \/ Finds(p, {"contract", "job"})]

\* After the credit a log line reads the payee that findById populated, and
\* throws when there was none.
PayeeMissing(r) == Finds(ctx[r].pay, {"contract"}) /\ ~ctx[r].payee

\* The transaction takes effect: payment, contract, balance and job change
\* together.
TakeEffect(r) ==
    /\ pc[r] = "commit"
    /\ ~PayeeMissing(r)
    /\ LET p == ctx[r].pay IN
       /\ status' = [status EXCEPT ![p] = "completed"]
       /\ intent' = [intent EXCEPT ![p] = ctx[r].intent]
       /\ forged' = [forged EXCEPT ![p] = FALSE]
       /\ ContractEffects(p)
       /\ lock' = [lock EXCEPT ![p] = NoRequest]
    /\ UNCHANGED <<retryCount, overwritten, updates, found>>
    /\ UNCHANGED <<fbuVars, record, stripeVars>>

Commit(r) == TakeEffect(r) /\ Goto(r, AfterCall(r)) /\ NoFault

AbortTransaction(r) ==
    lock' = [p \in Payments |-> IF lock[p] = r THEN NoRequest ELSE lock[p]]

AbortUnpaid(r) ==
    /\ pc[r] = "commit"
    /\ PayeeMissing(r)
    /\ AbortTransaction(r)
    /\ Goto(r, AfterThrow(r))
    /\ UNCHANGED <<payVars, effectVars, fbuVars, record, stripeVars>>
    /\ NoFault

\* Without a session the same writes are four separate ones.
CompleteAlone(r) ==
    /\ pc[r] = "begin"
    /\ ~ctx[r].tx
    /\ Unlocked(ctx[r].pay)
    /\ \/ /\ StillOpen(ctx[r].pay)
          /\ WriteStatus(ctx[r].pay, "completed")
          /\ intent' = [intent EXCEPT ![ctx[r].pay] = ctx[r].intent]
          /\ Goto(r, "fund")
          /\ UNCHANGED retryCount
          /\ OnlyPayment
       \/ ~StillOpen(ctx[r].pay) /\ Goto(r, AfterCall(r)) /\ ReadOnly

FundAlone(r) ==
    /\ pc[r] = "fund"
    /\ LET p == ctx[r].pay IN
       /\ funded' = [funded EXCEPT ![p] = @ \/ Finds(p, {"contract"})]
       /\ Goto(r, IF Finds(p, {"contract"}) THEN "credit" ELSE AfterCall(r))
    /\ UNCHANGED <<payVars, contracted, credits, fbuVars, lock, record,
                   stripeVars, faults>>

CreditAlone(r) ==
    /\ pc[r] = "credit"
    /\ LET p == ctx[r].pay IN
       credits' = [credits EXCEPT ![p] =
                     IF Finds(p, {"freelancer"}) THEN @ + 1 ELSE @]
    /\ Goto(r, IF ctx[r].payee THEN "markjob" ELSE AfterThrow(r))
    /\ UNCHANGED <<payVars, funded, contracted, fbuVars, lock, record,
                   stripeVars, faults>>

MarkJobAlone(r) ==
    /\ pc[r] = "markjob"
    /\ LET p == ctx[r].pay IN
       contracted' = [contracted EXCEPT ![p] = @ \/ Finds(p, {"job"})]
    /\ Goto(r, AfterCall(r))
    /\ UNCHANGED <<payVars, funded, credits, fbuVars, lock, record, stripeVars,
                   faults>>

-----------------------------------------------------------------------------
(* payment_intent.payment_failed and failPayment *)

FailCheck(w) ==
    /\ pc[w] = "failcheck"
    /\ Goto(w, IF Claimable(w) THEN "failload" ELSE "ack")
    /\ ReadOnly

\* failPayment reads the document again and keeps its retry count.
FailLoad(r) ==
    /\ pc[r] = "failload"
    /\ IF status[ctx[r].pay] \in Unsettled
       THEN GotoWith(r, "failwrite",
                     [ctx[r] EXCEPT !.count = retryCount[ctx[r].pay]])
       ELSE Goto(r, AfterFail(r))
    /\ ReadOnly

\* updateById does not look at the status.
FailWrite(r) ==
    /\ pc[r] = "failwrite"
    /\ WriteStatus(ctx[r].pay, "failed")
    /\ retryCount' = [retryCount EXCEPT ![ctx[r].pay] = ctx[r].count + 1]
    /\ Goto(r, AfterCall(r))
    /\ UNCHANGED intent
    /\ OnlyPayment

-----------------------------------------------------------------------------
(* The crons *)

StuckPending(p) == status[p] = "pending"     \* mutant
Stuck(p) == status[p] \in Unsettled

\* reconcileStuckPayments lists the payments that are stuck, ...
CronList(c, p) ==
    /\ Stuck(p)
    /\ Start(c, "retrieve", p, 0)
    /\ ReadOnly

\* ... and does what Stripe says of the intent each one had then.
ReconcileEarly(s) ==                                           \* mutant
    CASE s \in {"succeeded", "processing"} -> "load"
      [] s \in {"canceled", "requires_payment_method"} -> "failload"
      [] OTHER -> "idle"

Reconcile(s) ==
    CASE s = "succeeded" -> "load"
      [] s \in {"canceled", "requires_payment_method"} -> "failload"
      [] OTHER -> "idle"

CronRetrieve(c) ==
    /\ pc[c] = "retrieve"
    /\ Goto(c, Reconcile(stripe[ctx[c].pay][ctx[c].intent]))
    /\ ReadOnly

\* retryFailedBalanceUpdates reads the pending updates, ...
BalanceListSavingFirst(c, p) ==                                \* mutant
    /\ fbu[p] = "pending"
    /\ fbuTries[p] < BalanceRetries
    /\ Start(c, "fbusave", p, fbuTries[p])
    /\ ReadOnly

BalanceList(c, p) ==
    /\ fbu[p] = "pending"
    /\ fbuTries[p] < BalanceRetries
    /\ Start(c, "fbucredit", p, fbuTries[p])
    /\ ReadOnly

\* ... increments the balance, ...
BalanceCredit(c) ==
    /\ pc[c] = "fbucredit"
    /\ Finds(ctx[c].pay, {"freelancer"})
    /\ compensated' = [compensated EXCEPT ![ctx[c].pay] = @ + 1]
    /\ Goto(c, "fbusave")
    /\ UNCHANGED <<payVars, effectVars, fbu, fbuTries, lock, record, stripeVars,
                   faults>>

\* ... and only then marks the update completed.
BalanceSave(c) ==
    /\ pc[c] = "fbusave"
    /\ fbu' = [fbu EXCEPT ![ctx[c].pay] = "completed"]
    /\ Goto(c, "idle")
    /\ UNCHANGED <<payVars, effectVars, compensated, fbuTries, lock, record,
                   stripeVars, faults>>

\* An error in either step counts a retry on the count that was read; the last
\* one gives the update up.  After a failed save the document in memory is
\* COMPLETED already, and that is what the error path saves.
CountTry(c) ==
    /\ LET p == ctx[c].pay
           tries == ctx[c].count + 1 IN
       /\ fbuTries' = [fbuTries EXCEPT ![p] = tries]
       /\ fbu' = [fbu EXCEPT ![p] =
                    CASE tries >= BalanceRetries -> "failed"
                      [] tries < BalanceRetries /\ pc[c] = "fbusave" -> "completed"
                      [] OTHER -> @]
    /\ Goto(c, "idle")
    /\ UNCHANGED <<payVars, effectVars, compensated, lock, record, stripeVars>>

BalanceError(c) ==
    pc[c] \in {"fbucredit", "fbusave"} /\ Fault /\ CountTry(c)

\* A freelancer who is not found is such an error, too.
UserNotFound(c) ==
    /\ pc[c] = "fbucredit"
    /\ ~Finds(ctx[c].pay, {"freelancer"})
    /\ NoFault
    /\ CountTry(c)

-----------------------------------------------------------------------------
(* Requests of admins, and of clients who pay again *)

\* The check each request makes on the document it reads.
UserStart(u, p) ==
    /\ \/ status[p] # "none" /\ Start(u, "load", p, 0)         \* PATCH :id/complete
       \/ status[p] # "none" /\ Start(u, "failload", p, 0)     \* PATCH :id/fail
       \/ status[p] = "pending" /\ Start(u, "procwrite", p, 0) \* PATCH :id/process
       \/ status[p] = "completed" /\ Start(u, "refundwrite", p, 0)
       \/ /\ status[p] \in Unsettled
          /\ Finds(p, {"contract"})
          /\ Start(u, "stalecancel", p, 0)
       \/ /\ status[p] = "failed"                              \* PATCH :id/retry
          /\ retryCount[p] < RetryLimit
          /\ Start(u, "retrywrite", p, retryCount[p])
    /\ ReadOnly

\* PUT /payments/:id: updateById writes what the admin sends, whatever the
\* payment's status is, and nothing beside the payment.
UpdatePayment(u, p, s, n, count) ==
    /\ pc[u] = "idle"
    /\ status[p] # "none"
    /\ stripe[p][n] # "none"
    /\ updates < MaxUpdates
    /\ updates' = updates + 1
    /\ StampStatus(p, s)
    /\ forged' = [forged EXCEPT ![p] =
                    s = "completed" /\ (status[p] = "completed" => @)]
    /\ intent' = [intent EXCEPT ![p] = n]
    /\ retryCount' = [retryCount EXCEPT ![p] = count]
    /\ UNCHANGED <<effectVars, fbuVars, lock, record, stripeVars, found, pc, ctx>>
    /\ NoFault

\* updateById after a check: the status may have changed in between.
UserWrite(u, label, s, next) ==
    /\ pc[u] = label
    /\ WriteStatus(ctx[u].pay, s)
    /\ Goto(u, next)
    /\ OnlyPayment

ProcessWrite(u) ==
    /\ UserWrite(u, "procwrite", "processing", "idle")
    /\ UNCHANGED <<intent, retryCount>>

RefundWrite(u) ==
    /\ UserWrite(u, "refundwrite", "refunded", "idle")
    /\ UNCHANGED <<intent, retryCount>>

\* retryPayment: back to PENDING, ...
RetryWrite(u) ==
    /\ UserWrite(u, "retrywrite", "pending", "retryintent")
    /\ retryCount' = [retryCount EXCEPT ![ctx[u].pay] = ctx[u].count + 1]
    /\ UNCHANGED intent

\* ... a new intent, ...
RetryIntent(u) ==
    /\ pc[u] = "retryintent"
    /\ \/ \E n \in Attempts \ {0} :
            /\ stripe[ctx[u].pay][n] = "none"
            /\ stripe' = [stripe EXCEPT
                            ![ctx[u].pay][n] = "requires_payment_method"]
            /\ GotoWith(u, "retrysave", [ctx[u] EXCEPT !.intent = n])
       \/ Goto(u, "retryfail") /\ UNCHANGED stripe
    /\ UNCHANGED <<dbVars, emitted, deliveries, faults>>

\* ... which the document is made to point to, or FAILED when Stripe refuses.
RetrySave(u) ==
    /\ UserWrite(u, "retrysave", "pending", "idle")
    /\ intent' = [intent EXCEPT ![ctx[u].pay] = ctx[u].intent]
    /\ UNCHANGED retryCount

RetryFail(u) ==
    /\ UserWrite(u, "retryfail", "failed", "idle")
    /\ UNCHANGED <<intent, retryCount>>

\* initiateContractPayment replaces an intent that is more than 30 minutes
\* old: Stripe cancels it, or refuses because it has succeeded and the payment
\* is left alone; ...
StaleCancel(u) ==
    /\ pc[u] = "stalecancel"
    /\ LET p == ctx[u].pay
           n == ctx[u].intent IN
       \/ /\ stripe[p][n] \in {"processing", "requires_payment_method"}
          /\ stripe' = [stripe EXCEPT ![p][n] = "canceled"]
          /\ Goto(u, "stalesave")
       \/ /\ stripe[p][n] \notin {"processing", "requires_payment_method"}
          /\ Goto(u, "idle")
          /\ UNCHANGED stripe
    /\ UNCHANGED <<dbVars, emitted, deliveries, faults>>

\* ... then the payment read before is saved CANCELLED.
StaleSave(u) ==
    /\ UserWrite(u, "stalesave", "cancelled", "idle")
    /\ UNCHANGED <<intent, retryCount>>

-----------------------------------------------------------------------------
(* Failures *)

\* A database error in completePayment: an open transaction is aborted, and an
\* error that names the balance or the freelancer is also recorded as a failed
\* balance update (at most one per payment: a bound of the model).
CompleteError(r) ==
    /\ pc[r] \in Completing
    /\ Fault
    /\ LET p == ctx[r].pay IN
       /\ AbortTransaction(r)
       /\ \/ UNCHANGED fbu
          \/ /\ BalanceErrors
             /\ pc[r] # "load"
             /\ fbu[p] = "none"
             /\ fbu' = [fbu EXCEPT ![p] = "pending"]
    /\ Goto(r, AfterThrow(r))
    /\ UNCHANGED <<payVars, effectVars, compensated, fbuTries, record,
                   stripeVars>>

\* The commit takes effect, and its answer is lost: abortTransaction refuses a
\* committed transaction, and that error is what completePayment throws.
LoseCommit(r) ==
    /\ LostCommits
    /\ TakeEffect(r)
    /\ Fault
    /\ Goto(r, AfterThrow(r))

\* A database error elsewhere in a request: before the dispatch, or while
\* marking the event failed, the request just ends; else the event is failed.
StepError(r) ==
    /\ Fault
    /\ \/ /\ pc[r] \in {"insert", "touch", "nack", "retrieve", "procwrite",
                        "refundwrite", "retrywrite", "retryfail",
                        "stalecancel", "stalesave"}
          /\ Goto(r, "idle")
       \/ /\ pc[r] \in {"claim", "revert", "ack", "failcheck", "failload",
                        "failwrite"}
          /\ Goto(r, AfterFail(r))
       \/ pc[r] = "retrysave" /\ Goto(r, "retryfail")
    /\ UNCHANGED <<dbVars, stripeVars>>

\* The server dies in the middle of a request; MongoDB aborts its transaction.
Crash(r) ==
    /\ pc[r] # "idle"
    /\ Fault
    /\ Goto(r, "idle")
    /\ AbortTransaction(r)
    /\ UNCHANGED <<payVars, effectVars, fbuVars, record, stripeVars>>

-----------------------------------------------------------------------------
(* Specification *)

Init ==
    /\ status = [p \in Payments |-> "none"]
    /\ intent = [p \in Payments |-> 0]
    /\ retryCount = [p \in Payments |-> 0]
    /\ funded = [p \in Payments |-> FALSE]
    /\ contracted = [p \in Payments |-> FALSE]
    /\ credits = [p \in Payments |-> 0]
    /\ compensated = [p \in Payments |-> 0]
    /\ fbu = [p \in Payments |-> "none"]
    /\ fbuTries = [p \in Payments |-> 0]
    /\ lock = [p \in Payments |-> NoRequest]
    /\ stripe = [p \in Payments |-> [n \in Attempts |-> "none"]]
    /\ emitted = {}
    /\ deliveries = 0
    /\ record = [e \in Events |-> "none"]
    /\ pc = [r \in Requests |-> "idle"]
    /\ ctx = [r \in Requests |-> NoLocals]
    /\ faults = 0
    /\ overwritten = [p \in Payments |-> 0]
    /\ forged = [p \in Payments |-> FALSE]
    /\ updates = 0
    /\ found = [p \in Payments |-> Documents]

Environment ==
    \/ \E p \in Payments : CreateIntent(p) \/ SavePayment(p)
    \/ \E p \in Payments, n \in Attempts :
         IntentSucceeds(p, n) \/ IntentDeclined(p, n)
    \/ \E p \in Payments, d \in Vanishing : Vanish(p, d)
    \/ \E e \in Events : GoStale(e)

CompleteStep(r) ==
    \/ Load(r) \/ TakeLock(r) \/ Conflict(r) \/ Commit(r) \/ AbortUnpaid(r)
    \/ CompleteAlone(r) \/ FundAlone(r) \/ CreditAlone(r) \/ MarkJobAlone(r)

FailStep(r) == FailLoad(r) \/ FailWrite(r)

WebhookStep(w) ==
    \/ Insert(w) \/ Touch(w) \/ Claim(w) \/ Revert(w)
    \/ FailCheck(w) \/ Ack(w) \/ Nack(w)
    \/ CompleteStep(w) \/ FailStep(w)

CronStep(c) ==
    \/ CronRetrieve(c) \/ BalanceCredit(c) \/ BalanceSave(c) \/ UserNotFound(c)
    \/ CompleteStep(c) \/ FailStep(c)

UserStep(u) ==
    \/ ProcessWrite(u) \/ RefundWrite(u)
    \/ StaleCancel(u) \/ StaleSave(u)
    \/ RetryWrite(u) \/ RetryIntent(u) \/ RetrySave(u) \/ RetryFail(u)
    \/ CompleteStep(u) \/ FailStep(u)

Next ==
    \/ Environment
    \/ \E w \in Webhooks : WebhookStep(w) \/ \E e \in emitted : Receive(w, e)
    \/ \E c \in Crons :
         \/ CronStep(c)
         \/ BalanceError(c)
         \/ \E p \in Payments : CronList(c, p) \/ BalanceList(c, p)
    \/ \E u \in Users, p \in Payments :
         \/ UserStep(u) \/ UserStart(u, p)
         \/ \E s \in PaymentStatus, n \in Attempts, count \in 0 .. RetryLimit :
              UpdatePayment(u, p, s, n, count)
    \/ \E r \in Requests :
         CompleteError(r) \/ LoseCommit(r) \/ StepError(r) \/ Crash(r)

Spec == Init /\ [][Next]_vars

\* A request that runs takes its next step, and the daily cron reaches every
\* payment that stays stuck.  Nothing is assumed of Stripe: every webhook may
\* be lost.
FairSpec ==
    /\ Spec
    /\ \A w \in Webhooks : WF_vars(WebhookStep(w))
    /\ \A c \in Crons : WF_vars(CronStep(c))
    /\ \A p \in Payments : WF_vars(\E c \in Crons : CronList(c, p))

-----------------------------------------------------------------------------
(* Properties *)

\* Type invariant.
TypeOK ==
    /\ status \in [Payments -> PaymentStatus \cup {"none"}]
    /\ intent \in [Payments -> Attempts]
    /\ retryCount \in [Payments -> Nat]
    /\ funded \in [Payments -> BOOLEAN]
    /\ contracted \in [Payments -> BOOLEAN]
    /\ credits \in [Payments -> Nat]
    /\ compensated \in [Payments -> Nat]
    /\ fbu \in [Payments -> FbuStatus]
    /\ fbuTries \in [Payments -> Nat]
    /\ lock \in [Payments -> Requests \cup {NoRequest}]
    /\ stripe \in [Payments -> [Attempts -> IntentStatus]]
    /\ emitted \subseteq Events
    /\ deliveries \in Nat
    /\ record \in [Events -> RecordStatus]
    /\ pc \in [Requests -> PCs]
    /\ ctx \in [Requests -> Locals]
    /\ faults \in Nat
    /\ overwritten \in [Payments -> Nat]
    /\ forged \in [Payments -> BOOLEAN]
    /\ updates \in Nat
    /\ found \in [Payments -> SUBSET Documents]

\* A payment that reads COMPLETED, and not by the hand of an admin, has had
\* its effects on every document it finds: its contract is funded, and of that
\* contract the freelancer credited and the job contracted.  With transactions
\* the four writes of completePaymentWithRetry are never seen apart, and no
\* other code completes a payment.
CompletedIsFunded ==
    \A p \in Payments :
        status[p] = "completed" /\ ~forged[p] /\ Finds(p, {"contract"})
          => /\ funded[p]
             /\ Finds(p, {"freelancer"}) => credits[p] > 0
             /\ Finds(p, {"job"}) => contracted[p]

\* An open transaction owns its payment alone: from its first write to its
\* commit the document is locked by that request and stays unsettled, so no
\* concurrent webhook, cron, revert or admin write can slip in between.
OpenTransactionOwnsPayment ==
    /\ \A r \in Requests : pc[r] = "commit" => lock[ctx[r].pay] = r
    /\ \A p \in Payments :
         lock[p] # NoRequest => /\ pc[lock[p]] = "commit"
                               /\ ctx[lock[p]].pay = p
                               /\ status[p] \in Unsettled

\* In either mode, a credit follows a settlement of its own: retries, reverts
\* and redeliveries never credit a payment more often than it was settled.
CreditsFollowSettlements ==
    \A p \in Payments :
        credits[p] <= overwritten[p] + (IF status[p] \in Settled THEN 1 ELSE 0)

\* A webhook or cron request settles a payment only for an intent whose money
\* Stripe has collected, however the client retries meanwhile.
OnlyCollectedIsCompleted ==
    \A r \in Webhooks \cup Crons :
        pc[r] \in Completing => stripe[ctx[r].pay][ctx[r].intent] = "succeeded"

\* A failed balance update that is marked completed was paid out: the cron's
\* increment is never lost to the save that follows it.
CompletedUpdateIsPaid ==
    \A p \in Payments : fbu[p] = "completed" => compensated[p] > 0

\* One paid contract credits the freelancer's pending balance at most once,
\* whatever is redelivered, duplicated, retried or crashes on the way.
AtMostOnceCredit == \A p \in Payments : credits[p] + compensated[p] <= 1

\* A webhook event whose processing was recorded as completed is not processed
\* again.
CompletedEventIsFinal ==
    [][\A e \in Events : record[e] = "completed" => record'[e] = "completed"]_record

\* A payment that Stripe has collected ends up settled, unless its freelancer
\* is gone: then every completion fails, and the payment stays as it is.
CollectedIsSettled ==
    \A p \in Payments :
        (status[p] # "none" /\ stripe[p][intent[p]] = "succeeded")
            ~> (status[p] \in Settled \/ ~Finds(p, {"freelancer"}))

-----------------------------------------------------------------------------
(* Expected, and false of the code: the README says where *)

\* A failed balance update is recorded for a payment that did complete.
UpdateOnlyAfterCompletion ==
    \A p \in Payments : fbu[p] = "pending" => status[p] = "completed"

=============================================================================
