----------------------- MODULE PaymentSettlementProofs -----------------------
(***************************************************************************)
(* What holds of PaymentSettlement for any number of payments, requests,   *)
(* faults, deliveries and retries.                                         *)
(***************************************************************************)
EXTENDS PaymentSettlement, FiniteSetTheorems, TLAPS

(***************************************************************************)
(* Type correctness.  The definitions every step needs are used throughout *)
(* this part; a step then expands its own action.                          *)
(***************************************************************************)
LEMMA NoLocalsType == NoLocals \in Locals
  <1>1. (CHOOSE p \in Payments : TRUE) \in Payments
    BY PaymentsAssumption
  <1>2. 0 \in Attempts
    BY BoundsAssumption DEF Attempts
  <1> QED
    BY <1>1, <1>2 DEF NoLocals, LocalsFor, Locals, PaymentStatus

LEMMA LocalsForType ==
    ASSUME NEW e \in Events \cup {NoEvent}, NEW p \in Payments,
           NEW n \in Attempts
    PROVE  LocalsFor(e, p, n) \in Locals
  BY DEF LocalsFor, Locals, PaymentStatus

\* What completePayment reads of the payment beside its status.
LEMMA LoadedLocals ==
    ASSUME NEW r \in Requests, ctx[r] \in Locals, NEW tx \in TxModes
    PROVE  /\ Loaded(r, tx) \in Locals
           /\ Loaded(r, tx).tx = tx
           /\ Loaded(r, tx).event = ctx[r].event
           /\ Loaded(r, tx).pay = ctx[r].pay
           /\ Loaded(r, tx).intent = ctx[r].intent
           /\ Loaded(r, tx).orig = ctx[r].orig
  <1>1. tx \in BOOLEAN /\ Finds(ctx[r].pay, {"freelancer"}) \in BOOLEAN
    BY SwitchAssumption DEF Finds
  <1> QED
    BY <1>1 DEF Loaded, Locals

\* Moving a request on keeps the program counters and the locals typed.
LEMMA GotoWithType ==
    ASSUME pc \in [Requests -> PCs], ctx \in [Requests -> Locals],
           NEW r \in Requests, NEW label \in PCs, NEW locals \in Locals,
           GotoWith(r, label, locals)
    PROVE  pc' \in [Requests -> PCs] /\ ctx' \in [Requests -> Locals]
  BY NoLocalsType DEF GotoWith

LEMMA GotoType ==
    ASSUME pc \in [Requests -> PCs], ctx \in [Requests -> Locals],
           NEW r \in Requests, NEW label \in PCs, Goto(r, label)
    PROVE  pc' \in [Requests -> PCs] /\ ctx' \in [Requests -> Locals]
  <1>1. ctx[r] \in Locals
    OBVIOUS
  <1> QED
    BY <1>1, GotoWithType DEF Goto

LEMMA StartType ==
    ASSUME pc \in [Requests -> PCs], ctx \in [Requests -> Locals],
           intent \in [Payments -> Attempts],
           NEW r \in Requests, NEW label \in PCs, NEW p \in Payments,
           NEW count \in Nat, Start(r, label, p, count)
    PROVE  pc' \in [Requests -> PCs] /\ ctx' \in [Requests -> Locals]
  <1>1. [LocalsFor(NoEvent, p, intent[p]) EXCEPT !.count = count] \in Locals
    <2>1. LocalsFor(NoEvent, p, intent[p]) \in Locals
      BY LocalsForType
    <2> QED
      BY <2>1 DEF Locals
  <1> QED
    BY <1>1, GotoWithType DEF Start

\* So does writing the status of a payment.
LEMMA WriteStatusType ==
    ASSUME status \in [Payments -> PaymentStatus \cup {"none"}],
           overwritten \in [Payments -> Nat], forged \in [Payments -> BOOLEAN],
           NEW p \in Payments, NEW s \in PaymentStatus, WriteStatus(p, s)
    PROVE  /\ status' \in [Payments -> PaymentStatus \cup {"none"}]
           /\ overwritten' \in [Payments -> Nat]
           /\ forged' \in [Payments -> BOOLEAN]
  BY DEF WriteStatus, StampStatus

\* And so does a change of one intent at Stripe.
LEMMA StripeType ==
    ASSUME stripe \in [Payments -> [Attempts -> IntentStatus]],
           NEW p \in Payments, NEW n \in Attempts, NEW s \in IntentStatus,
           stripe' = [stripe EXCEPT ![p][n] = s]
    PROVE  stripe' \in [Payments -> [Attempts -> IntentStatus]]
  OBVIOUS

\* The environment's steps keep every variable typed.
LEMMA EnvironmentType ==
    ASSUME TypeOK, Environment
    PROVE  TypeOK'
  <1>1. ASSUME NEW p \in Payments, CreateIntent(p)
        PROVE  TypeOK'
    BY <1>1 DEF CreateIntent, TypeOK, IntentStatus, dbVars, payVars, effectVars,
                fbuVars
  <1>2. ASSUME NEW p \in Payments, SavePayment(p)
        PROVE  TypeOK'
    <2>1. "pending" \in PaymentStatus
      BY DEF PaymentStatus
    <2> QED
      BY <1>2, <2>1, WriteStatusType
      DEF SavePayment, TypeOK, OnlyPayment, NoFault, effectVars, fbuVars,
          stripeVars
  <1>3. ASSUME NEW p \in Payments, NEW n \in Attempts, IntentSucceeds(p, n)
        PROVE  TypeOK'
    BY <1>3 DEF IntentSucceeds, TypeOK, IntentStatus, Events, EventTypes, dbVars,
                payVars, effectVars, fbuVars
  <1>4. ASSUME NEW p \in Payments, NEW n \in Attempts, IntentDeclined(p, n)
        PROVE  TypeOK'
    BY <1>4 DEF IntentDeclined, TypeOK, IntentStatus, Events, EventTypes, dbVars,
                payVars, effectVars, fbuVars
  <1>5. ASSUME NEW e \in Events, GoStale(e)
        PROVE  TypeOK'
    BY <1>5 DEF GoStale, TypeOK, RecordStatus, NoFault, payVars, effectVars,
                fbuVars, stripeVars
  <1>6. ASSUME NEW p \in Payments, NEW d \in Vanishing, Vanish(p, d)
        PROVE  TypeOK'
    BY <1>6 DEF Vanish, TypeOK, effectVars, fbuVars, stripeVars
  <1> QED
    BY <1>1, <1>2, <1>3, <1>4, <1>5, <1>6 DEF Environment

\* Delivering and answering a webhook keeps every variable typed.
LEMMA ReceiveType ==
    ASSUME TypeOK, NEW w \in Webhooks, NEW e \in Events, Receive(w, e)
    PROVE  TypeOK'
  <1>1. LocalsFor(e, e.payment, e.attempt) \in Locals
    BY LocalsForType DEF Events
  <1>2. /\ pc' \in [Requests -> PCs]
        /\ ctx' \in [Requests -> Locals]
    BY <1>1, GotoWithType DEF Receive, TypeOK, Requests, PCs
  <1> QED
    BY <1>2 DEF Receive, TypeOK, dbVars, payVars, effectVars, fbuVars

\* What SetRecord leaves of a typed state.
LEMMA SetRecordType ==
    ASSUME TypeOK, NEW w \in Webhooks, NEW s \in RecordStatus,
           SetRecord(w, s),
           pc' \in [Requests -> PCs], ctx' \in [Requests -> Locals]
    PROVE  TypeOK'
  BY DEF SetRecord, TypeOK, NoFault, payVars, effectVars, fbuVars, stripeVars

LEMMA ReadOnlyType ==
    ASSUME TypeOK, ReadOnly,
           pc' \in [Requests -> PCs], ctx' \in [Requests -> Locals]
    PROVE  TypeOK'
  BY DEF ReadOnly, TypeOK, NoFault, dbVars, payVars, effectVars, fbuVars,
         stripeVars

LEMMA OnlyPaymentType ==
    ASSUME TypeOK, OnlyPayment,
           pc' \in [Requests -> PCs], ctx' \in [Requests -> Locals],
           status' \in [Payments -> PaymentStatus \cup {"none"}],
           intent' \in [Payments -> Attempts],
           retryCount' \in [Payments -> Nat],
           overwritten' \in [Payments -> Nat],
           forged' \in [Payments -> BOOLEAN]
    PROVE  TypeOK'
  BY DEF OnlyPayment, TypeOK, NoFault, effectVars, fbuVars, stripeVars

LEMMA EventStepType ==
    ASSUME TypeOK, NEW w \in Webhooks,
           Insert(w) \/ Touch(w) \/ Ack(w) \/ Nack(w)
    PROVE  TypeOK'
  <1>1. w \in Requests
    BY DEF Requests
  <1>2. CASE Insert(w)
    <2>1. Handler(ctx[w].event) \in PCs /\ "idle" \in PCs
      BY DEF Handler, PCs
    <2>2. pc' \in [Requests -> PCs] /\ ctx' \in [Requests -> Locals]
      BY <1>1, <1>2, <2>1, GotoType DEF Insert, TypeOK
    <2> QED
      BY <1>2, <2>2, SetRecordType, ReadOnlyType DEF Insert, RecordStatus
  <1>3. CASE Touch(w)
    <2>1. Handler(ctx[w].event) \in PCs
      BY DEF Handler, PCs
    <2>2. pc' \in [Requests -> PCs] /\ ctx' \in [Requests -> Locals]
      BY <1>1, <1>3, <2>1, GotoType DEF Touch, TypeOK
    <2> QED
      BY <1>3, <2>2, SetRecordType DEF Touch, RecordStatus
  <1>4. CASE Ack(w) \/ Nack(w)
    <2>1. pc' \in [Requests -> PCs] /\ ctx' \in [Requests -> Locals]
      BY <1>1, <1>4, GotoType DEF Ack, Nack, TypeOK, PCs
    <2> QED
      BY <1>4, <2>1, SetRecordType DEF Ack, Nack, RecordStatus
  <1> QED
    BY <1>2, <1>3, <1>4

LEMMA ClaimType ==
    ASSUME TypeOK, NEW w \in Webhooks, Claim(w) \/ Revert(w) \/ FailCheck(w)
    PROVE  TypeOK'
  <1>1. w \in Requests /\ ctx[w] \in Locals
    BY DEF Requests, TypeOK
  <1>2. CASE Claim(w) /\ Claimable(w)
    <2>1. /\ ctx[w].pay \in Payments
          /\ "processing" \in PaymentStatus
          /\ status[ctx[w].pay] \in PaymentStatus
          /\ "load" \in PCs
      BY <1>1, <1>2 DEF Claimable, Unsettled, PaymentStatus, Locals, PCs
    <2>2. [ctx[w] EXCEPT !.orig = status[ctx[w].pay]] \in Locals
      BY <1>1, <2>1 DEF Locals
    <2>3. pc' \in [Requests -> PCs] /\ ctx' \in [Requests -> Locals]
      BY <1>1, <1>2, <2>1, <2>2, GotoWithType DEF Claim, TypeOK
    <2>4. /\ status' \in [Payments -> PaymentStatus \cup {"none"}]
          /\ overwritten' \in [Payments -> Nat]
          /\ forged' \in [Payments -> BOOLEAN]
      BY <1>2, <2>1, WriteStatusType DEF Claim, TypeOK
    <2> QED
      BY <1>2, <2>3, <2>4, OnlyPaymentType DEF Claim, TypeOK
  <1>3. CASE Claim(w) /\ ~Claimable(w)
    <2>1. pc' \in [Requests -> PCs] /\ ctx' \in [Requests -> Locals]
      BY <1>1, <1>3, GotoType DEF Claim, TypeOK, PCs
    <2> QED
      BY <1>3, <2>1, ReadOnlyType DEF Claim
  <1>4. CASE Revert(w)
    <2>1. pc' \in [Requests -> PCs] /\ ctx' \in [Requests -> Locals]
      BY <1>1, <1>4, GotoType DEF Revert, TypeOK, PCs
    <2>2. ctx[w].pay \in Payments /\ ctx[w].orig \in PaymentStatus
      BY <1>1 DEF Locals
    <2>3. /\ status' \in [Payments -> PaymentStatus \cup {"none"}]
          /\ overwritten' \in [Payments -> Nat]
          /\ forged' \in [Payments -> BOOLEAN]
      BY <1>4, <2>2, WriteStatusType DEF Revert, TypeOK
    <2> QED
      BY <1>4, <2>1, <2>3, OnlyPaymentType DEF Revert, TypeOK
  <1>5. CASE FailCheck(w)
    <2>1. pc' \in [Requests -> PCs] /\ ctx' \in [Requests -> Locals]
      BY <1>1, <1>5, GotoType DEF FailCheck, TypeOK, PCs
    <2> QED
      BY <1>5, <2>1, ReadOnlyType DEF FailCheck
  <1> QED
    BY <1>2, <1>3, <1>4, <1>5

\* The labels completePayment and failPayment return and throw to.
LEMMA AfterType ==
    ASSUME NEW r \in Requests
    PROVE  AfterCall(r) \in PCs /\ AfterThrow(r) \in PCs /\ AfterFail(r) \in PCs
  BY DEF AfterCall, AfterThrow, AfterFail, PCs

\* The effects of a transaction keep every variable typed.
LEMMA TakeEffectType ==
    ASSUME TypeOK, NEW r \in Requests, TakeEffect(r), faults' \in Nat,
           pc' \in [Requests -> PCs], ctx' \in [Requests -> Locals]
    PROVE  TypeOK'
  <1>1. ctx[r].pay \in Payments /\ ctx[r].intent \in Attempts
    BY DEF TypeOK, Locals
  <1>2. /\ funded' \in [Payments -> BOOLEAN]
        /\ credits' \in [Payments -> Nat]
        /\ contracted' \in [Payments -> BOOLEAN]
    BY <1>1 DEF TakeEffect, ContractEffects, Finds, TypeOK
  <1>3. /\ status' \in [Payments -> PaymentStatus \cup {"none"}]
        /\ intent' \in [Payments -> Attempts]
        /\ forged' \in [Payments -> BOOLEAN]
        /\ lock' \in [Payments -> Requests \cup {NoRequest}]
    BY <1>1 DEF TakeEffect, TypeOK, PaymentStatus
  <1> QED
    BY <1>2, <1>3 DEF TakeEffect, TypeOK, fbuVars, stripeVars

\* completePayment and failPayment keep every variable typed.
LEMMA CompleteStepType ==
    ASSUME TypeOK, NEW r \in Requests, CompleteStep(r)
    PROVE  TypeOK'
  <1>1. ctx[r] \in Locals /\ ctx[r].pay \in Payments
    BY DEF TypeOK, Locals
  <1>2. CASE Load(r)
    <2>1. \A tx \in TxModes : Loaded(r, tx) \in Locals
      BY <1>1, LoadedLocals
    <2>2. pc' \in [Requests -> PCs] /\ ctx' \in [Requests -> Locals]
      BY <1>2, <2>1, AfterType, GotoType, GotoWithType DEF Load, TypeOK, PCs
    <2> QED
      BY <1>2, <2>2, ReadOnlyType DEF Load
  <1>3. CASE TakeLock(r)
    <2>1. pc' \in [Requests -> PCs] /\ ctx' \in [Requests -> Locals]
      BY <1>3, AfterType, GotoType DEF TakeLock, TypeOK, PCs
    <2>2. CASE ~StillOpen(ctx[r].pay)
      BY <1>3, <2>1, <2>2, ReadOnlyType DEF TakeLock
    <2>3. CASE StillOpen(ctx[r].pay)
      <3>1. lock' \in [Payments -> Requests \cup {NoRequest}]
        BY <1>1, <1>3, <2>3 DEF TakeLock, TypeOK
      <3>2. UNCHANGED <<payVars, effectVars, fbuVars, record, stripeVars, faults>>
        BY <1>3, <2>3 DEF TakeLock, NoFault
      <3> QED
        BY <2>1, <3>1, <3>2
        DEF TypeOK, payVars, effectVars, fbuVars, stripeVars
    <2> QED
      BY <2>2, <2>3
  <1>4. CASE Conflict(r)
    <2>1. [ctx[r] EXCEPT !.conflicts = @ + 1] \in Locals
      BY <1>1 DEF Locals
    <2>2. pc' \in [Requests -> PCs] /\ ctx' \in [Requests -> Locals]
      BY <1>4, <2>1, AfterType, GotoType, GotoWithType DEF Conflict, TypeOK, PCs
    <2> QED
      BY <1>4, <2>2, ReadOnlyType DEF Conflict
  <1>5. CASE Commit(r) \/ AbortUnpaid(r)
    <2>1. pc' \in [Requests -> PCs] /\ ctx' \in [Requests -> Locals]
      BY <1>5, AfterType, GotoType DEF Commit, AbortUnpaid, TypeOK
    <2>2. CASE Commit(r)
      BY <2>1, <2>2, TakeEffectType DEF Commit, NoFault, TypeOK
    <2>3. CASE AbortUnpaid(r)
      BY <2>1, <2>3
      DEF AbortUnpaid, AbortTransaction, NoFault, TypeOK, payVars, effectVars,
          fbuVars, stripeVars
    <2> QED
      BY <1>5, <2>2, <2>3
  <1>6. CASE CompleteAlone(r)
    <2>1. pc' \in [Requests -> PCs] /\ ctx' \in [Requests -> Locals]
      BY <1>6, AfterType, GotoType DEF CompleteAlone, TypeOK, PCs
    <2>2. CASE ~StillOpen(ctx[r].pay)
      BY <1>6, <2>1, <2>2, ReadOnlyType DEF CompleteAlone
    <2>3. CASE StillOpen(ctx[r].pay)
      <3>1. "completed" \in PaymentStatus /\ ctx[r].intent \in Attempts
        BY <1>1 DEF PaymentStatus, Locals
      <3>2. /\ status' \in [Payments -> PaymentStatus \cup {"none"}]
            /\ overwritten' \in [Payments -> Nat]
            /\ forged' \in [Payments -> BOOLEAN]
        BY <1>1, <1>6, <2>3, <3>1, WriteStatusType DEF CompleteAlone, TypeOK
      <3> QED
        BY <1>6, <2>1, <2>3, <3>1, <3>2, OnlyPaymentType
        DEF CompleteAlone, TypeOK
    <2> QED
      BY <2>2, <2>3
  <1>7. CASE FundAlone(r) \/ CreditAlone(r) \/ MarkJobAlone(r)
    <2>1. pc' \in [Requests -> PCs] /\ ctx' \in [Requests -> Locals]
      <3>1. PICK label \in PCs : Goto(r, label)
        BY <1>7, AfterType DEF FundAlone, CreditAlone, MarkJobAlone, PCs
      <3> QED
        BY <3>1, GotoType DEF TypeOK
    <2>2. CASE FundAlone(r)
      BY <1>1, <2>1, <2>2
      DEF FundAlone, Finds, TypeOK, payVars, fbuVars, stripeVars
    <2>3. CASE CreditAlone(r)
      BY <1>1, <2>1, <2>3 DEF CreditAlone, TypeOK, payVars, fbuVars, stripeVars
    <2>4. CASE MarkJobAlone(r)
      BY <1>1, <2>1, <2>4
      DEF MarkJobAlone, Finds, TypeOK, payVars, fbuVars, stripeVars
    <2> QED
      BY <1>7, <2>2, <2>3, <2>4
  <1> QED
    BY <1>2, <1>3, <1>4, <1>5, <1>6, <1>7 DEF CompleteStep

LEMMA FailStepType ==
    ASSUME TypeOK, NEW r \in Requests, FailStep(r)
    PROVE  TypeOK'
  <1>1. ctx[r] \in Locals /\ ctx[r].pay \in Payments
    BY DEF TypeOK, Locals
  <1>2. CASE FailLoad(r)
    <2>1. [ctx[r] EXCEPT !.count = retryCount[ctx[r].pay]] \in Locals
      BY <1>1 DEF Locals, TypeOK
    <2>2. pc' \in [Requests -> PCs] /\ ctx' \in [Requests -> Locals]
      BY <1>2, <2>1, AfterType, GotoType, GotoWithType DEF FailLoad, TypeOK, PCs
    <2> QED
      BY <1>2, <2>2, ReadOnlyType DEF FailLoad
  <1>3. CASE FailWrite(r)
    <2>1. pc' \in [Requests -> PCs] /\ ctx' \in [Requests -> Locals]
      BY <1>3, AfterType, GotoType DEF FailWrite, TypeOK
    <2>2. "failed" \in PaymentStatus /\ ctx[r].count + 1 \in Nat
      BY <1>1 DEF PaymentStatus, Locals
    <2>3. /\ status' \in [Payments -> PaymentStatus \cup {"none"}]
          /\ overwritten' \in [Payments -> Nat]
          /\ forged' \in [Payments -> BOOLEAN]
      BY <1>1, <1>3, <2>2, WriteStatusType DEF FailWrite, TypeOK
    <2> QED
      BY <1>3, <2>1, <2>2, <2>3, OnlyPaymentType DEF FailWrite, TypeOK
  <1> QED
    BY <1>2, <1>3 DEF FailStep

\* The crons keep every variable typed.
LEMMA CronType ==
    ASSUME TypeOK, NEW c \in Crons, NEW p \in Payments,
           \/ CronRetrieve(c) \/ BalanceCredit(c) \/ BalanceSave(c)
           \/ BalanceError(c) \/ UserNotFound(c)
           \/ CronList(c, p) \/ BalanceList(c, p)
    PROVE  TypeOK'
  <1>1. c \in Requests /\ ctx[c] \in Locals /\ ctx[c].pay \in Payments
    BY DEF Requests, TypeOK, Locals
  <1>2. CASE CronRetrieve(c)
    <2>1. pc' \in [Requests -> PCs] /\ ctx' \in [Requests -> Locals]
      BY <1>1, <1>2, GotoType DEF CronRetrieve, Reconcile, TypeOK, PCs
    <2> QED
      BY <1>2, <2>1, ReadOnlyType DEF CronRetrieve
  <1>3. CASE CronList(c, p) \/ BalanceList(c, p)
    <2>1. pc' \in [Requests -> PCs] /\ ctx' \in [Requests -> Locals]
      <3>1. PICK label \in PCs, count \in Nat : Start(c, label, p, count)
        BY <1>3 DEF CronList, BalanceList, TypeOK, PCs
      <3> QED
        BY <1>1, <3>1, StartType DEF TypeOK
    <2> QED
      BY <1>3, <2>1, ReadOnlyType DEF CronList, BalanceList
  <1>4. CASE \/ BalanceCredit(c) \/ BalanceSave(c) \/ BalanceError(c)
             \/ UserNotFound(c)
    <2>1. pc' \in [Requests -> PCs] /\ ctx' \in [Requests -> Locals]
      BY <1>1, <1>4, GotoType
      DEF BalanceCredit, BalanceSave, BalanceError, UserNotFound, CountTry,
          TypeOK,
          PCs
    <2>2. CASE BalanceCredit(c)
      BY <1>1, <2>1, <2>2 DEF BalanceCredit, TypeOK, payVars, effectVars,
         stripeVars
    <2>3. CASE BalanceSave(c)
      BY <1>1, <2>1, <2>3
      DEF BalanceSave, TypeOK, FbuStatus, payVars, effectVars, stripeVars
    <2>4. CASE BalanceError(c) \/ UserNotFound(c)
      <3>1. ctx[c].count + 1 \in Nat
        BY <1>1 DEF Locals
      <3>2. CountTry(c) /\ faults' \in Nat
        BY <2>4 DEF BalanceError, UserNotFound, Fault, NoFault, TypeOK
      <3>3. /\ fbuTries' \in [Payments -> Nat]
            /\ fbu' \in [Payments -> FbuStatus]
        BY <1>1, <3>1, <3>2 DEF CountTry, TypeOK, FbuStatus
      <3> QED
        BY <2>1, <3>2, <3>3 DEF CountTry, TypeOK, payVars, effectVars, stripeVars
    <2> QED
      BY <1>4, <2>2, <2>3, <2>4
  <1> QED
    BY <1>2, <1>3, <1>4

\* Requests of admins and clients keep every variable typed.
LEMMA UserWriteType ==
    ASSUME TypeOK, NEW u \in Users, NEW label, NEW s \in PaymentStatus,
           NEW next \in PCs, UserWrite(u, label, s, next),
           intent' \in [Payments -> Attempts],
           retryCount' \in [Payments -> Nat]
    PROVE  TypeOK'
  <1>1. u \in Requests /\ ctx[u].pay \in Payments
    BY DEF Requests, TypeOK, Locals
  <1>2. pc' \in [Requests -> PCs] /\ ctx' \in [Requests -> Locals]
    BY <1>1, GotoType DEF UserWrite, TypeOK
  <1>3. /\ status' \in [Payments -> PaymentStatus \cup {"none"}]
        /\ overwritten' \in [Payments -> Nat]
        /\ forged' \in [Payments -> BOOLEAN]
    BY <1>1, WriteStatusType DEF UserWrite, TypeOK
  <1> QED
    BY <1>2, <1>3, OnlyPaymentType DEF UserWrite

LEMMA UserType ==
    ASSUME TypeOK, NEW u \in Users, NEW p \in Payments,
           \/ ProcessWrite(u) \/ RefundWrite(u) \/ StaleCancel(u) \/ StaleSave(u)
           \/ RetryWrite(u) \/ RetryIntent(u) \/ RetrySave(u) \/ RetryFail(u)
           \/ UserStart(u, p)
    PROVE  TypeOK'
  <1>1. /\ u \in Requests
        /\ ctx[u] \in Locals
        /\ ctx[u].pay \in Payments
        /\ ctx[u].intent \in Attempts
        /\ ctx[u].count + 1 \in Nat
    BY DEF Requests, TypeOK, Locals
  <1>0. /\ {"pending", "processing", "refunded", "cancelled", "failed"}
             \subseteq PaymentStatus
        /\ {"idle", "retryintent"} \subseteq PCs
        /\ intent \in [Payments -> Attempts]
        /\ retryCount \in [Payments -> Nat]
    BY DEF TypeOK, PaymentStatus, PCs
  <1>2. CASE ProcessWrite(u) \/ RefundWrite(u) \/ StaleSave(u) \/ RetryFail(u)
    BY <1>2, <1>0, UserWriteType
    DEF ProcessWrite, RefundWrite, StaleSave, RetryFail
  <1>3. CASE RetryWrite(u)
    BY <1>1, <1>3, <1>0, UserWriteType DEF RetryWrite
  <1>4. CASE RetrySave(u)
    BY <1>1, <1>4, <1>0, UserWriteType DEF RetrySave
  <1>5. CASE RetryIntent(u)
    <2>1. ASSUME NEW n \in Attempts
          PROVE  [ctx[u] EXCEPT !.intent = n] \in Locals
      BY <1>1 DEF Locals
    <2>2. CASE Goto(u, "retryfail") /\ UNCHANGED stripe
      <3>1. pc' \in [Requests -> PCs] /\ ctx' \in [Requests -> Locals]
        BY <1>1, <2>2, GotoType DEF TypeOK, PCs
      <3> QED
        BY <1>5, <2>2, <3>1
        DEF RetryIntent, TypeOK, dbVars, payVars, effectVars, fbuVars
    <2>3. ASSUME NEW n \in Attempts,
                 stripe' = [stripe EXCEPT
                              ![ctx[u].pay][n] = "requires_payment_method"],
                 GotoWith(u, "retrysave", [ctx[u] EXCEPT !.intent = n])
          PROVE  TypeOK'
      <3>1. pc' \in [Requests -> PCs] /\ ctx' \in [Requests -> Locals]
        BY <1>1, <2>1, <2>3, GotoWithType DEF TypeOK, PCs
      <3>2. stripe' \in [Payments -> [Attempts -> IntentStatus]]
        BY <1>1, <2>3 DEF TypeOK, IntentStatus
      <3>3. UNCHANGED <<dbVars, emitted, deliveries, faults>>
        BY <1>5 DEF RetryIntent
      <3> QED
        BY <3>1, <3>2, <3>3 DEF TypeOK, dbVars, payVars, effectVars, fbuVars
    <2> QED
      BY <1>5, <2>2, <2>3 DEF RetryIntent
  <1>6. CASE StaleCancel(u)
    <2>1. pc' \in [Requests -> PCs] /\ ctx' \in [Requests -> Locals]
      BY <1>1, <1>6, GotoType DEF StaleCancel, TypeOK, PCs
    <2>2. stripe' \in [Payments -> [Attempts -> IntentStatus]]
      <3>1. \/ UNCHANGED stripe
            \/ stripe' =
                 [stripe EXCEPT ![ctx[u].pay][ctx[u].intent] = "canceled"]
        BY <1>6 DEF StaleCancel
      <3>2. stripe \in [Payments -> [Attempts -> IntentStatus]]
        BY DEF TypeOK
      <3>3. "canceled" \in IntentStatus
        BY DEF IntentStatus
      <3> QED
        BY <1>1, <3>1, <3>2, <3>3, StripeType
    <2>3. UNCHANGED <<dbVars, emitted, deliveries, faults>>
      BY <1>6 DEF StaleCancel
    <2> QED
      BY <2>1, <2>2, <2>3 DEF TypeOK, dbVars, payVars, effectVars, fbuVars
  <1>7. CASE UserStart(u, p)
    <2>1. PICK label \in PCs, count \in Nat : Start(u, label, p, count)
      BY <1>7 DEF UserStart, TypeOK, PCs
    <2>2. pc' \in [Requests -> PCs] /\ ctx' \in [Requests -> Locals]
      BY <1>1, <2>1, StartType DEF TypeOK
    <2> QED
      BY <1>7, <2>2, ReadOnlyType DEF UserStart
  <1> QED
    BY <1>2, <1>3, <1>4, <1>5, <1>6, <1>7

LEMMA UpdatePaymentType ==
    ASSUME TypeOK, NEW u \in Users, NEW p \in Payments, NEW s \in PaymentStatus,
           NEW n \in Attempts, NEW count \in 0 .. RetryLimit,
           UpdatePayment(u, p, s, n, count)
    PROVE  TypeOK'
  <1>1. /\ status' \in [Payments -> PaymentStatus \cup {"none"}]
        /\ overwritten' \in [Payments -> Nat]
        /\ intent' \in [Payments -> Attempts]
        /\ retryCount' \in [Payments -> Nat]
        /\ updates' \in Nat
    BY BoundsAssumption DEF UpdatePayment, StampStatus, TypeOK
  <1>2. forged' \in [Payments -> BOOLEAN]
    <2>1. (s = "completed" /\ (status[p] = "completed" => forged[p])) \in BOOLEAN
      OBVIOUS
    <2> QED
      BY <2>1 DEF UpdatePayment, TypeOK
  <1> QED
    BY <1>1, <1>2
    DEF UpdatePayment, TypeOK, NoFault, effectVars, fbuVars, stripeVars

\* So do errors and crashes.
LEMMA FailureType ==
    ASSUME TypeOK, NEW r \in Requests,
           CompleteError(r) \/ LoseCommit(r) \/ StepError(r) \/ Crash(r)
    PROVE  TypeOK'
  <1>1. CASE CompleteError(r)
    <2>1. pc' \in [Requests -> PCs] /\ ctx' \in [Requests -> Locals]
      BY <1>1, AfterType, GotoType DEF CompleteError, TypeOK
    <2>2. /\ lock' \in [Payments -> Requests \cup {NoRequest}]
          /\ fbu' \in [Payments -> FbuStatus]
      BY <1>1 DEF CompleteError, AbortTransaction, TypeOK, FbuStatus
    <2> QED
      BY <1>1, <2>1, <2>2
      DEF CompleteError, TypeOK, Fault, payVars, effectVars, stripeVars
  <1>2. CASE StepError(r)
    <2>1. pc' \in [Requests -> PCs] /\ ctx' \in [Requests -> Locals]
      BY <1>2, AfterType, GotoType DEF StepError, TypeOK, PCs
    <2> QED
      BY <1>2, <2>1
      DEF StepError, TypeOK, Fault, dbVars, payVars, effectVars, fbuVars,
          stripeVars
  <1>3. CASE Crash(r)
    <2>1. pc' \in [Requests -> PCs] /\ ctx' \in [Requests -> Locals]
      BY <1>3, GotoType DEF Crash, TypeOK, PCs
    <2> QED
      BY <1>3, <2>1
      DEF Crash, AbortTransaction, TypeOK, Fault, payVars, effectVars, fbuVars,
          stripeVars
  <1>4. CASE LoseCommit(r)
    <2>1. pc' \in [Requests -> PCs] /\ ctx' \in [Requests -> Locals]
      BY <1>4, AfterType, GotoType DEF LoseCommit, TypeOK
    <2> QED
      BY <1>4, <2>1, TakeEffectType DEF LoseCommit, Fault, TypeOK
  <1> QED
    BY <1>1, <1>2, <1>3, <1>4

LEMMA NextType == TypeOK /\ [Next]_vars => TypeOK'
  <1> SUFFICES ASSUME TypeOK, [Next]_vars PROVE TypeOK'
    OBVIOUS
  <1>1. CASE Environment
    BY <1>1, EnvironmentType
  <1>2. ASSUME NEW w \in Webhooks, WebhookStep(w)
        PROVE  TypeOK'
    BY <1>2, EventStepType, ClaimType, CompleteStepType, FailStepType
    DEF WebhookStep, Requests
  <1>3. ASSUME NEW w \in Webhooks, NEW e \in emitted, Receive(w, e)
        PROVE  TypeOK'
    BY <1>3, ReceiveType DEF TypeOK
  <1>4. ASSUME NEW c \in Crons, NEW p \in Payments,
               \/ CronStep(c) \/ BalanceError(c)
               \/ CronList(c, p) \/ BalanceList(c, p)
        PROVE  TypeOK'
    BY <1>4, CronType, CompleteStepType, FailStepType DEF CronStep, Requests
  <1>5. ASSUME NEW u \in Users, NEW p \in Payments,
               \/ UserStep(u) \/ UserStart(u, p)
               \/ \E s \in PaymentStatus, n \in Attempts,
                       count \in 0 .. RetryLimit :
                     UpdatePayment(u, p, s, n, count)
        PROVE  TypeOK'
    BY <1>5, UserType, UpdatePaymentType, CompleteStepType, FailStepType
    DEF UserStep, Requests
  <1>6. ASSUME NEW r \in Requests,
               CompleteError(r) \/ LoseCommit(r) \/ StepError(r) \/ Crash(r)
        PROVE  TypeOK'
    BY <1>6, FailureType
  <1>7. CASE UNCHANGED vars
    BY <1>7 DEF TypeOK, vars, dbVars, payVars, effectVars, fbuVars, stripeVars
  <1>8. PICK p \in Payments : TRUE
    BY PaymentsAssumption
  <1> QED
    BY <1>1, <1>2, <1>3, <1>4, <1>5, <1>6, <1>7, <1>8 DEF Next

LEMMA InitType == Init => TypeOK
  <1>1. 0 \in Attempts
    BY BoundsAssumption DEF Attempts
  <1> QED
    BY <1>1, NoLocalsType
    DEF Init, TypeOK, FbuStatus, IntentStatus, RecordStatus, PCs

\* Every variable of the settlement of payments keeps its type.
THEOREM TypeCorrect == Spec => []TypeOK
  <1> QED
    BY InitType, NextType, PTL DEF Spec

-----------------------------------------------------------------------------
(***************************************************************************)
(* Money, in either mode.  Every credit follows a settlement of its own,   *)
(* an open transaction owns its payment, and where no step runs outside a  *)
(* transaction a completed payment is funded and credited.  None of the    *)
(* three is inductive.  Between the COMPLETED it writes alone and its      *)
(* credit, a request owes the payment that credit: the settlements of a    *)
(* payment cover its credits and the requests that still owe one.  The     *)
(* invariant adds that a status kept for a revert is an unsettled one, and *)
(* that a request writes outside a transaction only in the mode without.   *)
(***************************************************************************)
RequestsOK ==
    \A r \in Requests : /\ pc[r] = "begin" => ctx[r].tx \in TxModes
                        /\ pc[r] \in {"fund", "credit", "markjob"}
                             => FALSE \in TxModes
                        /\ ctx[r].orig \in Unsettled

\* The requests that have completed payment p and not credited it yet.
Paying(p) == {r \in Requests : pc[r] \in {"fund", "credit"} /\ ctx[r].pay = p}

\* The settlements of payment p that no credit has followed yet.
Uncredited(p) ==
    overwritten[p] + (IF status[p] \in Settled THEN 1 ELSE 0) - credits[p]

CreditsOwed ==
    \A p \in Payments : /\ IsFiniteSet(Paying(p))
                        /\ Cardinality(Paying(p)) <= Uncredited(p)

SettlementInv ==
    /\ TypeOK
    /\ RequestsOK
    /\ OpenTransactionOwnsPayment
    /\ CreditsOwed
    /\ FALSE \notin TxModes => CompletedIsFunded

\* Request r goes on; it neither opens a transaction nor writes alone.
Moves(r) ==
    /\ pc[r] # "commit"
    /\ \E label \in PCs \ {"commit", "fund", "credit", "markjob"},
         locals \in Locals :
           /\ label = "begin" => locals.tx \in TxModes
           /\ locals.orig \in Unsettled
           /\ GotoWith(r, label, locals)

LEMMA UncreditedType ==
    ASSUME TypeOK, NEW p \in Payments
    PROVE  Uncredited(p) \in Int
  BY DEF TypeOK, Uncredited

\* Fewer requests that owe, and no fewer settlements left to credit.
LEMMA OwedKept ==
    ASSUME TypeOK, TypeOK', CreditsOwed,
           \A p \in Payments : /\ Paying(p)' \subseteq Paying(p)
                               /\ Uncredited(p)' >= Uncredited(p)
    PROVE  CreditsOwed'
  <1> SUFFICES ASSUME NEW p \in Payments
               PROVE  /\ IsFiniteSet(Paying(p)')
                      /\ Cardinality(Paying(p)') <= Uncredited(p)'
    BY DEF CreditsOwed
  <1>1. IsFiniteSet(Paying(p)) /\ Cardinality(Paying(p)) <= Uncredited(p)
    BY DEF CreditsOwed
  <1>2. /\ IsFiniteSet(Paying(p)')
        /\ Cardinality(Paying(p)') <= Cardinality(Paying(p))
    BY <1>1, FS_Subset
  <1>3. Cardinality(Paying(p)) \in Nat /\ Cardinality(Paying(p)') \in Nat
    BY <1>1, <1>2, FS_CardinalityType
  <1>4. Uncredited(p) \in Int /\ Uncredited(p)' \in Int
    BY DEF TypeOK, Uncredited
  <1> QED
    BY <1>1, <1>2, <1>3, <1>4

\* A request that moves owes no credit afterwards that it did not owe before.
LEMMA GotoKeepsPaying ==
    ASSUME TypeOK, NEW r \in Requests, NEW label \in PCs \ {"fund", "credit"},
           NEW locals \in Locals, GotoWith(r, label, locals)
    PROVE  \A p \in Payments : Paying(p)' \subseteq Paying(p)
  <1>1. pc'[r] \notin {"fund", "credit"}
    BY DEF GotoWith, TypeOK
  <1>2. \A q \in Requests \ {r} : pc'[q] = pc[q] /\ ctx'[q] = ctx[q]
    BY DEF GotoWith, TypeOK
  <1> QED
    BY <1>1, <1>2 DEF Paying

\* A move keeps what is known of requests; a request that takes no lock keeps
\* what is known of locks.
LEMMA MoveKeepsRequests ==
    ASSUME SettlementInv, NEW r \in Requests, Moves(r)
    PROVE  RequestsOK'
  <1>1. PICK label \in PCs \ {"commit", "fund", "credit", "markjob"},
             locals \in Locals :
               /\ label = "begin" => locals.tx \in TxModes
               /\ locals.orig \in Unsettled
               /\ GotoWith(r, label, locals)
    BY DEF Moves
  <1>2. /\ pc'[r] = label
        /\ label # "idle" => ctx'[r] = locals
        /\ ctx'[r].orig \in Unsettled
        /\ \A q \in Requests \ {r} : pc'[q] = pc[q] /\ ctx'[q] = ctx[q]
    BY <1>1
    DEF SettlementInv, GotoWith, TypeOK, NoLocals, LocalsFor, Unsettled
  <1> QED
    BY <1>1, <1>2 DEF SettlementInv, RequestsOK

LEMMA GotoKeepsLocks ==
    ASSUME SettlementInv, NEW r \in Requests, pc[r] # "commit",
           NEW label \in PCs \ {"commit"}, NEW locals \in Locals,
           GotoWith(r, label, locals), UNCHANGED lock,
           \A p \in Payments : lock[p] # NoRequest => status'[p] = status[p]
    PROVE  OpenTransactionOwnsPayment'
  <1>1. \A q \in Requests \ {r} : pc'[q] = pc[q] /\ ctx'[q] = ctx[q]
    BY DEF GotoWith, SettlementInv, TypeOK
  <1>2. pc[r] # "commit" /\ pc'[r] # "commit"
    BY DEF GotoWith, SettlementInv, TypeOK
  <1>3. \A p \in Payments : lock[p] # r
    BY <1>2, RequestAssumption DEF SettlementInv, OpenTransactionOwnsPayment
  <1>4. \A p \in Payments : lock[p] \in Requests \cup {NoRequest}
    BY DEF SettlementInv, TypeOK
  <1> QED
    BY <1>1, <1>2, <1>3, <1>4 DEF SettlementInv, OpenTransactionOwnsPayment

LEMMA MoveKeepsLocks ==
    ASSUME SettlementInv, NEW r \in Requests, Moves(r), UNCHANGED lock,
           \A p \in Payments : lock[p] # NoRequest => status'[p] = status[p]
    PROVE  /\ OpenTransactionOwnsPayment'
           /\ \A p \in Payments : Paying(p)' \subseteq Paying(p)
  BY GotoKeepsLocks, GotoKeepsPaying DEF Moves, SettlementInv

\* A write of any other status than COMPLETED settles no payment for nothing.
LEMMA WriteKeepsMoney ==
    ASSUME SettlementInv, NEW p \in Payments,
           NEW s \in PaymentStatus \ {"completed"},
           WriteStatus(p, s), UNCHANGED <<effectVars, found>>
    PROVE  /\ CompletedIsFunded => CompletedIsFunded'
           /\ \A q \in Payments : Uncredited(q)' >= Uncredited(q)
  <1>1. CompletedIsFunded => CompletedIsFunded'
    BY DEF SettlementInv, TypeOK, WriteStatus, StampStatus, CompletedIsFunded,
           Finds, effectVars
  <1>2. ASSUME NEW q \in Payments
        PROVE  Uncredited(q)' >= Uncredited(q)
    BY DEF SettlementInv, TypeOK, WriteStatus, StampStatus, Uncredited,
           effectVars, Settled
  <1> QED
    BY <1>1, <1>2

\* The kinds of step that leave the transaction and the credits alone.
LEMMA QuietStep ==
    ASSUME SettlementInv, TypeOK', NEW r \in Requests, Moves(r),
           UNCHANGED <<status, overwritten, forged, found, effectVars, lock>>
    PROVE  SettlementInv'
  <1>1. /\ RequestsOK' /\ OpenTransactionOwnsPayment'
        /\ \A p \in Payments : Paying(p)' \subseteq Paying(p)
    BY MoveKeepsRequests, MoveKeepsLocks
  <1>2. \A p \in Payments : Uncredited(p)' >= Uncredited(p)
    BY UncreditedType DEF SettlementInv, Uncredited, effectVars
  <1>3. CompletedIsFunded => CompletedIsFunded'
    BY DEF CompletedIsFunded, Finds, effectVars
  <1> QED
    BY <1>1, <1>2, <1>3, OwedKept DEF SettlementInv

LEMMA WriteStep ==
    ASSUME SettlementInv, TypeOK', NEW r \in Requests, Moves(r),
           NEW p \in Payments, NEW s \in PaymentStatus \ {"completed"},
           WriteStatus(p, s), UNCHANGED <<effectVars, lock, found>>
    PROVE  SettlementInv'
  <1>1. \A q \in Payments : lock[q] # NoRequest => status'[q] = status[q]
    BY DEF WriteStatus, StampStatus, Unlocked, SettlementInv, TypeOK
  <1>2. /\ RequestsOK' /\ OpenTransactionOwnsPayment'
        /\ \A q \in Payments : Paying(q)' \subseteq Paying(q)
    BY <1>1, MoveKeepsRequests, MoveKeepsLocks
  <1> QED
    BY <1>2, WriteKeepsMoney, OwedKept DEF SettlementInv

\* How the actions move.
LEMMA GotoWithMoves ==
    ASSUME SettlementInv, NEW r \in Requests, pc[r] # "commit",
           NEW label \in PCs \ {"commit", "fund", "credit", "markjob"},
           NEW locals \in Locals, label = "begin" => locals.tx \in TxModes,
           locals.orig \in Unsettled, GotoWith(r, label, locals)
    PROVE  Moves(r)
  BY DEF Moves

LEMMA GotoMoves ==
    ASSUME SettlementInv, NEW r \in Requests, pc[r] # "commit",
           NEW label \in PCs \ {"begin", "commit", "fund", "credit", "markjob"},
           Goto(r, label)
    PROVE  Moves(r)
  <1>1. ctx[r] \in Locals /\ ctx[r].orig \in Unsettled
    BY DEF SettlementInv, TypeOK, RequestsOK
  <1> QED
    BY <1>1, GotoWithMoves DEF Goto

LEMMA StartMoves ==
    ASSUME SettlementInv, NEW r \in Requests, NEW p \in Payments,
           NEW label \in PCs \ {"begin", "commit", "fund", "credit", "markjob"},
           NEW count \in Nat, Start(r, label, p, count)
    PROVE  Moves(r)
  <1> DEFINE locals == [LocalsFor(NoEvent, p, intent[p]) EXCEPT !.count = count]
  <1>1. locals \in Locals /\ locals.orig \in Unsettled
    <2>1. /\ LocalsFor(NoEvent, p, intent[p]) \in Locals
          /\ LocalsFor(NoEvent, p, intent[p]).orig \in Unsettled
      BY LocalsForType DEF SettlementInv, TypeOK, LocalsFor, Unsettled
    <2> QED
      BY <2>1 DEF Locals
  <1>2. pc[r] = "idle" /\ GotoWith(r, label, locals)
    BY DEF Start
  <1> HIDE DEF locals
  <1> QED
    BY <1>1, <1>2, GotoWithMoves

\* The labels completePayment and failPayment leave to.
LEMMA AfterMoves ==
    ASSUME NEW r \in Requests
    PROVE  {AfterCall(r), AfterThrow(r), AfterFail(r)}
             \subseteq PCs \ {"begin", "commit", "fund", "credit", "markjob"}
  BY DEF AfterCall, AfterThrow, AfterFail, PCs

LEMMA EnvironmentSettles ==
    ASSUME SettlementInv, TypeOK', Environment
    PROVE  SettlementInv'
  <1>1. CASE UNCHANGED <<dbVars, pc, ctx>>
    BY <1>1
    DEF SettlementInv, RequestsOK, OpenTransactionOwnsPayment, CompletedIsFunded,
        Finds, CreditsOwed, Paying, Uncredited, dbVars, payVars, effectVars
  <1>2. ASSUME NEW p \in Payments, SavePayment(p)
        PROVE  SettlementInv'
    <2>1. /\ WriteStatus(p, "pending")
          /\ UNCHANGED <<effectVars, lock, found, pc, ctx>>
      BY <1>2 DEF SavePayment, OnlyPayment
    <2>2. "pending" \in PaymentStatus \ {"completed"}
      BY DEF PaymentStatus
    <2>3. /\ CompletedIsFunded => CompletedIsFunded'
          /\ \A q \in Payments : Uncredited(q)' >= Uncredited(q)
      BY <2>1, <2>2, WriteKeepsMoney
    <2>4. \A q \in Payments : lock[q] # NoRequest => status'[q] = status[q]
      BY <2>1 DEF WriteStatus, StampStatus, Unlocked, SettlementInv, TypeOK
    <2>5. CreditsOwed'
      BY <2>1, <2>3, OwedKept DEF SettlementInv, Paying
    <2> QED
      BY <2>1, <2>3, <2>4, <2>5
      DEF SettlementInv, RequestsOK, OpenTransactionOwnsPayment
  <1>3. ASSUME NEW e \in Events, GoStale(e)
        PROVE  SettlementInv'
    BY <1>3
    DEF GoStale, SettlementInv, RequestsOK, OpenTransactionOwnsPayment,
        CompletedIsFunded, Finds, CreditsOwed, Paying, Uncredited, payVars,
        effectVars
  <1>4. ASSUME NEW p \in Payments, NEW d \in Vanishing, Vanish(p, d)
        PROVE  SettlementInv'
    <2>1. /\ UNCHANGED <<status, overwritten, forged, effectVars, lock, pc, ctx>>
          /\ \A q \in Payments : found'[q] \subseteq found[q]
      BY <1>4 DEF Vanish, SettlementInv, TypeOK
    <2>2. CompletedIsFunded => CompletedIsFunded'
      BY <2>1 DEF CompletedIsFunded, Finds, effectVars
    <2> QED
      BY <2>1, <2>2
      DEF SettlementInv, RequestsOK, OpenTransactionOwnsPayment, CreditsOwed,
          Paying,
          Uncredited, effectVars
  <1> QED
    BY <1>1, <1>2, <1>3, <1>4
    DEF Environment, CreateIntent, IntentSucceeds, IntentDeclined

LEMMA EventStepSettles ==
    ASSUME SettlementInv, TypeOK', NEW w \in Webhooks,
           \/ Insert(w) \/ Touch(w) \/ Ack(w) \/ Nack(w) \/ FailCheck(w)
           \/ \E e \in Events : Receive(w, e)
    PROVE  SettlementInv'
  <1>1. w \in Requests
    BY DEF Requests
  <1>2. UNCHANGED <<status, overwritten, forged, found, effectVars, lock>>
    BY DEF Insert, Touch, Ack, Nack, FailCheck, Receive, SetRecord, ReadOnly,
           dbVars, payVars
  <1>3. Moves(w)
    <2>1. CASE Insert(w) \/ Touch(w) \/ Ack(w) \/ Nack(w) \/ FailCheck(w)
      BY <1>1, <2>1, GotoMoves
      DEF Insert, Touch, Ack, Nack, FailCheck, Handler, PCs
    <2>2. ASSUME NEW e \in Events, Receive(w, e)
          PROVE  Moves(w)
      <3>1. /\ LocalsFor(e, e.payment, e.attempt) \in Locals
            /\ LocalsFor(e, e.payment, e.attempt).orig \in Unsettled
        BY LocalsForType DEF Events, LocalsFor, Unsettled
      <3> QED
        BY <1>1, <2>2, <3>1, GotoWithMoves DEF Receive, PCs
    <2> QED
      BY <2>1, <2>2
  <1> QED
    BY <1>1, <1>2, <1>3, QuietStep

LEMMA ClaimSettles ==
    ASSUME SettlementInv, TypeOK', NEW w \in Webhooks, Claim(w) \/ Revert(w)
    PROVE  SettlementInv'
  <1>1. w \in Requests /\ ctx[w] \in Locals /\ ctx[w].pay \in Payments
    BY DEF Requests, SettlementInv, TypeOK, Locals
  <1>2. CASE Claim(w) /\ Claimable(w)
    <2>1. status[ctx[w].pay] \in Unsettled \cap PaymentStatus
      BY <1>2 DEF Claimable, Unsettled, PaymentStatus
    <2>2. /\ [ctx[w] EXCEPT !.orig = status[ctx[w].pay]] \in Locals
          /\ [ctx[w] EXCEPT !.orig = status[ctx[w].pay]].orig \in Unsettled
      BY <1>1, <2>1 DEF Locals
    <2>3. Moves(w)
      BY <1>1, <1>2, <2>2, GotoWithMoves DEF Claim, PCs
    <2>4. "processing" \in PaymentStatus \ {"completed"}
      BY DEF PaymentStatus
    <2> QED
      BY <1>1, <1>2, <2>3, <2>4, WriteStep DEF Claim, OnlyPayment
  <1>3. CASE Claim(w) /\ ~Claimable(w)
    <2>1. Moves(w)
      BY <1>1, <1>3, GotoMoves DEF Claim, PCs
    <2> QED
      BY <1>1, <1>3, <2>1, QuietStep DEF Claim, ReadOnly, dbVars, payVars
  <1>4. CASE Revert(w)
    <2>1. Moves(w)
      BY <1>1, <1>4, GotoMoves DEF Revert, PCs
    <2>2. ctx[w].orig \in PaymentStatus \ {"completed"}
      BY <1>1 DEF SettlementInv, RequestsOK, Unsettled, PaymentStatus
    <2> QED
      BY <1>1, <1>4, <2>1, <2>2, WriteStep DEF Revert, OnlyPayment
  <1> QED
    BY <1>2, <1>3, <1>4

\* The transaction takes its payment, ...
LEMMA TakeLockSettles ==
    ASSUME SettlementInv, TypeOK', NEW r \in Requests, TakeLock(r)
    PROVE  SettlementInv'
  <1>1. ctx[r] \in Locals /\ ctx[r].pay \in Payments /\ pc[r] = "begin"
    BY DEF SettlementInv, TypeOK, Locals, TakeLock
  <1>2. CASE ~StillOpen(ctx[r].pay)
    <2>1. Moves(r)
      BY <1>1, <1>2, AfterMoves, GotoMoves DEF TakeLock
    <2> QED
      BY <1>2, <2>1, QuietStep DEF TakeLock, ReadOnly, dbVars, payVars
  <1>3. CASE StillOpen(ctx[r].pay)
    <2>1. /\ pc' = [pc EXCEPT ![r] = "commit"]
          /\ ctx' = [ctx EXCEPT ![r] = ctx[r]]
          /\ lock' = [lock EXCEPT ![ctx[r].pay] = r]
          /\ lock[ctx[r].pay] = NoRequest
          /\ UNCHANGED <<status, overwritten, forged, found, effectVars>>
      BY <1>3 DEF TakeLock, Goto, GotoWith, Unlocked, payVars
    <2>2. RequestsOK' /\ \A p \in Payments : Paying(p)' \subseteq Paying(p)
      BY <1>1, <2>1 DEF SettlementInv, RequestsOK, TypeOK, Paying
    <2>3. OpenTransactionOwnsPayment'
      BY <1>1, <1>3, <2>1, RequestAssumption
      DEF SettlementInv, OpenTransactionOwnsPayment, TypeOK, StillOpen
    <2>4. /\ CompletedIsFunded => CompletedIsFunded'
          /\ \A p \in Payments : Uncredited(p)' >= Uncredited(p)
      BY <2>1, UncreditedType
      DEF SettlementInv, CompletedIsFunded, Finds, Uncredited, effectVars
    <2> QED
      BY <2>2, <2>3, <2>4, OwedKept DEF SettlementInv
  <1> QED
    BY <1>2, <1>3

\* ... and commits: it credits and settles from an unsettled status.
LEMMA TakeEffectSettles ==
    ASSUME SettlementInv, TypeOK', NEW r \in Requests, TakeEffect(r),
           NEW label \in PCs \ {"begin", "commit", "fund", "credit", "markjob"},
           Goto(r, label)
    PROVE  SettlementInv'
  <1> DEFINE p == ctx[r].pay
  <1>1. p \in Payments /\ pc[r] = "commit"
    BY DEF SettlementInv, TypeOK, Locals, TakeEffect
  <1>2. lock[p] = r /\ status[p] \in Unsettled
    BY <1>1, RequestAssumption DEF SettlementInv, OpenTransactionOwnsPayment
  <1>3. /\ pc' = [pc EXCEPT ![r] = label]
        /\ \A q \in Requests : ctx'[q].orig \in Unsettled
        /\ \A q \in Requests \ {r} : ctx'[q] = ctx[q]
    BY DEF Goto, GotoWith, SettlementInv, RequestsOK, TypeOK, NoLocals,
           LocalsFor, Unsettled
  <1>4. RequestsOK' /\ \A q \in Payments : Paying(q)' \subseteq Paying(q)
    BY <1>3 DEF SettlementInv, RequestsOK, TypeOK, Paying
  <1>5. OpenTransactionOwnsPayment'
    <2>1. /\ lock' = [lock EXCEPT ![p] = NoRequest]
          /\ status' = [status EXCEPT ![p] = "completed"]
      BY DEF TakeEffect
    <2>2. pc'[r] # "commit"
      BY <1>3 DEF SettlementInv, TypeOK
    <2>3. ASSUME NEW q \in Requests, pc'[q] = "commit"
          PROVE  lock'[ctx'[q].pay] = q
      <3>1. q # r /\ pc[q] = "commit" /\ ctx'[q] = ctx[q]
        BY <1>3, <2>2, <2>3 DEF SettlementInv, TypeOK
      <3>2. lock[ctx[q].pay] = q
        BY <3>1 DEF SettlementInv, OpenTransactionOwnsPayment
      <3>3. ctx[q].pay \in Payments /\ ctx[q].pay # p
        BY <1>2, <3>1, <3>2 DEF SettlementInv, TypeOK, Locals
      <3> QED
        BY <2>1, <3>1, <3>2, <3>3 DEF SettlementInv, TypeOK
    <2>4. ASSUME NEW q \in Payments, lock'[q] # NoRequest
          PROVE  /\ pc'[lock'[q]] = "commit"
                 /\ ctx'[lock'[q]].pay = q
                 /\ status'[q] \in Unsettled
      <3>1. q # p /\ lock'[q] = lock[q] /\ status'[q] = status[q]
        BY <1>1, <2>1, <2>4 DEF SettlementInv, TypeOK
      <3>2. /\ lock[q] \in Requests
            /\ pc[lock[q]] = "commit"
            /\ ctx[lock[q]].pay = q
            /\ status[q] \in Unsettled
        BY <2>4, <3>1 DEF SettlementInv, OpenTransactionOwnsPayment, TypeOK
      <3>3. lock[q] # r
        BY <3>1, <3>2
      <3> QED
        BY <1>3, <3>1, <3>2, <3>3 DEF SettlementInv, TypeOK
    <2> QED
      BY <2>3, <2>4 DEF OpenTransactionOwnsPayment
  <1>6. CompletedIsFunded => CompletedIsFunded'
    <2> SUFFICES ASSUME CompletedIsFunded, NEW q \in Payments,
                        status'[q] = "completed", ~forged'[q],
                        Finds(q, {"contract"})'
                 PROVE  /\ funded'[q]
                        /\ Finds(q, {"freelancer"})' => credits'[q] > 0
                        /\ Finds(q, {"job"})' => contracted'[q]
      BY DEF CompletedIsFunded
    <2>1. ContractEffects(p) /\ found' = found
      BY DEF TakeEffect
    <2>2. CASE q = p
      <3>1. /\ funded'[p] = (funded[p] \/ Finds(p, {"contract"}))
            /\ contracted'[p] = (contracted[p] \/ Finds(p, {"contract", "job"}))
            /\ credits[p] \in Nat
            /\ Finds(p, {"contract", "freelancer"}) => credits'[p] = credits[p] + 1
        BY <1>1, <2>1 DEF ContractEffects, SettlementInv, TypeOK
      <3>2. /\ Finds(p, {"contract"})
            /\ Finds(q, {"freelancer"})' => Finds(p, {"contract", "freelancer"})
            /\ Finds(q, {"job"})' => Finds(p, {"contract", "job"})
        BY <2>1, <2>2 DEF Finds
      <3>3. funded'[q] /\ (Finds(q, {"job"})' => contracted'[q])
        BY <2>2, <3>1, <3>2
      <3>4. Finds(q, {"freelancer"})' => credits'[q] > 0
        BY <2>2, <3>1, <3>2
      <3> QED
        BY <3>3, <3>4
    <2>3. CASE q # p
      <3>1. /\ status[q] = "completed" /\ ~forged[q]
            /\ funded'[q] = funded[q]
            /\ contracted'[q] = contracted[q]
            /\ credits'[q] = credits[q]
        BY <1>1, <2>1, <2>3 DEF TakeEffect, ContractEffects, SettlementInv, TypeOK
      <3> QED
        BY <2>1, <3>1 DEF CompletedIsFunded, Finds
    <2> QED
      BY <2>2, <2>3
  <1>7. ASSUME NEW q \in Payments
        PROVE  Uncredited(q)' >= Uncredited(q)
    <2>1. /\ status' = [status EXCEPT ![p] = "completed"]
          /\ overwritten' = overwritten
      BY DEF TakeEffect
    <2>2. /\ credits[q] \in Nat /\ overwritten[q] \in Nat
          /\ \/ credits'[q] = credits[q]
             \/ q = p /\ credits'[q] = credits[q] + 1
      BY <1>1 DEF TakeEffect, ContractEffects, SettlementInv, TypeOK
    <2>3. CASE q = p
      BY <1>1, <1>2, <2>1, <2>2, <2>3
      DEF SettlementInv, TypeOK, Uncredited, Settled, Unsettled
    <2>4. CASE q # p
      BY <1>1, <2>1, <2>2, <2>4 DEF SettlementInv, TypeOK, Uncredited
    <2> QED
      BY <2>3, <2>4
  <1> QED
    BY <1>4, <1>5, <1>6, <1>7, OwedKept DEF SettlementInv

\* Without a transaction: the request that settles alone owes the credit, ...
LEMMA CompleteAloneSettles ==
    ASSUME SettlementInv, TypeOK', NEW r \in Requests, CompleteAlone(r)
    PROVE  SettlementInv'
  <1> DEFINE p == ctx[r].pay
  <1>1. ctx[r] \in Locals /\ p \in Payments /\ pc[r] = "begin"
    BY DEF SettlementInv, TypeOK, Locals, CompleteAlone
  <1>2. CASE ~StillOpen(p)
    <2>1. Moves(r)
      BY <1>1, <1>2, AfterMoves, GotoMoves DEF CompleteAlone
    <2> QED
      BY <1>2, <2>1, QuietStep DEF CompleteAlone, ReadOnly, dbVars, payVars
  <1>3. CASE StillOpen(p)
    <2>1. /\ GotoWith(r, "fund", ctx[r])
          /\ Unlocked(p)
          /\ status' = [status EXCEPT ![p] = "completed"]
          /\ UNCHANGED <<overwritten, effectVars, lock>>
      BY <1>1, <1>3
      DEF CompleteAlone, WriteStatus, StampStatus, Goto, OnlyPayment,
          SettlementInv, TypeOK,
          StillOpen, Unsettled, Settled
    <2>2. FALSE \in TxModes
      BY <1>1, SwitchAssumption
      DEF CompleteAlone, SettlementInv, RequestsOK, Locals
    <2>3. /\ pc'[r] = "fund" /\ ctx'[r] = ctx[r]
          /\ \A q \in Requests \ {r} : pc'[q] = pc[q] /\ ctx'[q] = ctx[q]
      BY <2>1 DEF GotoWith, SettlementInv, TypeOK
    <2>4. RequestsOK'
      BY <2>2, <2>3 DEF SettlementInv, RequestsOK
    <2>5. OpenTransactionOwnsPayment'
      <3>1. \A q \in Payments : lock[q] # NoRequest => status'[q] = status[q]
        BY <2>1 DEF Unlocked, SettlementInv, TypeOK
      <3> QED
        BY <1>1, <2>1, <3>1, GotoKeepsLocks DEF PCs
    <2>6. ASSUME NEW q \in Payments
          PROVE  /\ IsFiniteSet(Paying(q)')
                 /\ Cardinality(Paying(q)') <= Uncredited(q)'
      <3>1. IsFiniteSet(Paying(q)) /\ Cardinality(Paying(q)) <= Uncredited(q)
        BY DEF SettlementInv, CreditsOwed
      <3>2. Uncredited(q) \in Int /\ Cardinality(Paying(q)) \in Nat
        BY <3>1, UncreditedType, FS_CardinalityType DEF SettlementInv
      <3>3. CASE q # p
        <4>1. Paying(q)' = Paying(q)
          BY <1>1, <2>3, <3>3 DEF Paying
        <4>2. Uncredited(q)' = Uncredited(q)
          BY <1>1, <2>1, <3>3 DEF Uncredited, effectVars, SettlementInv, TypeOK
        <4> QED
          BY <3>1, <4>1, <4>2
      <3>4. CASE q = p
        <4>1. Paying(q)' = Paying(q) \cup {r} /\ r \notin Paying(q)
          BY <1>1, <2>3, <3>4 DEF Paying
        <4>2. /\ IsFiniteSet(Paying(q)')
              /\ Cardinality(Paying(q)') = Cardinality(Paying(q)) + 1
          BY <3>1, <4>1, FS_AddElement
        <4>3. Uncredited(q)' = Uncredited(q) + 1
          BY <1>1, <1>3, <2>1, <3>4
          DEF Uncredited, effectVars, SettlementInv, TypeOK, StillOpen, Settled,
              Unsettled
        <4> QED
          BY <3>1, <3>2, <4>2, <4>3
      <3> QED
        BY <3>3, <3>4
    <2> QED
      BY <2>2, <2>4, <2>5, <2>6 DEF SettlementInv, CreditsOwed
  <1> QED
    BY <1>2, <1>3

\* ... and the credit is the one it owed; funding and the job pay nothing.
LEMMA CreditAloneSettles ==
    ASSUME SettlementInv, TypeOK', NEW r \in Requests, CreditAlone(r)
    PROVE  SettlementInv'
  <1> DEFINE p == ctx[r].pay
  <1>1. ctx[r] \in Locals /\ p \in Payments /\ pc[r] = "credit"
    BY DEF SettlementInv, TypeOK, Locals, CreditAlone
  <1>2. PICK label \in PCs \ {"begin", "commit", "fund", "credit"} :
             GotoWith(r, label, ctx[r])
    BY AfterMoves DEF CreditAlone, Goto, PCs
  <1>0. /\ \A q \in Payments \ {p} : credits'[q] = credits[q]
        /\ credits'[p] <= credits[p] + 1
        /\ UNCHANGED <<status, overwritten, lock>>
    BY <1>1 DEF CreditAlone, payVars, SettlementInv, TypeOK
  <1>3. FALSE \in TxModes
    BY <1>1 DEF SettlementInv, RequestsOK
  <1>4. /\ pc'[r] = label /\ ctx'[r].orig \in Unsettled
        /\ \A q \in Requests \ {r} : pc'[q] = pc[q] /\ ctx'[q] = ctx[q]
    BY <1>2
    DEF GotoWith, SettlementInv, RequestsOK, TypeOK, NoLocals, LocalsFor,
        Unsettled
  <1>5. RequestsOK'
    BY <1>3, <1>4 DEF SettlementInv, RequestsOK
  <1>6. OpenTransactionOwnsPayment'
    BY <1>0, <1>1, <1>2, GotoKeepsLocks
  <1>7. ASSUME NEW q \in Payments
        PROVE  /\ IsFiniteSet(Paying(q)')
               /\ Cardinality(Paying(q)') <= Uncredited(q)'
    <2>1. IsFiniteSet(Paying(q)) /\ Cardinality(Paying(q)) <= Uncredited(q)
      BY DEF SettlementInv, CreditsOwed
    <2>2. Uncredited(q) \in Int /\ Cardinality(Paying(q)) \in Nat
      BY <2>1, UncreditedType, FS_CardinalityType DEF SettlementInv
    <2>3. CASE q # p
      <3>1. Paying(q)' = Paying(q)
        BY <1>1, <1>4, <2>3 DEF Paying
      <3>2. Uncredited(q)' = Uncredited(q)
        BY <1>0, <2>3 DEF Uncredited
      <3> QED
        BY <2>1, <3>1, <3>2
    <2>4. CASE q = p
      <3>1. Paying(q)' = Paying(q) \ {r} /\ r \in Paying(q)
        BY <1>1, <1>4, <2>4 DEF Paying
      <3>2. /\ IsFiniteSet(Paying(q)')
            /\ Cardinality(Paying(q)') = Cardinality(Paying(q)) - 1
        BY <2>1, <3>1, FS_RemoveElement
      <3>3. Uncredited(q)' >= Uncredited(q) - 1
        <4>1. /\ credits[q] \in Nat /\ overwritten[q] \in Nat
              /\ credits'[q] \in Nat /\ credits'[q] <= credits[q] + 1
          BY <1>0, <2>4 DEF SettlementInv, TypeOK
        <4> QED
          BY <1>0, <4>1 DEF Uncredited
      <3>4. Uncredited(q)' \in Int
        BY UncreditedType DEF TypeOK, Uncredited
      <3> QED
        BY <2>1, <2>2, <3>2, <3>3, <3>4
    <2> QED
      BY <2>3, <2>4
  <1> QED
    BY <1>3, <1>5, <1>6, <1>7 DEF SettlementInv, CreditsOwed

LEMMA AloneSettles ==
    ASSUME SettlementInv, TypeOK', NEW r \in Requests,
           FundAlone(r) \/ MarkJobAlone(r)
    PROVE  SettlementInv'
  <1>1. /\ ctx[r] \in Locals /\ ctx[r].pay \in Payments
        /\ pc[r] \in {"fund", "markjob"}
    BY DEF SettlementInv, TypeOK, Locals, FundAlone, MarkJobAlone
  <1>2. PICK label \in PCs \ {"begin", "commit", "fund"} :
             /\ GotoWith(r, label, ctx[r])
             /\ label = "credit" => pc[r] = "fund"
    BY AfterMoves DEF FundAlone, MarkJobAlone, Goto, PCs
  <1>3. UNCHANGED <<status, overwritten, credits, lock>>
    BY DEF FundAlone, MarkJobAlone, payVars
  <1>4. FALSE \in TxModes
    BY <1>1 DEF SettlementInv, RequestsOK
  <1>5. /\ pc'[r] = label /\ (label # "idle" => ctx'[r] = ctx[r])
        /\ ctx'[r].orig \in Unsettled
        /\ \A q \in Requests \ {r} : pc'[q] = pc[q] /\ ctx'[q] = ctx[q]
    BY <1>2
    DEF GotoWith, SettlementInv, RequestsOK, TypeOK, NoLocals, LocalsFor,
        Unsettled
  <1>6. RequestsOK'
    BY <1>4, <1>5 DEF SettlementInv, RequestsOK
  <1>7. OpenTransactionOwnsPayment'
    BY <1>1, <1>2, <1>3, GotoKeepsLocks
  <1>8. \A p \in Payments : Paying(p)' \subseteq Paying(p)
    BY <1>2, <1>5 DEF Paying
  <1>9. \A p \in Payments : Uncredited(p)' >= Uncredited(p)
    BY <1>3, UncreditedType DEF SettlementInv, Uncredited
  <1> QED
    BY <1>4, <1>6, <1>7, <1>8, <1>9, OwedKept DEF SettlementInv

\* A request that dies or fails inside its transaction gives the payment up.
LEMMA AbortSettles ==
    ASSUME SettlementInv, TypeOK', NEW r \in Requests,
           NEW label \in PCs \ {"begin", "commit", "fund", "credit", "markjob"},
           Goto(r, label),
           AbortTransaction(r),
           UNCHANGED <<status, overwritten, forged, found, effectVars>>
    PROVE  SettlementInv'
  <1>1. /\ \A q \in Requests \ {r} : pc'[q] = pc[q] /\ ctx'[q] = ctx[q]
        /\ pc'[r] = label
        /\ ctx'[r].orig \in Unsettled
    BY DEF Goto, GotoWith, SettlementInv, TypeOK, RequestsOK, NoLocals, LocalsFor,
           Unsettled
  <1>2. RequestsOK' /\ \A p \in Payments : Paying(p)' \subseteq Paying(p)
    BY <1>1 DEF SettlementInv, RequestsOK, Paying
  <1>3. \A p \in Payments : lock[p] \in Requests \cup {NoRequest}
    BY DEF SettlementInv, TypeOK
  <1>4. \A q \in Requests : ctx[q].pay \in Payments
    BY DEF SettlementInv, TypeOK, Locals
  <1>5. OpenTransactionOwnsPayment'
    BY <1>1, <1>3, <1>4, RequestAssumption
    DEF AbortTransaction, SettlementInv, OpenTransactionOwnsPayment
  <1>6. CompletedIsFunded => CompletedIsFunded'
    BY DEF CompletedIsFunded, Finds, effectVars
  <1>7. \A p \in Payments : Uncredited(p)' >= Uncredited(p)
    BY UncreditedType DEF SettlementInv, Uncredited, effectVars
  <1> QED
    BY <1>2, <1>5, <1>6, <1>7, OwedKept DEF SettlementInv

LEMMA CompleteStepSettles ==
    ASSUME SettlementInv, TypeOK', NEW r \in Requests,
           CompleteStep(r)
    PROVE  SettlementInv'
  <1>1. ctx[r] \in Locals /\ ctx[r].orig \in Unsettled
    BY DEF SettlementInv, TypeOK, RequestsOK
  <1>2. CASE Load(r)
    <2>1. ASSUME NEW tx \in TxModes
          PROVE  /\ Loaded(r, tx) \in Locals
                 /\ Loaded(r, tx).tx \in TxModes
                 /\ Loaded(r, tx).orig \in Unsettled
      BY <1>1, LoadedLocals
    <2>2. Moves(r)
      <3>1. pc[r] # "commit"
        BY <1>2 DEF Load
      <3>2. ASSUME NEW tx \in TxModes,
                   GotoWith(r, "begin", Loaded(r, tx))
            PROVE  Moves(r)
        BY <2>1, <3>1, <3>2, GotoWithMoves DEF PCs
      <3>3. CASE Goto(r, AfterCall(r)) \/ Goto(r, AfterThrow(r))
        BY <3>1, <3>3, AfterMoves, GotoMoves
      <3> QED
        BY <1>2, <3>2, <3>3 DEF Load
    <2> QED
      BY <1>2, <2>2, QuietStep DEF Load, ReadOnly, dbVars, payVars
  <1>3. CASE TakeLock(r)
    BY <1>3, TakeLockSettles
  <1>4. CASE Conflict(r)
    <2>1. /\ [ctx[r] EXCEPT !.conflicts = @ + 1] \in Locals
          /\ [ctx[r] EXCEPT !.conflicts = @ + 1].orig \in Unsettled
      BY <1>1 DEF Locals
    <2>2. Moves(r)
      BY <1>4, <2>1, AfterMoves, GotoMoves, GotoWithMoves DEF Conflict, PCs
    <2> QED
      BY <1>4, <2>2, QuietStep DEF Conflict, ReadOnly, dbVars, payVars
  <1>5. CASE Commit(r)
    BY <1>5, AfterMoves, TakeEffectSettles DEF Commit
  <1>7. CASE AbortUnpaid(r)
    BY <1>7, AfterMoves, AbortSettles DEF AbortUnpaid, payVars
  <1>6. CASE \/ CompleteAlone(r) \/ FundAlone(r) \/ CreditAlone(r)
             \/ MarkJobAlone(r)
    BY <1>6, CompleteAloneSettles, CreditAloneSettles, AloneSettles
  <1> QED
    BY <1>2, <1>3, <1>4, <1>5, <1>6, <1>7 DEF CompleteStep

LEMMA FailStepSettles ==
    ASSUME SettlementInv, TypeOK', NEW r \in Requests, FailStep(r)
    PROVE  SettlementInv'
  <1>1. /\ ctx[r] \in Locals
        /\ ctx[r].orig \in Unsettled
        /\ ctx[r].pay \in Payments
        /\ retryCount[ctx[r].pay] \in Nat
    BY DEF SettlementInv, TypeOK, RequestsOK, Locals
  <1>2. CASE FailLoad(r)
    <2>1. /\ [ctx[r] EXCEPT !.count = retryCount[ctx[r].pay]] \in Locals
          /\ [ctx[r] EXCEPT !.count = retryCount[ctx[r].pay]].orig \in Unsettled
      BY <1>1 DEF Locals
    <2>2. Moves(r)
      BY <1>2, <2>1, AfterMoves, GotoMoves, GotoWithMoves DEF FailLoad, PCs
    <2> QED
      BY <1>2, <2>2, QuietStep DEF FailLoad, ReadOnly, dbVars, payVars
  <1>3. CASE FailWrite(r)
    <2>1. Moves(r)
      BY <1>3, AfterMoves, GotoMoves DEF FailWrite
    <2>2. "failed" \in PaymentStatus \ {"completed"}
      BY DEF PaymentStatus
    <2> QED
      BY <1>1, <1>3, <2>1, <2>2, WriteStep DEF FailWrite, OnlyPayment
  <1> QED
    BY <1>2, <1>3 DEF FailStep

LEMMA CronSettles ==
    ASSUME SettlementInv, TypeOK', NEW c \in Crons, NEW p \in Payments,
           \/ CronRetrieve(c) \/ BalanceCredit(c) \/ BalanceSave(c)
           \/ BalanceError(c) \/ UserNotFound(c)
           \/ CronList(c, p) \/ BalanceList(c, p)
    PROVE  SettlementInv'
  <1>1. c \in Requests
    BY DEF Requests
  <1>2. UNCHANGED <<status, overwritten, forged, found, effectVars, lock>>
    BY DEF CronRetrieve, BalanceCredit, BalanceSave, BalanceError, UserNotFound,
           CountTry, CronList, BalanceList, ReadOnly, dbVars, payVars
  <1>3. Moves(c)
    <2>1. CASE \/ CronRetrieve(c) \/ BalanceCredit(c) \/ BalanceSave(c)
               \/ BalanceError(c) \/ UserNotFound(c)
      BY <1>1, <2>1, GotoMoves
      DEF CronRetrieve, Reconcile, BalanceCredit, BalanceSave, BalanceError,
          UserNotFound, CountTry, PCs
    <2>2. CASE CronList(c, p) \/ BalanceList(c, p)
      <3>1. PICK label \in {"retrieve", "fbucredit"}, count \in Nat :
                 Start(c, label, p, count)
        BY <2>2 DEF CronList, BalanceList, SettlementInv, TypeOK
      <3> QED
        BY <1>1, <3>1, StartMoves DEF PCs
    <2> QED
      BY <2>1, <2>2
  <1> QED
    BY <1>1, <1>2, <1>3, QuietStep

LEMMA UserWriteSettles ==
    ASSUME SettlementInv, TypeOK', NEW u \in Users,
           NEW label \in PCs \ {"commit"},
           NEW s \in PaymentStatus \ {"completed"},
           NEW next \in PCs \ {"begin", "commit", "fund", "credit", "markjob"},
           UserWrite(u, label, s, next)
    PROVE  SettlementInv'
  <1>1. u \in Requests /\ ctx[u].pay \in Payments
    BY DEF Requests, SettlementInv, TypeOK, Locals
  <1>2. Moves(u)
    BY <1>1, GotoMoves DEF UserWrite
  <1> QED
    BY <1>1, <1>2, WriteStep DEF UserWrite, OnlyPayment

LEMMA UserSettles ==
    ASSUME SettlementInv, TypeOK', NEW u \in Users, NEW p \in Payments,
           \/ ProcessWrite(u) \/ RefundWrite(u) \/ StaleCancel(u) \/ StaleSave(u)
           \/ RetryWrite(u) \/ RetryIntent(u) \/ RetrySave(u) \/ RetryFail(u)
           \/ UserStart(u, p)
    PROVE  SettlementInv'
  <1>1. u \in Requests /\ ctx[u] \in Locals /\ ctx[u].orig \in Unsettled
    BY DEF Requests, SettlementInv, TypeOK, RequestsOK
  <1>2. CASE \/ ProcessWrite(u) \/ RefundWrite(u) \/ StaleSave(u)
             \/ RetryWrite(u) \/ RetrySave(u) \/ RetryFail(u)
    BY <1>2, UserWriteSettles
    DEF ProcessWrite, RefundWrite, StaleSave, RetryWrite, RetrySave, RetryFail,
        PaymentStatus, PCs
  <1>3. CASE RetryIntent(u)
    <2>1. ASSUME NEW n \in Attempts
          PROVE  /\ [ctx[u] EXCEPT !.intent = n] \in Locals
                 /\ [ctx[u] EXCEPT !.intent = n].orig \in Unsettled
      BY <1>1 DEF Locals
    <2>2. pc[u] # "commit"
      BY <1>3 DEF RetryIntent
    <2>3. ASSUME NEW n \in Attempts,
                 GotoWith(u, "retrysave", [ctx[u] EXCEPT !.intent = n])
          PROVE  Moves(u)
      BY <1>1, <2>1, <2>2, <2>3, GotoWithMoves DEF PCs
    <2>4. ASSUME Goto(u, "retryfail")
          PROVE  Moves(u)
      BY <1>1, <2>2, <2>4, GotoMoves DEF PCs
    <2> QED
      BY <1>1, <1>3, <2>3, <2>4, QuietStep DEF RetryIntent, dbVars, payVars
  <1>4. CASE StaleCancel(u)
    <2>1. Moves(u)
      BY <1>1, <1>4, GotoMoves DEF StaleCancel, PCs
    <2> QED
      BY <1>1, <1>4, <2>1, QuietStep DEF StaleCancel, dbVars, payVars
  <1>5. CASE UserStart(u, p)
    <2>1. PICK label \in {"load", "failload", "procwrite", "refundwrite",
                          "stalecancel", "retrywrite"}, count \in Nat :
               Start(u, label, p, count)
      BY <1>5 DEF UserStart, SettlementInv, TypeOK
    <2>2. Moves(u)
      BY <1>1, <2>1, StartMoves DEF PCs
    <2> QED
      BY <1>1, <1>5, <2>2, QuietStep DEF UserStart, ReadOnly, dbVars, payVars
  <1> QED
    BY <1>2, <1>3, <1>4, <1>5

\* An admin who writes COMPLETED by hand forges it.
LEMMA UpdatePaymentSettles ==
    ASSUME SettlementInv, TypeOK', NEW u \in Users, NEW p \in Payments,
           NEW s \in PaymentStatus, NEW n \in Attempts,
           NEW count \in 0 .. RetryLimit, UpdatePayment(u, p, s, n, count)
    PROVE  SettlementInv'
  <1>1. /\ StampStatus(p, s)
        /\ forged' = [forged EXCEPT ![p] =
                        s = "completed" /\ (status[p] = "completed" => @)]
        /\ UNCHANGED <<effectVars, lock, found, pc, ctx>>
    BY DEF UpdatePayment
  <1>2. CompletedIsFunded => CompletedIsFunded'
    BY <1>1
    DEF StampStatus, SettlementInv, TypeOK, CompletedIsFunded, Finds, effectVars
  <1>3. \A q \in Payments : Uncredited(q)' >= Uncredited(q)
    BY <1>1 DEF StampStatus, SettlementInv, TypeOK, Uncredited, effectVars
  <1>4. CreditsOwed'
    BY <1>1, <1>3, OwedKept DEF SettlementInv, Paying
  <1>5. \A q \in Payments : lock[q] # NoRequest => status'[q] = status[q]
    BY <1>1 DEF StampStatus, Unlocked, SettlementInv, TypeOK
  <1> QED
    BY <1>1, <1>2, <1>4, <1>5
    DEF SettlementInv, RequestsOK, OpenTransactionOwnsPayment

LEMMA FailureSettles ==
    ASSUME SettlementInv, TypeOK', NEW r \in Requests,
           CompleteError(r) \/ LoseCommit(r) \/ StepError(r) \/ Crash(r)
    PROVE  SettlementInv'
  <1>1. CASE CompleteError(r)
    BY <1>1, AfterMoves, AbortSettles DEF CompleteError, payVars
  <1>2. CASE StepError(r)
    <2>1. Moves(r)
      BY <1>2, AfterMoves, GotoMoves DEF StepError, PCs
    <2> QED
      BY <1>2, <2>1, QuietStep DEF StepError, dbVars, payVars
  <1>3. CASE Crash(r)
    BY <1>3, AbortSettles DEF Crash, PCs, payVars
  <1>4. CASE LoseCommit(r)
    BY <1>4, AfterMoves, TakeEffectSettles DEF LoseCommit
  <1> QED
    BY <1>1, <1>2, <1>3, <1>4

LEMMA NextSettles == SettlementInv /\ [Next]_vars => SettlementInv'
  <1> SUFFICES ASSUME SettlementInv, [Next]_vars PROVE SettlementInv'
    OBVIOUS
  <1>0. TypeOK'
    BY NextType DEF SettlementInv
  <1>1. CASE Environment
    BY <1>0, <1>1, EnvironmentSettles
  <1>2. ASSUME NEW w \in Webhooks, WebhookStep(w)
        PROVE  SettlementInv'
    BY <1>0, <1>2, EventStepSettles, ClaimSettles, CompleteStepSettles,
       FailStepSettles
    DEF WebhookStep, Requests
  <1>3. ASSUME NEW w \in Webhooks, NEW e \in emitted, Receive(w, e)
        PROVE  SettlementInv'
    BY <1>0, <1>3, EventStepSettles DEF SettlementInv, TypeOK
  <1>4. ASSUME NEW c \in Crons, NEW p \in Payments,
               \/ CronStep(c) \/ BalanceError(c)
               \/ CronList(c, p) \/ BalanceList(c, p)
        PROVE  SettlementInv'
    BY <1>0, <1>4, CronSettles, CompleteStepSettles, FailStepSettles
    DEF CronStep, Requests
  <1>5. ASSUME NEW u \in Users, NEW p \in Payments,
               \/ UserStep(u) \/ UserStart(u, p)
               \/ \E s \in PaymentStatus, n \in Attempts,
                       count \in 0 .. RetryLimit :
                     UpdatePayment(u, p, s, n, count)
        PROVE  SettlementInv'
    BY <1>0, <1>5, UserSettles, UpdatePaymentSettles, CompleteStepSettles,
       FailStepSettles
    DEF UserStep, Requests
  <1>6. ASSUME NEW r \in Requests,
               CompleteError(r) \/ LoseCommit(r) \/ StepError(r) \/ Crash(r)
        PROVE  SettlementInv'
    BY <1>0, <1>6, FailureSettles
  <1>7. CASE UNCHANGED vars
    BY <1>0, <1>7
    DEF vars, dbVars, payVars, effectVars, SettlementInv, RequestsOK,
        OpenTransactionOwnsPayment, CompletedIsFunded, Finds, CreditsOwed, Paying,
        Uncredited
  <1>8. PICK p \in Payments : TRUE
    BY PaymentsAssumption
  <1> QED
    BY <1>1, <1>2, <1>3, <1>4, <1>5, <1>6, <1>7, <1>8 DEF Next

LEMMA InitSettles == Init => SettlementInv
  <1> SUFFICES ASSUME Init PROVE SettlementInv
    OBVIOUS
  <1>1. TypeOK
    BY InitType
  <1>2. RequestsOK /\ OpenTransactionOwnsPayment /\ CompletedIsFunded
    BY DEF Init, RequestsOK, OpenTransactionOwnsPayment, CompletedIsFunded,
           NoLocals, LocalsFor, Unsettled
  <1>3. ASSUME NEW p \in Payments
        PROVE  IsFiniteSet(Paying(p)) /\ Cardinality(Paying(p)) <= Uncredited(p)
    <2>1. Paying(p) = {} /\ Uncredited(p) = 0
      BY <1>3 DEF Init, Paying, Uncredited, Settled
    <2> QED
      BY <2>1, FS_EmptySet
  <1> QED
    BY <1>1, <1>2, <1>3 DEF SettlementInv, CreditsOwed

LEMMA SettlementInvariant == Spec => []SettlementInv
  BY InitSettles, NextSettles, PTL DEF Spec

\* With transactions or without, beside any other requests, errors and crashes:
\* completePayment's transaction owns its payment from its first write to its
\* commit.
THEOREM TransactionsOwnPayments == Spec => []OpenTransactionOwnsPayment
  <1>1. SettlementInv => OpenTransactionOwnsPayment
    BY DEF SettlementInv
  <1> QED
    BY <1>1, SettlementInvariant, PTL

\* With transactions or without, no payment is credited more often than it was
\* settled.
THEOREM NoCreditWithoutSettlement == Spec => []CreditsFollowSettlements
  <1>1. ASSUME SettlementInv, NEW p \in Payments
        PROVE  credits[p] <= overwritten[p]
                               + (IF status[p] \in Settled THEN 1 ELSE 0)
    <2>1. /\ Cardinality(Paying(p)) \in Nat
          /\ Cardinality(Paying(p)) <= Uncredited(p)
      BY <1>1, FS_CardinalityType DEF SettlementInv, CreditsOwed
    <2> QED
      BY <1>1, <2>1, UncreditedType DEF SettlementInv, TypeOK, Uncredited
  <1>2. SettlementInv => CreditsFollowSettlements
    BY <1>1 DEF CreditsFollowSettlements
  <1> QED
    BY <1>2, SettlementInvariant, PTL

\* Where transactions are available, a payment that reads COMPLETED by the code's
\* own hand, and finds its contract, has funded it, and has credited the
\* freelancer and contracted the job it finds: whatever documents vanish, admins
\* edit, and commits throw after they took effect.
THEOREM CompletedPaymentsAreFunded ==
    ASSUME TxModes = {TRUE}
    PROVE  Spec => []CompletedIsFunded
  <1>1. SettlementInv => CompletedIsFunded
    BY DEF SettlementInv
  <1> QED
    BY <1>1, SettlementInvariant, PTL

-----------------------------------------------------------------------------
(***************************************************************************)
(* Collected money, in either mode and for any constants.  A webhook or a  *)
(* cron request completes a payment only for an intent that has succeeded, *)
(* because the fact travels with it: from Stripe's answer or the event, by *)
(* way of the locals, to completePayment.  Bears says what a request at a  *)
(* label must carry, of Stripe's statuses and the cron's increments; a     *)
(* success is for good and an increment is never taken back, so what was   *)
(* carried once stays true.                                                *)
(***************************************************************************)
Collected(l, statuses) == statuses[l.pay][l.intent] = "succeeded"

\* The labels at which a request carries a fact.
Carrying == {"insert", "touch", "claim", "fbusave"} \cup Completing

Bears(r, label, l, statuses, increments) ==
    /\ label = "fbusave" => increments[l.pay] > 0
    /\ r \in Webhooks /\ label \in {"insert", "touch"} =>
         /\ l.event \in Events
         /\ l.event.type \in SuccessTypes => Collected(l, statuses)
    /\ r \in Webhooks \cup Crons /\ label \in {"claim"} \cup Completing =>
         Collected(l, statuses)

AllBear == \A r \in Requests : Bears(r, pc[r], ctx[r], stripe, compensated)

\* An event of a success tells the truth.
EventsTrue ==
    \A e \in emitted :
        e.type \in SuccessTypes => stripe[e.payment][e.attempt] = "succeeded"

CollectedInv == TypeOK /\ EventsTrue /\ AllBear /\ CompletedUpdateIsPaid

\* A success and an increment are for good.
MoneyStays ==
    /\ \A p \in Payments, n \in Attempts :
         stripe[p][n] = "succeeded" => stripe'[p][n] = "succeeded"
    /\ \A p \in Payments : compensated'[p] >= compensated[p]

LEMMA StillBears ==
    ASSUME TypeOK, TypeOK', MoneyStays, NEW r, NEW label, NEW l \in Locals,
           Bears(r, label, l, stripe, compensated)
    PROVE  Bears(r, label, l, stripe', compensated')
  <1>1. l.pay \in Payments /\ l.intent \in Attempts
    BY DEF Locals
  <1>2. compensated[l.pay] \in Nat /\ compensated'[l.pay] \in Nat
    BY <1>1 DEF TypeOK
  <1> QED
    BY <1>1, <1>2 DEF MoneyStays, Bears, Collected

LEMMA FreeBears ==
    ASSUME NEW r, NEW label, label \notin Carrying, NEW l, NEW statuses,
           NEW increments
    PROVE  Bears(r, label, l, statuses, increments)
  BY DEF Bears, Carrying

\* A request that goes on, bearing what its next step needs.
LEMMA MoveCollects ==
    ASSUME CollectedInv, TypeOK', MoneyStays, EventsTrue', CompletedUpdateIsPaid',
           NEW r \in Requests, NEW label, NEW l \in Locals,
           GotoWith(r, label, l), Bears(r, label, l, stripe', compensated')
    PROVE  CollectedInv'
  <1>1. ASSUME NEW q \in Requests
        PROVE  Bears(q, pc'[q], ctx'[q], stripe', compensated')
    <2>1. CASE q # r
      <3>1. pc'[q] = pc[q] /\ ctx'[q] = ctx[q] /\ ctx[q] \in Locals
        BY <2>1 DEF GotoWith, CollectedInv, TypeOK
      <3>2. Bears(q, pc[q], ctx[q], stripe, compensated)
        BY DEF CollectedInv, AllBear
      <3> QED
        BY <3>1, <3>2, StillBears DEF CollectedInv
    <2>2. CASE q = r /\ label # "idle"
      <3>1. pc'[q] = label /\ ctx'[q] = l
        BY <2>2 DEF GotoWith, CollectedInv, TypeOK
      <3> QED
        BY <2>2, <3>1
    <2>3. CASE q = r /\ label = "idle"
      <3>1. pc'[q] = "idle"
        BY <2>3 DEF GotoWith, CollectedInv, TypeOK
      <3>2. "idle" \notin Carrying
        BY DEF Carrying, Completing
      <3> QED
        BY <3>1, <3>2, FreeBears
    <2> QED
      BY <2>1, <2>2, <2>3
  <1>2. AllBear'
    BY <1>1 DEF AllBear
  <1> QED
    BY <1>2 DEF CollectedInv

LEMMA GotoCollects ==
    ASSUME CollectedInv, TypeOK', MoneyStays, EventsTrue', CompletedUpdateIsPaid',
           NEW r \in Requests, NEW label, Goto(r, label),
           Bears(r, label, ctx[r], stripe', compensated')
    PROVE  CollectedInv'
  <1>1. ctx[r] \in Locals
    BY DEF CollectedInv, TypeOK
  <1> QED
    BY <1>1, MoveCollects DEF Goto

\* A step that leaves Stripe, the events and the balance cron's documents alone.
Untouched == UNCHANGED <<stripe, emitted, compensated, fbu>>

LEMMA UntouchedStays ==
    ASSUME CollectedInv, Untouched
    PROVE  MoneyStays /\ EventsTrue' /\ CompletedUpdateIsPaid'
  BY DEF Untouched, CollectedInv, TypeOK, MoneyStays, EventsTrue,
         CompletedUpdateIsPaid

\* A step of nobody, or of an admin, that leaves them alone.
LEMMA RestCollects ==
    ASSUME CollectedInv, TypeOK', Untouched, UNCHANGED <<pc, ctx>>
    PROVE  CollectedInv'
  BY DEF Untouched, CollectedInv, EventsTrue, AllBear, CompletedUpdateIsPaid

LEMMA FreeGoto ==
    ASSUME CollectedInv, TypeOK', Untouched, NEW r \in Requests, NEW label,
           label \notin Carrying, Goto(r, label)
    PROVE  CollectedInv'
  BY UntouchedStays, FreeBears, GotoCollects

\* The labels completePayment and failPayment leave to carry nothing.
LEMMA AfterFree ==
    ASSUME NEW r \in Requests
    PROVE  {AfterCall(r), AfterThrow(r), AfterFail(r)} \cap Carrying = {}
  BY DEF AfterCall, AfterThrow, AfterFail, Carrying, Completing

LEMMA EnvironmentCollects ==
    ASSUME CollectedInv, TypeOK', Environment
    PROVE  CollectedInv'
  <1> USE DEF dbVars, fbuVars
  <1>1. /\ stripe \in [Payments -> [Attempts -> IntentStatus]]
        /\ emitted \subseteq Events
        /\ compensated \in [Payments -> Nat]
    BY DEF CollectedInv, TypeOK
  <1>2. ASSUME MoneyStays, EventsTrue', UNCHANGED <<pc, ctx, compensated, fbu>>
        PROVE  CollectedInv'
    <2>1. ASSUME NEW q \in Requests
          PROVE  Bears(q, pc'[q], ctx'[q], stripe', compensated')
      <3>1. ctx[q] \in Locals /\ Bears(q, pc[q], ctx[q], stripe, compensated)
        BY DEF CollectedInv, AllBear, TypeOK
      <3> QED
        BY <1>2, <3>1, StillBears DEF CollectedInv
    <2>2. AllBear'
      BY <2>1 DEF AllBear
    <2>3. CompletedUpdateIsPaid'
      BY <1>2 DEF CollectedInv, CompletedUpdateIsPaid
    <2> QED
      BY <1>2, <2>2, <2>3 DEF CollectedInv
  <1>3. ASSUME NEW p \in Payments, CreateIntent(p)
        PROVE  CollectedInv'
    <2>1. /\ \A q \in Payments, n \in Attempts :
                stripe[q][n] = "succeeded" => stripe'[q][n] = "succeeded"
          /\ UNCHANGED <<pc, ctx, compensated, fbu, emitted>>
      BY <1>1, <1>3 DEF CreateIntent
    <2>2. MoneyStays /\ EventsTrue'
      BY <1>1, <2>1 DEF MoneyStays, CollectedInv, EventsTrue, Events
    <2> QED
      BY <1>2, <2>1, <2>2
  <1>4. ASSUME NEW p \in Payments, NEW n \in Attempts,
               IntentSucceeds(p, n) \/ IntentDeclined(p, n)
        PROVE  CollectedInv'
    <2>1. /\ \A q \in Payments, m \in Attempts :
                stripe[q][m] = "succeeded" => stripe'[q][m] = "succeeded"
          /\ UNCHANGED <<pc, ctx, compensated, fbu>>
      BY <1>1, <1>4 DEF IntentSucceeds, IntentDeclined
    <2>2. ASSUME NEW e \in emitted', e.type \in SuccessTypes
          PROVE  stripe'[e.payment][e.attempt] = "succeeded"
      <3>1. CASE e \in emitted
        BY <1>1, <2>1, <2>2, <3>1 DEF CollectedInv, EventsTrue, Events
      <3>2. CASE e \notin emitted
        <4>1. /\ e.payment = p /\ e.attempt = n
              /\ stripe' = [stripe EXCEPT ![p][n] = "succeeded"]
          BY <1>4, <2>2, <3>2 DEF IntentSucceeds, IntentDeclined, SuccessTypes
        <4> QED
          BY <1>1, <4>1
      <3> QED
        BY <3>1, <3>2
    <2>3. MoneyStays /\ EventsTrue'
      BY <1>1, <2>1, <2>2 DEF MoneyStays, EventsTrue
    <2> QED
      BY <1>2, <2>1, <2>3
  <1>5. CASE \/ \E p \in Payments : SavePayment(p)
             \/ \E p \in Payments, d \in Vanishing : Vanish(p, d)
             \/ \E e \in Events : GoStale(e)
    BY <1>5, RestCollects
    DEF SavePayment, OnlyPayment, Vanish, GoStale, Untouched, stripeVars
  <1> QED
    BY <1>3, <1>4, <1>5 DEF Environment

\* A webhook brings the word of its event.
LEMMA WebhookCollects ==
    ASSUME CollectedInv, TypeOK', NEW w \in Webhooks,
           \/ Insert(w) \/ Touch(w) \/ Claim(w) \/ Revert(w) \/ FailCheck(w)
           \/ Ack(w) \/ Nack(w) \/ \E e \in emitted : Receive(w, e)
    PROVE  CollectedInv'
  <1> USE DEF dbVars, fbuVars, stripeVars
  <1>1. w \in Requests /\ ctx[w] \in Locals
    BY DEF Requests, CollectedInv, TypeOK
  <1>2. Untouched
    BY DEF Insert, Touch, Claim, Revert, FailCheck, Ack, Nack, Receive,
           SetRecord, ReadOnly, OnlyPayment, Untouched
  <1>3. UNCHANGED <<stripe, compensated>>
    BY <1>2 DEF Untouched
  <1>4. Bears(w, pc[w], ctx[w], stripe, compensated)
    BY <1>1 DEF CollectedInv, AllBear
  <1>5. CASE Insert(w) \/ Touch(w)
    <2>1. Goto(w, "idle") \/ Goto(w, Handler(ctx[w].event))
      BY <1>5 DEF Insert, Touch
    <2>2. Bears(w, Handler(ctx[w].event), ctx[w], stripe', compensated')
      BY <1>3, <1>4, <1>5
      DEF Insert, Touch, Bears, Handler, Collected, Completing
    <2>3. "idle" \notin Carrying
      BY DEF Carrying, Completing
    <2> QED
      BY <1>1, <1>2, <2>1, <2>2, <2>3, FreeGoto, GotoCollects, UntouchedStays
  <1>6. CASE Claim(w)
    <2>1. CASE Claimable(w)
      <3> DEFINE l == [ctx[w] EXCEPT !.orig = status[ctx[w].pay]]
      <3>1. l \in Locals
        BY <1>1, <2>1 DEF Claimable, Unsettled, Locals, PaymentStatus
      <3>2. l.pay = ctx[w].pay /\ l.intent = ctx[w].intent
        BY <1>1 DEF Locals
      <3>3. Bears(w, "load", l, stripe', compensated')
        BY <1>3, <1>4, <1>6, <3>2 DEF Claim, Bears, Collected
      <3>4. GotoWith(w, "load", l)
        BY <1>6, <2>1 DEF Claim
      <3> HIDE DEF l
      <3> QED
        BY <1>1, <1>2, <3>1, <3>3, <3>4, MoveCollects, UntouchedStays
    <2>2. CASE ~Claimable(w)
      BY <1>1, <1>2, <1>6, <2>2, FreeGoto DEF Claim, Carrying, Completing
    <2> QED
      BY <2>1, <2>2
  <1>7. CASE Revert(w) \/ FailCheck(w) \/ Ack(w) \/ Nack(w)
    <2>1. PICK label \in {"nack", "failload", "ack", "idle"} : Goto(w, label)
      BY <1>7 DEF Revert, FailCheck, Ack, Nack
    <2>2. label \notin Carrying
      BY DEF Carrying, Completing
    <2> QED
      BY <1>1, <1>2, <2>1, <2>2, FreeGoto
  <1>8. ASSUME NEW e \in emitted, Receive(w, e)
        PROVE  CollectedInv'
    <2> DEFINE l == LocalsFor(e, e.payment, e.attempt)
    <2>1. e \in Events /\ l \in Locals
      BY LocalsForType DEF CollectedInv, TypeOK, Events
    <2>2. PICK label \in {"insert", "touch"} : GotoWith(w, label, l)
      BY <1>8 DEF Receive
    <2>3. l.event = e /\ l.pay = e.payment /\ l.intent = e.attempt
      BY DEF LocalsFor
    <2>4. Bears(w, label, l, stripe', compensated')
      BY <1>3, <2>1, <2>3
      DEF Bears, Collected, CollectedInv, EventsTrue, Completing
    <2> HIDE DEF l
    <2> QED
      BY <1>1, <1>2, <2>1, <2>2, <2>4, MoveCollects, UntouchedStays
  <1> QED
    BY <1>5, <1>6, <1>7, <1>8

\* completePayment keeps the intent it was called with.
LEMMA CompleteCollects ==
    ASSUME CollectedInv, TypeOK', NEW r \in Requests,
           CompleteStep(r) \/ FailStep(r)
    PROVE  CollectedInv'
  <1> USE DEF dbVars, fbuVars, stripeVars
  <1>1. ctx[r] \in Locals
    BY DEF CollectedInv, TypeOK
  <1>2. Untouched
    BY DEF CompleteStep, Load, TakeLock, Conflict, Commit, TakeEffect,
           AbortUnpaid,
           CompleteAlone, FundAlone, CreditAlone, MarkJobAlone, FailStep,
           FailLoad,
           FailWrite, ReadOnly, OnlyPayment, NoFault, Untouched
  <1>3. UNCHANGED <<stripe, compensated>>
    BY <1>2 DEF Untouched
  <1>4. Bears(r, pc[r], ctx[r], stripe, compensated)
    BY DEF CollectedInv, AllBear
  <1>5. ASSUME NEW label \in Completing, NEW l \in Locals, GotoWith(r, label, l),
               pc[r] \in Completing,
               l.pay = ctx[r].pay, l.intent = ctx[r].intent
        PROVE  CollectedInv'
    <2>1. Bears(r, label, l, stripe', compensated')
      BY <1>3, <1>4, <1>5 DEF Bears, Collected, Completing
    <2> QED
      BY <1>2, <1>5, <2>1, MoveCollects, UntouchedStays
  <1>6. ASSUME NEW label \in {AfterCall(r), AfterThrow(r), AfterFail(r)},
               Goto(r, label)
        PROVE  CollectedInv'
    BY <1>2, <1>6, AfterFree, FreeGoto
  <1>7. CASE Load(r)
    <2>1. ASSUME NEW tx \in TxModes, GotoWith(r, "begin", Loaded(r, tx))
          PROVE  CollectedInv'
      BY <1>1, <1>5, <1>7, <2>1, LoadedLocals DEF Load, Completing
    <2> QED
      BY <1>6, <1>7, <2>1 DEF Load
  <1>8. CASE Conflict(r)
    <2>1. /\ [ctx[r] EXCEPT !.conflicts = @ + 1] \in Locals
          /\ [ctx[r] EXCEPT !.conflicts = @ + 1].pay = ctx[r].pay
          /\ [ctx[r] EXCEPT !.conflicts = @ + 1].intent = ctx[r].intent
      BY <1>1 DEF Locals
    <2> QED
      BY <1>5, <1>6, <1>8, <2>1 DEF Conflict, Completing
  <1>9. CASE \/ TakeLock(r) \/ Commit(r) \/ AbortUnpaid(r) \/ CompleteAlone(r)
             \/ FundAlone(r) \/ CreditAlone(r) \/ MarkJobAlone(r)
    <2>1. \/ Goto(r, AfterCall(r)) \/ Goto(r, AfterThrow(r))
          \/ pc[r] \in Completing /\ \E label \in Completing : Goto(r, label)
      BY <1>9
      DEF TakeLock, Commit, AbortUnpaid, CompleteAlone, FundAlone, CreditAlone,
          MarkJobAlone, Completing
    <2> QED
      BY <1>1, <1>5, <1>6, <2>1 DEF Goto
  <1>10. CASE FailLoad(r)
    <2>1. CASE Goto(r, AfterFail(r))
      BY <1>6, <2>1
    <2>2. CASE GotoWith(r, "failwrite",
                        [ctx[r] EXCEPT !.count = retryCount[ctx[r].pay]])
      <3>1. [ctx[r] EXCEPT !.count = retryCount[ctx[r].pay]] \in Locals
        BY <1>1 DEF CollectedInv, TypeOK, Locals
      <3>2. "failwrite" \notin Carrying
        BY DEF Carrying, Completing
      <3> QED
        BY <1>2, <2>2, <3>1, <3>2, FreeBears, MoveCollects, UntouchedStays
    <2> QED
      BY <1>10, <2>1, <2>2 DEF FailLoad
  <1>11. CASE FailWrite(r)
    BY <1>6, <1>11 DEF FailWrite
  <1> QED
    BY <1>7, <1>8, <1>9, <1>10, <1>11 DEF CompleteStep, FailStep

\* The crons: Stripe's answer lets completePayment in, the increment precedes
\* the save.
LEMMA CronCollects ==
    ASSUME CollectedInv, TypeOK', NEW c \in Crons, NEW p \in Payments,
           \/ CronRetrieve(c) \/ BalanceCredit(c) \/ BalanceSave(c)
           \/ BalanceError(c) \/ UserNotFound(c)
           \/ CronList(c, p) \/ BalanceList(c, p)
    PROVE  CollectedInv'
  <1> USE DEF dbVars, fbuVars, stripeVars
  <1>1. /\ c \in Requests /\ ctx[c] \in Locals /\ ctx[c].pay \in Payments
        /\ compensated \in [Payments -> Nat] /\ fbu \in [Payments -> FbuStatus]
    BY DEF Requests, CollectedInv, TypeOK, Locals
  <1>2. Bears(c, pc[c], ctx[c], stripe, compensated)
    BY <1>1 DEF CollectedInv, AllBear
  <1>3. "idle" \notin Carrying /\ "failload" \notin Carrying
        /\ "retrieve" \notin Carrying /\ "fbucredit" \notin Carrying
    BY DEF Carrying, Completing
  <1>4. CASE CronRetrieve(c)
    <2>1. Untouched
      BY <1>4 DEF CronRetrieve, ReadOnly, Untouched
    <2>2. CASE Collected(ctx[c], stripe)
      <3>1. Goto(c, "load")
        BY <1>4, <2>2 DEF CronRetrieve, Reconcile, Collected
      <3>2. c \notin Webhooks
        BY RequestAssumption
      <3>3. Bears(c, "load", ctx[c], stripe', compensated')
        BY <2>1, <2>2, <3>2 DEF Bears, Untouched, Collected
      <3> QED
        BY <1>1, <2>1, <3>1, <3>3, GotoCollects, UntouchedStays
    <2>3. CASE ~Collected(ctx[c], stripe)
      <3>1. PICK label \in {"failload", "idle"} : Goto(c, label)
        BY <1>4, <2>3 DEF CronRetrieve, Reconcile, Collected
      <3> QED
        BY <1>1, <1>3, <2>1, <3>1, FreeGoto
    <2> QED
      BY <2>2, <2>3
  <1>5. CASE CronList(c, p) \/ BalanceList(c, p)
    <2>1. Untouched
      BY <1>5 DEF CronList, BalanceList, ReadOnly, Untouched
    <2>2. PICK label \in {"retrieve", "fbucredit"}, count \in Nat :
               Start(c, label, p, count)
      BY <1>5 DEF CronList, BalanceList, CollectedInv, TypeOK
    <2> DEFINE l == [LocalsFor(NoEvent, p, intent[p]) EXCEPT !.count = count]
    <2>3. l \in Locals
      <3>1. LocalsFor(NoEvent, p, intent[p]) \in Locals
        BY LocalsForType DEF CollectedInv, TypeOK
      <3> QED
        BY <3>1 DEF Locals
    <2>4. GotoWith(c, label, l)
      BY <2>2 DEF Start
    <2> HIDE DEF l
    <2> QED
      BY <1>1, <1>3, <2>1, <2>3, <2>4, FreeBears, MoveCollects, UntouchedStays
  <1>6. CASE BalanceCredit(c)
    <2>1. /\ compensated' = [compensated EXCEPT ![ctx[c].pay] = @ + 1]
          /\ UNCHANGED <<stripe, emitted, fbu>>
          /\ Goto(c, "fbusave")
      BY <1>6 DEF BalanceCredit
    <2>2. compensated'[ctx[c].pay] > 0
      BY <1>1, <2>1
    <2>3. MoneyStays /\ EventsTrue' /\ CompletedUpdateIsPaid'
      BY <1>1, <2>1
      DEF MoneyStays, CollectedInv, EventsTrue, CompletedUpdateIsPaid
    <2>4. Bears(c, "fbusave", ctx[c], stripe', compensated')
      BY <2>2 DEF Bears, Completing
    <2> QED
      BY <1>1, <2>1, <2>3, <2>4, GotoCollects
  <1>7. CASE BalanceSave(c) \/ BalanceError(c) \/ UserNotFound(c)
    <2>1. /\ UNCHANGED <<stripe, emitted, compensated>>
          /\ Goto(c, "idle")
          /\ \A q \in Payments : fbu'[q] = "completed" =>
               fbu[q] = "completed" \/ (q = ctx[c].pay /\ pc[c] = "fbusave")
      BY <1>1, <1>7 DEF BalanceSave, BalanceError, UserNotFound, CountTry
    <2>2. MoneyStays /\ EventsTrue' /\ CompletedUpdateIsPaid'
      BY <1>1, <1>2, <2>1
      DEF MoneyStays, CollectedInv, EventsTrue, CompletedUpdateIsPaid, Bears
    <2> QED
      BY <1>1, <1>3, <2>1, <2>2, FreeBears, GotoCollects
  <1> QED
    BY <1>4, <1>5, <1>6, <1>7

\* Users carry nothing: a request of theirs may complete a payment unpaid.
LEMMA UserCollects ==
    ASSUME CollectedInv, TypeOK', NEW u \in Users, NEW p \in Payments,
           \/ ProcessWrite(u) \/ RefundWrite(u) \/ StaleCancel(u) \/ StaleSave(u)
           \/ RetryWrite(u) \/ RetryIntent(u) \/ RetrySave(u) \/ RetryFail(u)
           \/ UserStart(u, p)
    PROVE  CollectedInv'
  <1> USE DEF dbVars, fbuVars, stripeVars
  <1>1. /\ u \in Requests /\ ctx[u] \in Locals /\ ctx[u].pay \in Payments
        /\ ctx[u].intent \in Attempts
        /\ stripe \in [Payments -> [Attempts -> IntentStatus]]
        /\ compensated \in [Payments -> Nat]
        /\ emitted \subseteq Events
    BY DEF Requests, CollectedInv, TypeOK, Locals
  <1>2. ASSUME NEW label, label # "fbusave", NEW l \in Locals,
               GotoWith(u, label, l),
               MoneyStays, UNCHANGED <<emitted, compensated, fbu>>
        PROVE  CollectedInv'
    <2>1. u \notin Webhooks \cup Crons
      BY RequestAssumption
    <2>2. Bears(u, label, l, stripe', compensated')
      BY <1>2, <2>1 DEF Bears
    <2>3. EventsTrue' /\ CompletedUpdateIsPaid'
      BY <1>1, <1>2
      DEF MoneyStays, CollectedInv, EventsTrue, Events, CompletedUpdateIsPaid
    <2> QED
      BY <1>1, <1>2, <2>2, <2>3, MoveCollects
  <1>3. CASE \/ ProcessWrite(u) \/ RefundWrite(u) \/ StaleSave(u)
             \/ RetryWrite(u) \/ RetrySave(u) \/ RetryFail(u)
    <2>1. Untouched
      BY <1>3
      DEF ProcessWrite, RefundWrite, StaleSave, RetryWrite, RetrySave, RetryFail,
          UserWrite, OnlyPayment, Untouched
    <2>2. PICK label \in {"idle", "retryintent"} : Goto(u, label)
      BY <1>3
      DEF ProcessWrite, RefundWrite, StaleSave, RetryWrite, RetrySave, RetryFail,
          UserWrite
    <2> QED
      BY <1>1, <1>2, <2>1, <2>2, UntouchedStays DEF Goto, Untouched
  <1>4. CASE StaleCancel(u)
    <2>1. PICK label \in {"idle", "stalesave"} : Goto(u, label)
      BY <1>4 DEF StaleCancel
    <2>2. MoneyStays
      BY <1>1, <1>4 DEF StaleCancel, MoneyStays
    <2> QED
      BY <1>1, <1>2, <1>4, <2>1, <2>2 DEF StaleCancel, Goto
  <1>5. CASE RetryIntent(u)
    <2>1. MoneyStays
      <3>1. UNCHANGED compensated
        BY <1>5 DEF RetryIntent
      <3>2. CASE UNCHANGED stripe
        BY <1>1, <3>1, <3>2 DEF MoneyStays
      <3>3. ASSUME NEW n \in Attempts, stripe[ctx[u].pay][n] = "none",
                   stripe' = [stripe EXCEPT
                                ![ctx[u].pay][n] = "requires_payment_method"]
            PROVE  MoneyStays
        BY <1>1, <3>1, <3>3 DEF MoneyStays
      <3> QED
        BY <1>5, <3>2, <3>3 DEF RetryIntent
    <2>2. \A n \in Attempts : [ctx[u] EXCEPT !.intent = n] \in Locals
      BY <1>1 DEF Locals
    <2>3. PICK label \in {"retrysave", "retryfail"}, l \in Locals :
               GotoWith(u, label, l)
      BY <1>1, <1>5, <2>2 DEF RetryIntent, Goto
    <2> QED
      BY <1>2, <1>5, <2>1, <2>3 DEF RetryIntent
  <1>6. CASE UserStart(u, p)
    <2>1. PICK label \in {"load", "failload", "procwrite", "refundwrite",
                          "stalecancel", "retrywrite"}, count \in Nat :
               Start(u, label, p, count)
      BY <1>6 DEF UserStart, CollectedInv, TypeOK
    <2> DEFINE l == [LocalsFor(NoEvent, p, intent[p]) EXCEPT !.count = count]
    <2>2. l \in Locals
      <3>1. LocalsFor(NoEvent, p, intent[p]) \in Locals
        BY LocalsForType DEF CollectedInv, TypeOK
      <3> QED
        BY <3>1 DEF Locals
    <2>3. GotoWith(u, label, l)
      BY <2>1 DEF Start
    <2>4. Untouched
      BY <1>6 DEF UserStart, ReadOnly, Untouched
    <2> HIDE DEF l
    <2> QED
      BY <1>2, <2>2, <2>3, <2>4, UntouchedStays DEF Untouched
  <1> QED
    BY <1>3, <1>4, <1>5, <1>6

LEMMA FailureCollects ==
    ASSUME CollectedInv, TypeOK', NEW r \in Requests,
           CompleteError(r) \/ LoseCommit(r) \/ StepError(r) \/ Crash(r)
    PROVE  CollectedInv'
  <1> USE DEF dbVars, fbuVars, stripeVars
  <1>1. PICK label \in {"idle", "retryfail", AfterFail(r), AfterThrow(r)} :
             Goto(r, label)
    BY DEF CompleteError, LoseCommit, StepError, Crash
  <1>2. label \notin Carrying
    BY AfterFree DEF Carrying, Completing
  <1>3. /\ UNCHANGED <<stripe, emitted, compensated>>
        /\ \A p \in Payments : fbu'[p] = "completed" => fbu[p] = "completed"
    BY DEF CompleteError, LoseCommit, TakeEffect, StepError, Crash, CollectedInv,
           TypeOK
  <1>4. MoneyStays /\ EventsTrue' /\ CompletedUpdateIsPaid'
    BY <1>3
    DEF MoneyStays, CollectedInv, TypeOK, EventsTrue, CompletedUpdateIsPaid
  <1> QED
    BY <1>1, <1>2, <1>4, FreeBears, GotoCollects

LEMMA NextCollects == CollectedInv /\ [Next]_vars => CollectedInv'
  <1> SUFFICES ASSUME CollectedInv, [Next]_vars PROVE CollectedInv'
    OBVIOUS
  <1>0. TypeOK'
    BY NextType DEF CollectedInv
  <1>1. CASE Environment
    BY <1>0, <1>1, EnvironmentCollects
  <1>2. ASSUME NEW w \in Webhooks,
               WebhookStep(w) \/ \E e \in emitted : Receive(w, e)
        PROVE  CollectedInv'
    BY <1>0, <1>2, WebhookCollects, CompleteCollects DEF WebhookStep, Requests
  <1>3. ASSUME NEW c \in Crons, NEW p \in Payments,
               \/ CronStep(c) \/ BalanceError(c)
               \/ CronList(c, p) \/ BalanceList(c, p)
        PROVE  CollectedInv'
    BY <1>0, <1>3, CronCollects, CompleteCollects DEF CronStep, Requests
  <1>4. ASSUME NEW u \in Users, NEW p \in Payments, UserStep(u) \/ UserStart(u, p)
        PROVE  CollectedInv'
    BY <1>0, <1>4, UserCollects, CompleteCollects DEF UserStep, Requests
  <1>8. ASSUME NEW u \in Users, NEW p \in Payments, NEW s \in PaymentStatus,
               NEW n \in Attempts, NEW count \in 0 .. RetryLimit,
               UpdatePayment(u, p, s, n, count)
        PROVE  CollectedInv'
    BY <1>0, <1>8, RestCollects DEF UpdatePayment, Untouched, fbuVars, stripeVars
  <1>5. ASSUME NEW r \in Requests,
               CompleteError(r) \/ LoseCommit(r) \/ StepError(r) \/ Crash(r)
        PROVE  CollectedInv'
    BY <1>0, <1>5, FailureCollects
  <1>6. CASE UNCHANGED vars
    BY <1>0, <1>6
    DEF vars, dbVars, fbuVars, stripeVars, CollectedInv, EventsTrue, AllBear,
        CompletedUpdateIsPaid
  <1>7. PICK p \in Payments : TRUE
    BY PaymentsAssumption
  <1> QED
    BY <1>1, <1>2, <1>3, <1>4, <1>5, <1>6, <1>7, <1>8 DEF Next

LEMMA InitCollects == Init => CollectedInv
  <1>1. "idle" \notin Carrying
    BY DEF Carrying, Completing
  <1> QED
    BY <1>1, InitType, FreeBears
    DEF Init, CollectedInv, EventsTrue, AllBear, CompletedUpdateIsPaid

LEMMA CollectedInvariant == Spec => []CollectedInv
  BY InitCollects, NextCollects, PTL DEF Spec

\* No webhook and no cron completes a payment whose money Stripe has not
\* collected, whatever clients, admins, errors and crashes do meanwhile.
THEOREM OnlyCollectedComplete == Spec => []OnlyCollectedIsCompleted
  <1>1. CollectedInv => OnlyCollectedIsCompleted
    BY DEF CollectedInv, AllBear, Bears, Collected, OnlyCollectedIsCompleted,
           Requests
  <1> QED
    BY <1>1, CollectedInvariant, PTL

\* A failed balance update that reads completed has been paid out.
THEOREM CompletedUpdatesArePaid == Spec => []CompletedUpdateIsPaid
  <1>1. CollectedInv => CompletedUpdateIsPaid
    BY DEF CollectedInv
  <1> QED
    BY <1>1, CollectedInvariant, PTL

-----------------------------------------------------------------------------
(***************************************************************************)
(* One webhook request at a time and nobody else, with transactions.  Then *)
(* a settled payment is never overwritten: a request that may still write  *)
(* an unsettled status looked at the payment when it was unsettled, and    *)
(* nothing settles it in between.  The bound on credits turns into one     *)
(* credit.                                                                 *)
(***************************************************************************)
OneWebhook == \A v, w \in Webhooks : v = w

\* The steps that write, or may yet write, an unsettled status.
Overwriting == {"load", "begin", "commit", "revert", "failwrite"}

SerialInv ==
    /\ \A p \in Payments : overwritten[p] = 0 /\ compensated[p] = 0
    /\ \A r \in Requests :
         pc[r] \in Overwriting => status[ctx[r].pay] \notin Settled

LEMMA SerialEnvironment ==
    ASSUME TypeOK, SerialInv, Environment
    PROVE  SerialInv'
  <1> USE DEF dbVars, payVars, fbuVars
  <1>1. \A r \in Requests : ctx[r].pay \in Payments
    BY DEF TypeOK, Locals
  <1>2. CASE UNCHANGED <<status, overwritten, compensated, pc, ctx>>
    BY <1>2 DEF SerialInv
  <1>3. ASSUME NEW p \in Payments, SavePayment(p)
        PROVE  SerialInv'
    <2>1. /\ status' = [status EXCEPT ![p] = "pending"]
          /\ UNCHANGED <<overwritten, compensated, pc, ctx>>
      BY <1>3
      DEF SavePayment, WriteStatus, StampStatus, OnlyPayment, Settled, TypeOK
    <2> QED
      BY <1>1, <2>1 DEF SerialInv, TypeOK, Settled
  <1> QED
    BY <1>2, <1>3
    DEF Environment, CreateIntent, IntentSucceeds, IntentDeclined, GoStale, Vanish

\* The only request goes on, and no payment changes, or its own does.
LEMMA SerialMove ==
    ASSUME TypeOK, SerialInv, OneWebhook, Crons = {}, Users = {},
           NEW r \in Requests, NEW label, NEW l, GotoWith(r, label, l),
           l.pay = ctx[r].pay,
           UNCHANGED <<overwritten, compensated>>,
           label \in Overwriting => status'[ctx[r].pay] \notin Settled
    PROVE  SerialInv'
  <1>1. \A q \in Requests : q = r
    BY DEF OneWebhook, Requests
  <1>2. pc'[r] = label /\ (label # "idle" => ctx'[r] = l)
    BY DEF GotoWith, TypeOK
  <1>3. "idle" \notin Overwriting
    BY DEF Overwriting
  <1> QED
    BY <1>1, <1>2, <1>3 DEF SerialInv

LEMMA SerialWrite ==
    ASSUME TypeOK, SerialInv, NEW r \in Requests, NEW s,
           WriteStatus(ctx[r].pay, s),
           \/ status[ctx[r].pay] \notin Settled
           \/ pc[r] \in Overwriting
    PROVE  overwritten' = overwritten /\ status'[ctx[r].pay] = s
  <1>1. ctx[r].pay \in Payments
    BY DEF TypeOK, Locals
  <1>2. status[ctx[r].pay] \notin Settled
    BY DEF SerialInv
  <1> QED
    BY <1>1, <1>2 DEF WriteStatus, StampStatus, TypeOK

LEMMA SerialStep ==
    ASSUME SettlementInv, SerialInv, OneWebhook, Crons = {}, Users = {},
           TxModes = {TRUE}, LostCommits = FALSE, NEW r \in Requests,
           \/ WebhookStep(r) \/ \E e \in emitted : Receive(r, e)
           \/ CompleteError(r) \/ LoseCommit(r) \/ StepError(r) \/ Crash(r)
    PROVE  SerialInv'
  <1> USE DEF dbVars, payVars, fbuVars, stripeVars
  <1>1. /\ TypeOK
        /\ ctx[r] \in Locals /\ ctx[r].pay \in Payments
        /\ r \in Webhooks
        /\ pc[r] \notin {"fund", "credit", "markjob"}
        /\ pc[r] = "begin" => ctx[r].tx
        /\ ctx[r].orig \in Unsettled
    BY SwitchAssumption DEF SettlementInv, RequestsOK, TypeOK, Locals, Requests
  <1>2. /\ AfterCall(r) = "ack" /\ AfterThrow(r) = "revert"
        /\ AfterFail(r) = "nack"
    BY <1>1 DEF AfterCall, AfterThrow, AfterFail
  <1>3. Unsettled \cap Settled = {}
    BY DEF Unsettled, Settled
  <1>4. ASSUME NEW label, Goto(r, label), UNCHANGED <<overwritten, compensated>>,
               label \in Overwriting => status'[ctx[r].pay] \notin Settled
        PROVE  SerialInv'
    BY <1>1, <1>4, SerialMove DEF Goto
  <1>5. ASSUME NEW e \in emitted, Receive(r, e)
        PROVE  SerialInv'
    <2>1. PICK label \in {"insert", "touch"} :
               GotoWith(r, label, LocalsFor(e, e.payment, e.attempt))
      BY <1>5 DEF Receive
    <2>2. pc'[r] = label /\ UNCHANGED <<status, overwritten, compensated>>
      BY <1>1, <1>5, <2>1 DEF GotoWith, Receive, TypeOK
    <2>3. \A q \in Requests : q = r
      BY <1>1 DEF OneWebhook, Requests
    <2> QED
      BY <2>2, <2>3 DEF SerialInv, Overwriting
  <1>6. CASE Insert(r) \/ Touch(r) \/ FailCheck(r) \/ Ack(r) \/ Nack(r)
    <2>1. /\ UNCHANGED <<overwritten, compensated>>
          /\ \E label \in {"idle", "claim", "failcheck", "failload", "ack"} :
               Goto(r, label)
      BY <1>6
      DEF Insert, Touch, FailCheck, Ack, Nack, Handler, SetRecord, ReadOnly
    <2> QED
      BY <1>4, <2>1 DEF Overwriting
  <1>7. CASE Claim(r)
    <2>1. CASE ~Claimable(r)
      BY <1>4, <1>7, <2>1 DEF Claim, ReadOnly, Overwriting
    <2>2. CASE Claimable(r)
      <3> DEFINE l == [ctx[r] EXCEPT !.orig = status[ctx[r].pay]]
      <3>1. status[ctx[r].pay] \notin Settled
        BY <1>3, <2>2 DEF Claimable
      <3>2. overwritten' = overwritten /\ status'[ctx[r].pay] = "processing"
        BY <1>1, <1>7, <2>2, <3>1, SerialWrite DEF Claim
      <3>3. GotoWith(r, "load", l) /\ l.pay = ctx[r].pay
        BY <1>1, <1>7, <2>2 DEF Claim, Locals
      <3>4. UNCHANGED compensated
        BY <1>7, <2>2 DEF Claim, OnlyPayment
      <3> HIDE DEF l
      <3> QED
        BY <1>1, <3>2, <3>3, <3>4, SerialMove DEF Settled
    <2> QED
      BY <2>1, <2>2
  <1>8. CASE Revert(r)
    <2>1. overwritten' = overwritten
      BY <1>1, <1>8, SerialWrite DEF Revert, Overwriting
    <2> QED
      BY <1>4, <1>8, <2>1 DEF Revert, OnlyPayment, Overwriting
  <1>9. CASE FailWrite(r)
    <2>1. overwritten' = overwritten
      BY <1>1, <1>9, SerialWrite DEF FailWrite, Overwriting
    <2> QED
      BY <1>2, <1>4, <1>9, <2>1 DEF FailWrite, OnlyPayment, Overwriting
  <1>10. CASE FailLoad(r)
    <2>1. UNCHANGED <<status, overwritten, compensated>>
      BY <1>10 DEF FailLoad, ReadOnly
    <2>2. CASE status[ctx[r].pay] \in Unsettled
      <3>1. GotoWith(r, "failwrite",
                     [ctx[r] EXCEPT !.count = retryCount[ctx[r].pay]])
        BY <1>10, <2>2 DEF FailLoad
      <3>2. [ctx[r] EXCEPT !.count = retryCount[ctx[r].pay]].pay = ctx[r].pay
        BY <1>1 DEF Locals
      <3> QED
        BY <1>1, <1>3, <2>1, <2>2, <3>1, <3>2, SerialMove
    <2>3. CASE status[ctx[r].pay] \notin Unsettled
      BY <1>2, <1>4, <1>10, <2>1, <2>3 DEF FailLoad, Overwriting
    <2> QED
      BY <2>2, <2>3
  <1>11. CASE Load(r) \/ Conflict(r)
    <2>1. /\ UNCHANGED <<status, overwritten, compensated>>
          /\ status[ctx[r].pay] \notin Settled
      BY <1>1, <1>11 DEF Load, Conflict, ReadOnly, SerialInv, Overwriting
    <2>2. \A tx \in TxModes :
            Loaded(r, tx) \in Locals /\ Loaded(r, tx).pay = ctx[r].pay
      BY <1>1, LoadedLocals
    <2>3. /\ [ctx[r] EXCEPT !.conflicts = @ + 1] \in Locals
          /\ [ctx[r] EXCEPT !.conflicts = @ + 1].pay = ctx[r].pay
      BY <1>1 DEF Locals
    <2>4. PICK label \in PCs, l \in Locals :
               GotoWith(r, label, l) /\ l.pay = ctx[r].pay
      BY <1>1, <1>2, <1>11, <2>2, <2>3 DEF Load, Conflict, Goto, PCs
    <2> QED
      BY <1>1, <2>1, <2>4, SerialMove
  <1>12. CASE TakeLock(r)
    <2>1. UNCHANGED <<status, overwritten, compensated>>
      BY <1>12 DEF TakeLock, ReadOnly
    <2>2. CASE StillOpen(ctx[r].pay)
      BY <1>3, <1>4, <1>12, <2>1, <2>2 DEF TakeLock, StillOpen
    <2>3. CASE ~StillOpen(ctx[r].pay)
      BY <1>2, <1>4, <1>12, <2>1, <2>3 DEF TakeLock, Overwriting
    <2> QED
      BY <2>2, <2>3
  <1>13. CASE Commit(r)
    BY <1>2, <1>4, <1>13 DEF Commit, TakeEffect, Overwriting
  <1>17. CASE AbortUnpaid(r)
    BY <1>2, <1>4, <1>17 DEF AbortUnpaid, SerialInv, Overwriting
  <1>14. CASE \/ CompleteAlone(r) \/ FundAlone(r) \/ CreditAlone(r)
              \/ MarkJobAlone(r)
    BY <1>1, <1>14 DEF CompleteAlone, FundAlone, CreditAlone, MarkJobAlone
  <1>15. CASE CompleteError(r)
    <2>1. pc[r] \in Overwriting
      BY <1>1, <1>15 DEF CompleteError, Completing, Overwriting
    <2> QED
      BY <1>2, <1>4, <1>15, <2>1 DEF CompleteError, SerialInv
  <1>16. CASE StepError(r) \/ Crash(r)
    <2>1. /\ UNCHANGED <<overwritten, compensated>>
          /\ \E label \in {"idle", "nack", "retryfail"} : Goto(r, label)
      BY <1>2, <1>16 DEF StepError, Crash
    <2> QED
      BY <1>4, <2>1 DEF Overwriting
  <1> QED
    BY <1>5, <1>6, <1>7, <1>8, <1>9, <1>10, <1>11, <1>12, <1>13, <1>14, <1>15,
       <1>16, <1>17
    DEF WebhookStep, CompleteStep, FailStep, LoseCommit

LEMMA NextSerial ==
    ASSUME TxModes = {TRUE}, LostCommits = FALSE, OneWebhook,
           Crons = {}, Users = {}
    PROVE  SettlementInv /\ SerialInv /\ [Next]_vars => SerialInv'
  <1> SUFFICES ASSUME SettlementInv, SerialInv, [Next]_vars PROVE SerialInv'
    OBVIOUS
  <1>1. CASE Environment
    BY <1>1, SerialEnvironment DEF SettlementInv
  <1>2. CASE UNCHANGED vars
    BY <1>2 DEF vars, dbVars, payVars, fbuVars, SerialInv
  <1> QED
    BY <1>1, <1>2, SerialStep DEF Next, Requests

LEMMA InitSerial == Init => SerialInv
  BY DEF Init, SerialInv, Overwriting

\* Where transactions are available and a commit that throws has not taken
\* effect, and webhook requests come one at a time with neither crons nor users
\* beside them, the freelancer is credited at most once per payment, however
\* often Stripe redelivers and whatever else fails.
THEOREM SerialCreditsOnce ==
    ASSUME TxModes = {TRUE}, LostCommits = FALSE, OneWebhook,
           Crons = {}, Users = {}
    PROVE  Spec => []AtMostOnceCredit
  <1>1. ASSUME SettlementInv, SerialInv, NEW p \in Payments
        PROVE  credits[p] + compensated[p] <= 1
    <2>1. /\ Cardinality(Paying(p)) \in Nat
          /\ Cardinality(Paying(p)) <= Uncredited(p)
      BY <1>1, FS_CardinalityType DEF SettlementInv, CreditsOwed
    <2> QED
      BY <1>1, <2>1 DEF SettlementInv, TypeOK, SerialInv, Uncredited
  <1>2. SettlementInv /\ SerialInv => AtMostOnceCredit
    BY <1>1 DEF AtMostOnceCredit
  <1> QED
    BY <1>2, SettlementInvariant, InitSerial, NextSerial, PTL DEF Spec

-----------------------------------------------------------------------------
(***************************************************************************)
(* A processed event.  A webhook request past the admission works on an    *)
(* event whose record does not read COMPLETED; with one such request at a  *)
(* time, beside any crons and users, no other can have written that since. *)
(***************************************************************************)
RecordInv ==
    \A w \in Webhooks :
        /\ pc[w] # "idle" => ctx[w].event \in Events
        /\ pc[w] \notin {"idle", "insert"} =>
             record[ctx[w].event] # "completed"

\* Request r takes a step on the event it works on, whose record it leaves.
KeepsEvent(r) ==
    /\ record' = record
    /\ \A q \in Requests \ {r} : pc'[q] = pc[q] /\ ctx'[q] = ctx[q]
    /\ \/ pc'[r] = "idle"
       \/ /\ pc[r] \notin {"idle", "insert"}
          /\ ctx'[r].event = ctx[r].event

LEMMA KeptRecords ==
    ASSUME TypeOK, RecordInv, NEW r \in Requests,
           KeepsEvent(r) \/ (r \notin Webhooks /\ record' = record
              /\ \A q \in Requests \ {r} : pc'[q] = pc[q] /\ ctx'[q] = ctx[q])
    PROVE  RecordInv'
  BY DEF RecordInv, KeepsEvent, Requests

\* Moving on with locals about the same event.
LEMMA GotoKeepsEvent ==
    ASSUME TypeOK, NEW r \in Requests, NEW label, NEW l, GotoWith(r, label, l),
           record' = record,
           \/ label = "idle"
           \/ pc[r] \notin {"idle", "insert"} /\ l.event = ctx[r].event
    PROVE  KeepsEvent(r)
  BY DEF GotoWith, TypeOK, KeepsEvent

\* The steps a webhook request takes between the admission of its event and
\* the answer, and the faults that may strike them.
LEMMA WorkKeepsEvent ==
    ASSUME TypeOK, NEW r \in Requests,
           \/ Claim(r) \/ Revert(r) \/ FailCheck(r) \/ CompleteStep(r)
           \/ FailStep(r) \/ CompleteError(r) \/ LoseCommit(r) \/ StepError(r)
           \/ Crash(r)
    PROVE  KeepsEvent(r)
  <1> USE DEF dbVars, fbuVars, stripeVars
  <1>1. record' = record
    BY DEF Claim, Revert, FailCheck, CompleteStep, Load, TakeLock, Conflict,
           Commit, TakeEffect, AbortUnpaid, CompleteAlone, FundAlone, CreditAlone,
           MarkJobAlone, FailStep, FailLoad, FailWrite, CompleteError, LoseCommit,
           StepError, Crash, ReadOnly, OnlyPayment
  <1>2. ctx[r] \in Locals
    BY DEF TypeOK
  <1>3. ASSUME NEW label, Goto(r, label),
               label = "idle" \/ pc[r] \notin {"idle", "insert"}
        PROVE  KeepsEvent(r)
    BY <1>1, <1>3, GotoKeepsEvent DEF Goto
  <1>4. CASE \/ Revert(r) \/ FailCheck(r) \/ FailWrite(r) \/ TakeLock(r)
             \/ Commit(r) \/ AbortUnpaid(r) \/ LoseCommit(r)
    BY <1>3, <1>4
    DEF Revert, FailCheck, FailWrite, TakeLock, Commit, TakeEffect, AbortUnpaid,
        LoseCommit
  <1>5. CASE \/ CompleteAlone(r) \/ FundAlone(r) \/ CreditAlone(r)
             \/ MarkJobAlone(r) \/ CompleteError(r) \/ StepError(r) \/ Crash(r)
    BY <1>3, <1>5
    DEF CompleteAlone, FundAlone, CreditAlone, MarkJobAlone, CompleteError,
        StepError, Crash, Completing
  <1>6. CASE Claim(r)
    <2>1. CASE ~Claimable(r)
      BY <1>3, <1>6, <2>1 DEF Claim
    <2>2. CASE Claimable(r)
      <3>1. GotoWith(r, "load", [ctx[r] EXCEPT !.orig = status[ctx[r].pay]])
        BY <1>6, <2>2 DEF Claim
      <3>2. [ctx[r] EXCEPT !.orig = status[ctx[r].pay]].event = ctx[r].event
        BY <1>2 DEF Locals
      <3> QED
        BY <1>1, <1>6, <3>1, <3>2, GotoKeepsEvent DEF Claim
    <2> QED
      BY <2>1, <2>2
  <1>7. CASE Load(r)
    <2>1. ASSUME NEW tx \in TxModes, GotoWith(r, "begin", Loaded(r, tx))
          PROVE  KeepsEvent(r)
      BY <1>1, <1>2, <1>7, <2>1, LoadedLocals, GotoKeepsEvent DEF Load
    <2> QED
      BY <1>3, <1>7, <2>1 DEF Load
  <1>8. CASE Conflict(r)
    <2>1. [ctx[r] EXCEPT !.conflicts = @ + 1].event = ctx[r].event
      BY <1>2 DEF Locals
    <2> QED
      BY <1>1, <1>3, <1>8, <2>1, GotoKeepsEvent DEF Conflict
  <1>9. CASE FailLoad(r)
    <2>1. [ctx[r] EXCEPT !.count = retryCount[ctx[r].pay]].event = ctx[r].event
      BY <1>2 DEF Locals
    <2> QED
      BY <1>1, <1>3, <1>9, <2>1, GotoKeepsEvent DEF FailLoad
  <1> QED
    BY <1>4, <1>5, <1>6, <1>7, <1>8, <1>9 DEF CompleteStep, FailStep

\* The admission and the answer of a webhook request that is alone.
LEMMA AnswerRecords ==
    ASSUME OneWebhook, TypeOK, RecordInv, NEW w \in Webhooks,
           \/ Insert(w) \/ Touch(w) \/ Ack(w) \/ Nack(w)
           \/ \E e \in emitted : Receive(w, e)
    PROVE  /\ RecordInv'
           /\ \A e \in Events :
                record[e] = "completed" => record'[e] = record[e]
  <1> USE DEF dbVars
  <1>1. w \in Requests /\ record \in [Events -> RecordStatus]
    BY DEF Requests, TypeOK
  <1>2. \A v \in Webhooks : v = w
    BY DEF OneWebhook
  <1>3. ASSUME NEW label, Goto(w, label)
        PROVE  pc'[w] = label /\ (label # "idle" => ctx'[w] = ctx[w])
    BY <1>1, <1>3 DEF Goto, GotoWith, TypeOK
  <1>4. CASE Insert(w)
    <2>1. CASE record[ctx[w].event] = "none"
      <3>1. /\ record' = [record EXCEPT ![ctx[w].event] = "processing"]
            /\ Goto(w, Handler(ctx[w].event))
        BY <1>4, <2>1 DEF Insert, SetRecord
      <3>2. Handler(ctx[w].event) # "idle"
        BY DEF Handler
      <3>3. ctx[w].event \in Events
        BY <1>4 DEF Insert, RecordInv
      <3> QED
        BY <1>1, <1>2, <1>3, <2>1, <3>1, <3>2, <3>3 DEF RecordInv
    <2>2. CASE record[ctx[w].event] # "none"
      BY <1>2, <1>3, <1>4, <2>2 DEF Insert, ReadOnly, RecordInv
    <2> QED
      BY <2>1, <2>2
  <1>5. CASE Touch(w)
    <2>1. /\ record' = [record EXCEPT ![ctx[w].event] = "processing"]
          /\ Goto(w, Handler(ctx[w].event))
          /\ Handler(ctx[w].event) # "idle"
          /\ record[ctx[w].event] # "completed"
          /\ ctx[w].event \in Events
      BY <1>5 DEF Touch, SetRecord, Handler, RecordInv
    <2> QED
      BY <1>1, <1>2, <1>3, <2>1 DEF RecordInv
  <1>6. CASE Ack(w) \/ Nack(w)
    <2>1. /\ \E s \in {"completed", "failed"} :
               record' = [record EXCEPT ![ctx[w].event] = s]
          /\ Goto(w, "idle")
          /\ record[ctx[w].event] # "completed"
      BY <1>6 DEF Ack, Nack, SetRecord, RecordInv
    <2> QED
      BY <1>1, <1>2, <1>3, <2>1 DEF RecordInv
  <1>7. ASSUME NEW e \in emitted, Receive(w, e)
        PROVE  RecordInv' /\ record' = record
    <2>1. /\ record' = record
          /\ record[e] # "completed"
          /\ e \in Events
          /\ pc'[w] # "idle"
          /\ ctx'[w] = LocalsFor(e, e.payment, e.attempt)
      BY <1>1, <1>7 DEF Receive, GotoWith, Admits, TypeOK
    <2>2. ctx'[w].event = e
      BY <2>1 DEF LocalsFor
    <2> QED
      BY <1>2, <2>1, <2>2 DEF RecordInv
  <1> QED
    BY <1>4, <1>5, <1>6, <1>7

\* Crons and users have no event and write no record.
LEMMA OthersKeepRecords ==
    ASSUME TypeOK, RecordInv, NEW r \in Crons \cup Users, NEW p \in Payments,
           \/ CronRetrieve(r) \/ BalanceCredit(r) \/ BalanceSave(r)
           \/ BalanceError(r) \/ UserNotFound(r)
           \/ CronList(r, p) \/ BalanceList(r, p)
           \/ ProcessWrite(r) \/ RefundWrite(r) \/ StaleCancel(r) \/ StaleSave(r)
           \/ RetryWrite(r) \/ RetryIntent(r) \/ RetrySave(r) \/ RetryFail(r)
           \/ UserStart(r, p)
    PROVE  RecordInv' /\ record' = record
  <1> USE DEF dbVars
  <1>1. r \in Requests /\ r \notin Webhooks
    BY RequestAssumption DEF Requests
  <1>2. record' = record
    BY DEF CronRetrieve, BalanceCredit, BalanceSave, BalanceError, UserNotFound,
           CountTry, CronList, BalanceList, ProcessWrite, RefundWrite,
           StaleCancel, StaleSave,
           RetryWrite, RetryIntent, RetrySave, RetryFail, UserStart, UserWrite,
           ReadOnly, OnlyPayment
  <1>3. ASSUME NEW label, NEW l, GotoWith(r, label, l)
        PROVE  \A q \in Requests \ {r} : pc'[q] = pc[q] /\ ctx'[q] = ctx[q]
    BY <1>1, <1>3 DEF GotoWith, TypeOK
  <1>4. \A q \in Requests \ {r} : pc'[q] = pc[q] /\ ctx'[q] = ctx[q]
    BY <1>3
    DEF CronRetrieve, BalanceCredit, BalanceSave, BalanceError, UserNotFound,
        CountTry, CronList, BalanceList, ProcessWrite, RefundWrite,
        StaleCancel, StaleSave,
        RetryWrite, RetryIntent, RetrySave, RetryFail, UserStart, UserWrite,
        Goto, Start
  <1> QED
    BY <1>1, <1>2, <1>4, KeptRecords

\* What no step does to a record that reads COMPLETED.
CompletedStays ==
    \A e \in Events : record[e] = "completed" => record'[e] = "completed"

LEMMA NextRecords ==
    ASSUME OneWebhook
    PROVE  TypeOK /\ RecordInv /\ [Next]_vars => RecordInv' /\ CompletedStays
  <1> SUFFICES ASSUME TypeOK, RecordInv, [Next]_vars
               PROVE  RecordInv' /\ CompletedStays
    OBVIOUS
  <1> USE DEF dbVars
  <1>0. record' = record => CompletedStays
    BY DEF CompletedStays
  <1>1. ASSUME NEW r \in Requests,
               \/ Claim(r) \/ Revert(r) \/ FailCheck(r) \/ CompleteStep(r)
               \/ FailStep(r) \/ CompleteError(r) \/ LoseCommit(r) \/ StepError(r)
           \/ Crash(r)
        PROVE  RecordInv' /\ CompletedStays
    <2>1. KeepsEvent(r)
      BY <1>1, WorkKeepsEvent
    <2> QED
      BY <1>0, <2>1, KeptRecords DEF KeepsEvent
  <1>2. ASSUME NEW w \in Webhooks,
               WebhookStep(w) \/ \E e \in emitted : Receive(w, e)
        PROVE  RecordInv' /\ CompletedStays
    <2>1. w \in Requests
      BY DEF Requests
    <2>2. CASE \/ Insert(w) \/ Touch(w) \/ Ack(w) \/ Nack(w)
               \/ \E e \in emitted : Receive(w, e)
      BY <2>2, AnswerRecords DEF CompletedStays
    <2> QED
      BY <1>1, <1>2, <2>1, <2>2 DEF WebhookStep
  <1>3. ASSUME NEW r \in Crons \cup Users, NEW p \in Payments,
               \/ CronStep(r) \/ BalanceError(r) \/ CronList(r, p)
               \/ BalanceList(r, p) \/ UserStep(r) \/ UserStart(r, p)
        PROVE  RecordInv' /\ CompletedStays
    <2>1. r \in Requests
      BY DEF Requests
    <2>2. CASE CompleteStep(r) \/ FailStep(r)
      BY <1>1, <2>1, <2>2
    <2> QED
      BY <1>0, <1>3, <2>2, OthersKeepRecords DEF CronStep, UserStep
  <1>4. CASE Environment
    <2>1. CASE UNCHANGED <<record, pc, ctx>>
      BY <1>0, <2>1 DEF RecordInv
    <2>2. ASSUME NEW e \in Events, GoStale(e)
          PROVE  RecordInv' /\ CompletedStays
      BY <2>2 DEF GoStale, RecordInv, CompletedStays, TypeOK
    <2> QED
      BY <1>4, <2>1, <2>2
      DEF Environment, CreateIntent, SavePayment, IntentSucceeds, IntentDeclined,
          Vanish, OnlyPayment
  <1>5. CASE UNCHANGED vars
    BY <1>0, <1>5 DEF vars, RecordInv
  <1>6. PICK p \in Payments : TRUE
    BY PaymentsAssumption
  <1>7. ASSUME NEW u \in Users, NEW q \in Payments, NEW s \in PaymentStatus,
               NEW n \in Attempts, NEW count \in 0 .. RetryLimit,
               UpdatePayment(u, q, s, n, count)
        PROVE  RecordInv' /\ CompletedStays
    BY <1>0, <1>7 DEF UpdatePayment, RecordInv
  <1> QED
    BY <1>1, <1>2, <1>3, <1>4, <1>5, <1>6, <1>7 DEF Next

LEMMA InitRecords == Init => RecordInv
  BY DEF Init, RecordInv, Requests

\* As long as webhook requests come one at a time, beside any crons and users,
\* an event whose processing was recorded as completed stays so.
THEOREM CompletedEventsAreFinal ==
    ASSUME OneWebhook
    PROVE  Spec => CompletedEventIsFinal
  <1>1. TypeOK /\ RecordInv /\ [Next]_vars =>
          [\A e \in Events :
             record[e] = "completed" => record'[e] = "completed"]_record
    BY NextRecords DEF CompletedStays
  <1> QED
    BY <1>1, InitType, NextType, InitRecords, NextRecords, PTL
    DEF Spec, CompletedEventIsFinal

=============================================================================
