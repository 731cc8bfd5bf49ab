----------------------------- MODULE Withdrawals -----------------------------
(***************************************************************************)
(* How a freelancer's availableBalance leaves the platform.                *)
(*                                                                         *)
(* WithdrawalsService.create reserves the amount with one conditional      *)
(* $inc, saves the Withdrawal document and, for the STRIPE method,         *)
(* transfers the money at once; a failure gives the reservation back.      *)
(* Admins process, complete, fail and cancel the other withdrawals by hand.*)
(*                                                                         *)
(* A create request and the document it may save share one name, a member  *)
(* of Withdrawals.  Every step is one database or Stripe round trip, so    *)
(* that requests interleave exactly where the code awaits.  Notifications  *)
(* and the transaction log, whose errors the code swallows, are left out.  *)
(***************************************************************************)
EXTENDS Integers, FiniteSets, Statuses

CONSTANTS
    Freelancers,
    Withdrawals,     \* create requests, each with the document it may save
    Admins,          \* concurrent admin requests
    Keys,            \* idempotency keys clients send
    NoKey,           \* what a request without a key carries
    Kinds,           \* kinds of withdrawal that are requested
    Amounts,         \* amounts that pass the validation of the request
    Funds,           \* the availableBalance a freelancer starts with
    OpenLimit,       \* open withdrawals a freelancer may have (3 in the code)
    FeeEdits,        \* may an admin send a processingFee that differs
    MaxTransfers,    \* bound: Stripe transfers made by hand for a withdrawal
    MaxFaults        \* bound: database errors and crashes in a behaviour

\* The STRIPE method names an account and is transferred by create itself;
\* any other method is processed by hand, with or without an account.
AllKinds == {"stripe", "linked", "bank"}

ASSUME WithdrawalAssumption ==
    /\ Freelancers # {}
    /\ Withdrawals # {}
    /\ Withdrawals \cap Admins = {}
    /\ NoKey \notin Keys
    /\ Kinds \subseteq AllKinds
    /\ Kinds # {}
    /\ Amounts \subseteq Nat
    /\ Amounts # {}
    /\ Funds \in Nat
    /\ FeeEdits \in BOOLEAN
    /\ OpenLimit \in Nat
    /\ MaxTransfers \in Nat
    /\ MaxFaults \in Nat

VARIABLES
    balance,    \* freelancerData.availableBalance of every freelancer
    body,       \* what each create request asks for
    status,     \* Withdrawal.status, "none" until the document is saved
    hasId,      \* the document has a stripeTransferId
    transfers,  \* Stripe transfers made for the withdrawal
    reserved,   \* history: the amount was taken from the balance
    refunds,    \* history: times the amount was given back
    enough,     \* create's local: the balance it read covered the amount
    pc,         \* what each request does next
    target,     \* the withdrawal an admin request is about
    faults      \* database errors and crashes so far

moneyVars == <<balance, reserved, refunds>>
docVars   == <<status, hasId>>
inputVars == <<body, enough, target>>
vars == <<moneyVars, docVars, transfers, inputVars, pc, faults>>

Bodies == [owner : Freelancers, amount : Amounts, key : Keys \cup {NoKey},
           kind : Kinds]

\* How a create request ends: refused, answered with a document, or with the
\* message that the balance has been refunded.
Ends == {"refused", "answered", "refunded", "crashed"}
CreatePCs == {"new", "findkey", "count", "reserve", "save", "unsave",
              "transfer", "process", "complete", "refund", "fail"} \cup Ends
AdminPCs == {"idle", "transferbyhand", "startprocessing", "markcompleted",
             "recheck", "markfailed"}

Open == {"pending", "processing"}
Final == {"completed", "failed"}

Init ==
    /\ balance = [f \in Freelancers |-> Funds]
    /\ body \in [Withdrawals -> Bodies]
    /\ status = [w \in Withdrawals |-> "none"]
    /\ hasId = [w \in Withdrawals |-> FALSE]
    /\ transfers = [w \in Withdrawals |-> 0]
    /\ reserved = [w \in Withdrawals |-> FALSE]
    /\ refunds = [w \in Withdrawals |-> 0]
    /\ enough = [w \in Withdrawals |-> FALSE]
    /\ pc = [r \in Withdrawals \cup Admins |->
               IF r \in Withdrawals THEN "new" ELSE "idle"]
    /\ target = [a \in Admins |-> CHOOSE w \in Withdrawals : TRUE]
    /\ faults = 0

-----------------------------------------------------------------------------
(* create *)

Goto(r, label) == pc' = [pc EXCEPT ![r] = label]

ReadOnly == UNCHANGED <<moneyVars, docVars, transfers, body, target, faults>>

\* The user is read first; the balance is judged later.
ReadUser(w) ==
    /\ pc[w] = "new"
    /\ enough' = [enough EXCEPT ![w] =
                    balance[body[w].owner] >= body[w].amount]
    /\ Goto(w, IF body[w].key = NoKey THEN "count" ELSE "findkey")
    /\ ReadOnly

\* A withdrawal of the same freelancer with the same key is the answer.
SameKey(w, v) == v # w /\ status[v] # "none" /\ body[v].key = body[w].key

FindKey(w) ==
    /\ pc[w] = "findkey"
    /\ Goto(w, IF \E v \in Withdrawals :
                    SameKey(w, v) /\ body[v].owner = body[w].owner
               THEN "answered" ELSE "count")
    /\ UNCHANGED enough
    /\ ReadOnly

OpenOf(f) == {v \in Withdrawals : body[v].owner = f /\ status[v] \in Open}

Count(w) ==
    /\ pc[w] = "count"
    /\ Goto(w, IF Cardinality(OpenOf(body[w].owner)) < OpenLimit /\ enough[w]
               THEN "reserve" ELSE "refused")
    /\ UNCHANGED enough
    /\ ReadOnly

\* One conditional update checks the balance and takes the amount.
CoversStale(w) == enough[w]                                     \* mutant
Covers(w) == balance[body[w].owner] >= body[w].amount

Reserve(w) ==
    /\ pc[w] = "reserve"
    /\ \/ /\ Covers(w)
          /\ balance' = [balance EXCEPT ![body[w].owner] = @ - body[w].amount]
          /\ reserved' = [reserved EXCEPT ![w] = TRUE]
          /\ Goto(w, "save")
       \/ /\ ~Covers(w)
          /\ Goto(w, "refused")
          /\ UNCHANGED <<balance, reserved>>
    /\ UNCHANGED <<refunds, docVars, transfers, inputVars, faults>>

\* The unique index on the key, which does not name the freelancer, decides
\* between two requests that both found no document.
KeyFreeUnindexed(w) == TRUE                                     \* mutant
KeyFree(w) ==
    body[w].key = NoKey \/ \A v \in Withdrawals : ~SameKey(w, v)

OnDuplicateRefused == "refused"                                 \* mutant
OnDuplicate == "unsave"

Save(w) ==
    /\ pc[w] = "save"
    /\ \/ /\ KeyFree(w)
          /\ status' = [status EXCEPT ![w] = "pending"]
          /\ Goto(w, IF body[w].kind = "stripe" THEN "transfer" ELSE "answered")
       \/ /\ ~KeyFree(w)
          /\ Goto(w, OnDuplicate)
          /\ UNCHANGED status
    /\ UNCHANGED <<moneyVars, hasId, transfers, inputVars, faults>>

GiveBack(w) ==
    /\ balance' = [balance EXCEPT ![body[w].owner] = @ + body[w].amount]
    /\ refunds' = [refunds EXCEPT ![w] = @ + 1]
    /\ UNCHANGED reserved

\* The save failed: the reservation is given back.
Unsave(w) ==
    /\ pc[w] = "unsave"
    /\ GiveBack(w)
    /\ Goto(w, "refunded")
    /\ UNCHANGED <<docVars, transfers, inputVars, faults>>

-----------------------------------------------------------------------------
(* The automatic transfer of the STRIPE method *)

AutoTransfer(w) ==
    /\ pc[w] = "transfer"
    /\ \/ /\ transfers' = [transfers EXCEPT ![w] = @ + 1]
          /\ Goto(w, "process")
       \/ /\ Goto(w, "refund")       \* Stripe refuses
          /\ UNCHANGED transfers
    /\ UNCHANGED <<moneyVars, docVars, inputVars, faults>>

\* The next three writes do not look at the status.
AutoProcess(w) ==
    /\ pc[w] = "process"
    /\ status' = [status EXCEPT ![w] = "processing"]
    /\ hasId' = [hasId EXCEPT ![w] = TRUE]
    /\ Goto(w, "complete")
    /\ UNCHANGED <<moneyVars, transfers, inputVars, faults>>

CompletedAsProcessing == "processing"                           \* mutant
CompletedAsPaid == "paid"                                       \* mutant
CompletedAs == "completed"

AutoComplete(w) ==
    /\ pc[w] = "complete"
    /\ status' = [status EXCEPT ![w] = CompletedAs]
    /\ Goto(w, "answered")
    /\ UNCHANGED <<moneyVars, hasId, transfers, inputVars, faults>>

\* The error path: refund, mark failed, report the refund.
AutoRefund(w) ==
    /\ pc[w] = "refund"
    /\ GiveBack(w)
    /\ Goto(w, "fail")
    /\ UNCHANGED <<docVars, transfers, inputVars, faults>>

AutoFail(w) ==
    /\ pc[w] = "fail"
    /\ status' = [status EXCEPT ![w] = "failed"]
    /\ Goto(w, "refunded")
    /\ UNCHANGED <<moneyVars, hasId, transfers, inputVars, faults>>

CreateStep(w) ==
    \/ ReadUser(w) \/ FindKey(w) \/ Count(w) \/ Reserve(w)
    \/ Save(w) \/ Unsave(w)
    \/ AutoTransfer(w) \/ AutoProcess(w) \/ AutoComplete(w)
    \/ AutoRefund(w) \/ AutoFail(w)

-----------------------------------------------------------------------------
(* Admin requests: findById, then the action *)

StartAdmin(a, w, label) ==
    /\ pc[a] = "idle"
    /\ Goto(a, label)
    /\ target' = [target EXCEPT ![a] = w]
    /\ UNCHANGED <<moneyVars, docVars, transfers, body, enough, faults>>

\* processWithdrawal transfers the money unless there is no account or the
\* admin names a transfer that was made elsewhere.
Processable(w) == status[w] = "pending"

ProcessStart(a, w) ==
    /\ Processable(w)
    /\ \/ body[w].kind # "bank" /\ StartAdmin(a, w, "transferbyhand")
       \/ StartAdmin(a, w, "startprocessing")

\* The fee is compared only after the transfer.
TransferByHand(a) ==
    LET w == target[a] IN
    /\ pc[a] = "transferbyhand"
    /\ \/ /\ transfers[w] < MaxTransfers
          /\ transfers' = [transfers EXCEPT ![w] = @ + 1]
          /\ \/ Goto(a, "startprocessing")
             \/ FeeEdits /\ Goto(a, "idle")
       \/ /\ Goto(a, "idle")         \* Stripe refuses
          /\ UNCHANGED transfers
    /\ UNCHANGED <<moneyVars, docVars, inputVars, faults>>

\* The update does not look at the status again.
StartProcessing(a) ==
    LET w == target[a] IN
    /\ pc[a] = "startprocessing"
    /\ status' = [status EXCEPT ![w] = "processing"]
    /\ hasId' = [hasId EXCEPT ![w] = @ \/ body[w].kind # "bank"]
    /\ Goto(a, "idle")
    /\ UNCHANGED <<moneyVars, transfers, inputVars, faults>>

CompletableOpen(w) == status[w] \in Open                        \* mutant
Completable(w) == status[w] = "processing"

CompleteStart(a, w) == Completable(w) /\ StartAdmin(a, w, "markcompleted")

MarkCompleted(a) ==
    /\ pc[a] = "markcompleted"
    /\ status' = [status EXCEPT ![target[a]] = "completed"]
    /\ Goto(a, "idle")
    /\ UNCHANGED <<moneyVars, hasId, transfers, inputVars, faults>>

Failable(w) == status[w] \in Open

FailStart(a, w) == Failable(w) /\ StartAdmin(a, w, "markfailed")

\* remove reads a pending withdrawal and calls failWithdrawal, which reads it
\* again.
CancelStart(a, w) == status[w] = "pending" /\ StartAdmin(a, w, "recheck")

Recheck(a) ==
    /\ pc[a] = "recheck"
    /\ Goto(a, IF Failable(target[a]) THEN "markfailed" ELSE "idle")
    /\ UNCHANGED enough
    /\ ReadOnly

\* The refund is addressed to the object findById built for the answer, not
\* to the freelancer's id: the update is rejected, the error is swallowed and
\* the balance stays as it is.
MarkFailed(a) ==
    /\ pc[a] = "markfailed"
    /\ status' = [status EXCEPT ![target[a]] = "failed"]
    /\ Goto(a, "idle")
    /\ UNCHANGED <<moneyVars, hasId, transfers, inputVars, faults>>

AdminStep(a) ==
    \/ TransferByHand(a) \/ StartProcessing(a) \/ MarkCompleted(a)
    \/ Recheck(a) \/ MarkFailed(a)

AdminStart(a, w) ==
    \/ ProcessStart(a, w) \/ CompleteStart(a, w)
    \/ FailStart(a, w) \/ CancelStart(a, w)

-----------------------------------------------------------------------------
(* Faults *)

\* What a database error leads to: the catch of save, the catch of the
\* automatic transfer, or the refund's own catch, which still reports a
\* refund.  Anywhere else the request fails.
AfterError(w) ==
    CASE pc[w] = "save" -> "unsave"
      [] pc[w] \in {"process", "complete"} -> "refund"
      [] pc[w] \in {"refund", "fail"} -> "refunded"
      [] OTHER -> "refused"

Fault == faults < MaxFaults /\ faults' = faults + 1

CreateError(w) ==
    /\ pc[w] \notin Ends \cup {"transfer"}
    /\ Fault
    /\ Goto(w, AfterError(w))
    /\ UNCHANGED <<moneyVars, docVars, transfers, inputVars>>

AdminError(a) ==
    /\ pc[a] # "idle"
    /\ Fault
    /\ Goto(a, "idle")
    /\ UNCHANGED <<moneyVars, docVars, transfers, inputVars>>

Crash(w) ==
    /\ pc[w] \notin Ends
    /\ Fault
    /\ Goto(w, "crashed")
    /\ UNCHANGED <<moneyVars, docVars, transfers, inputVars>>

-----------------------------------------------------------------------------
Next ==
    \/ \E w \in Withdrawals : CreateStep(w) \/ CreateError(w) \/ Crash(w)
    \/ \E a \in Admins :
         \/ AdminStep(a)
         \/ AdminError(a)
         \/ \E w \in Withdrawals : AdminStart(a, w)

Spec == Init /\ [][Next]_vars

\* A request that has begun takes its next step.
FairSpec == Spec /\ \A w \in Withdrawals : WF_vars(CreateStep(w))

-----------------------------------------------------------------------------
(* Properties *)

\* Type invariant.
TypeOK ==
    /\ balance \in [Freelancers -> Int]
    /\ body \in [Withdrawals -> Bodies]
    /\ status \in [Withdrawals -> {"none"} \cup WithdrawalStatus]
    /\ hasId \in [Withdrawals -> BOOLEAN]
    /\ transfers \in [Withdrawals -> Nat]
    /\ reserved \in [Withdrawals -> BOOLEAN]
    /\ refunds \in [Withdrawals -> Nat]
    /\ enough \in [Withdrawals -> BOOLEAN]
    /\ pc \in [Withdrawals \cup Admins -> CreatePCs \cup AdminPCs]
    /\ target \in [Admins -> Withdrawals]
    /\ faults \in Nat

\* However many withdrawals of one freelancer are created at the same time,
\* together they never take more than the balance holds.
NeverOverdrawn == \A f \in Freelancers : balance[f] >= 0

\* A withdrawal to a Stripe account that is processing or completed has the id
\* of its transfer, whichever of create and the admin requests interleave.
ProcessedIsTransferred ==
    \A w \in Withdrawals :
        (body[w].kind # "bank" /\ status[w] \in {"processing", "completed"})
            => hasId[w]

\* Until an error or a crash: when a create request has ended, the amount it
\* took is back in the balance or a document accounts for it; the loser of a
\* race on one idempotency key does not keep the money.
ReservationAccounted ==
    faults = 0 =>
        \A w \in Withdrawals :
            (pc[w] \in {"refused", "answered", "refunded"} /\ reserved[w])
                => status[w] # "none" \/ refunds[w] = 1

\* Until an error or a crash: requests that carry one freelancer's idempotency
\* key withdraw once.
KeyWithdrawsOnce ==
    faults = 0 => \A v, w \in Withdrawals :
        LET kept(u) == reserved[u] /\ refunds[u] = 0 /\ pc[u] \in Ends
        IN  /\ v # w
            /\ body[v].key = body[w].key
            /\ body[v].key # NoKey
            /\ body[v].owner = body[w].owner
            => ~(kept(v) /\ kept(w))

\* While the database answers, no server dies and no admin steps in, a STRIPE
\* withdrawal whose amount was taken ends up completed, or refunded.
AutoSettles ==
    [](faults = 0 /\ \A a \in Admins : pc[a] = "idle") =>
        \A w \in Withdrawals :
            (reserved[w] /\ body[w].kind = "stripe")
                ~> (status[w] = "completed" \/ refunds[w] > 0)

\* To the freelancers, a withdrawal takes its amount and may give it back.
Taken(w) ==
    IF ~reserved[w] THEN "no" ELSE IF refunds[w] = 0 THEN "yes" ELSE "returned"

Accounts == INSTANCE FreelancerAccounts WITH
    pending <- [f \in Freelancers |-> 0],
    available <- balance,
    request <- [w \in Withdrawals |->
                  [owner |-> body[w].owner, amount |-> body[w].amount]],
    taken <- [w \in Withdrawals |-> Taken(w)]

\* Withdrawals implement the freelancers' accounts: a request takes no more
\* than is there, and whatever error path gives money back gives back what that
\* request took, once.
KeepAccounts == Accounts!Spec

-----------------------------------------------------------------------------
(* Expected, and false of the code: the README says where *)

\* One reservation leaves the platform or returns to the balance at most once.
PaidOnce ==
    \A w \in Withdrawals :
        transfers[w] + refunds[w] <= (IF reserved[w] THEN 1 ELSE 0)

\* A settled withdrawal stays settled.
FinalIsFinal ==
    [][\A w \in Withdrawals : status[w] \in Final => status'[w] = status[w]]_status

\* No transfer is executed for a withdrawal that has a transfer id already.
TransferOnlyWithoutId ==
    [][\A w \in Withdrawals : hasId[w] => transfers'[w] = transfers[w]]_vars

\* A withdrawal whose transfer was made is not refunded as well.
RefundedIsUntransferred ==
    \A w \in Withdrawals : refunds[w] > 0 => transfers[w] = 0

\* The amount of a failed withdrawal is back in the balance.
FailedIsRefunded ==
    \A w \in Withdrawals : status[w] = "failed" => refunds[w] > 0

\* A freelancer never has more open withdrawals than the limit.
OpenWithinLimit ==
    \A f \in Freelancers : Cardinality(OpenOf(f)) <= OpenLimit

\* A request that is told its balance has been refunded has been refunded.
ReportedIsRefunded ==
    \A w \in Withdrawals : pc[w] = "refunded" => refunds[w] > 0

=============================================================================
