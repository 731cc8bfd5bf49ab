--------------------------- MODULE MilestoneEscrow ---------------------------
(***************************************************************************)
(* How escrow money reaches the freelancer, milestone by milestone.        *)
(*                                                                         *)
(* A paid contract holds totalPaid; the same amount is in the freelancer's *)
(* pendingBalance.  MilestonesService.approve moves one milestone's amount *)
(* from pendingBalance to availableBalance, counts it in the contract's    *)
(* releasedAmount, and completes the contract when its last milestone is   *)
(* approved.  Cancelling an active contract refunds what is not released.  *)
(*                                                                         *)
(* All contracts here belong to one freelancer, whose pendingBalance is    *)
(* one number for all of them.  Every request is a process that keeps what *)
(* it read; every step is one database or Stripe round trip.  The order    *)
(* field, deliverables, notifications, the transaction log and the         *)
(* freelancer's completedJobs statistic are left out.                      *)
(***************************************************************************)
EXTENDS Integers, FiniteSets, FiniteSetsExt, Statuses

CONSTANTS
    Contracts,
    Milestones,
    ContractOf,      \* the contract of every milestone
    Requests,        \* concurrent client and freelancer requests
    Total,           \* contract.totalAmount
    Fee,             \* what the client is charged on top of it
    Amounts,         \* milestone amounts clients choose
    Elsewheres,      \* statuses other components set: ACTIVE, DISPUTED,
                     \* CANCELLED
    Transactions,    \* can completeContract run in a transaction
    MaxApprovals,    \* bound: approvals counted on a contract
    MaxFaults        \* bound: database errors and crashes in a behaviour

ASSUME EscrowAssumption ==
    /\ ContractOf \in [Milestones -> Contracts]
    /\ IsFiniteSet(Milestones)
    /\ Total \in [Contracts -> Nat]
    /\ Fee \in Nat
    /\ Amounts \subseteq Nat
    /\ Elsewheres \subseteq {"active", "disputed", "cancelled"}
    /\ Transactions \in BOOLEAN
    /\ MaxApprovals \in Nat
    /\ MaxFaults \in Nat

VARIABLES
    cstatus,     \* Contract.status
    paid,        \* Contract.totalPaid
    released,    \* Contract.releasedAmount
    mcount,      \* Contract.milestoneCount
    mdone,       \* Contract.completedMilestones
    jobDone,     \* the contract's job is COMPLETED
    mstatus,     \* Milestone.status, "none" until it is inserted
    deleted,     \* Milestone.deletedAt is set
    amount,      \* Milestone.amount
    pending,     \* freelancerData.pendingBalance
    available,   \* the part of availableBalance that milestones released
    credited,    \* history: what payments have put into pendingBalance
    refunded,    \* Stripe: what was refunded of every contract's charge
    releases,    \* history: times a milestone's amount was moved
    pc,          \* what each request does next
    ctx,         \* what each request has read
    faults       \* database errors and crashes so far

contractVars  == <<cstatus, paid, released, mcount, mdone, jobDone>>
milestoneVars == <<mstatus, deleted, amount>>
balanceVars   == <<pending, available, credited, releases>>
vars == <<contractVars, milestoneVars, balanceVars, refunded, pc, ctx, faults>>

MStatus == MilestoneStatus \cup {"none"}
Cents == Nat

\* What a request keeps of its reads: the milestone or contract it is about,
\* the status or amount it will write, the milestone's amount and the
\* contract's totalPaid and releasedAmount.
Locals == [m : Milestones \cup {"none"}, c : Contracts \cup {"none"},
           to : MStatus, amt : Cents, paid : Cents, rel : Cents]

NoLocals == [m |-> "none", c |-> "none", to |-> "none", amt |-> 0, paid |-> 0,
             rel |-> 0]

PCs == {"idle", "insert", "countup", "update", "write", "remove", "countdown",
        "countdone", "checkpending", "release", "credit", "finish",
        "complete", "completejob", "setcompleted", "refund", "cancel"}

Existing(c) == {m \in Milestones :
                  ContractOf[m] = c /\ mstatus[m] # "none" /\ ~deleted[m]}

\* createContract has saved the contract with at least one milestone, whose
\* amounts do not exceed the total.
Init ==
    /\ cstatus = [c \in Contracts |-> "pending_payment"]
    /\ paid = [c \in Contracts |-> 0]
    /\ released = [c \in Contracts |-> 0]
    /\ mdone = [c \in Contracts |-> 0]
    /\ jobDone = [c \in Contracts |-> FALSE]
    /\ mstatus \in [Milestones -> {"none", "pending"}]
    /\ deleted = [m \in Milestones |-> FALSE]
    /\ amount \in [Milestones -> Amounts]
    /\ mcount = [c \in Contracts |-> Cardinality(Existing(c))]
    /\ \A c \in Contracts :
         /\ mcount[c] > 0
         /\ MapThenSumSet(LAMBDA m : amount[m], Existing(c)) <= Total[c]
    /\ pending = 0
    /\ available = 0
    /\ credited = 0
    /\ refunded = [c \in Contracts |-> 0]
    /\ releases = [m \in Milestones |-> 0]
    /\ pc = [r \in Requests |-> "idle"]
    /\ ctx = [r \in Requests |-> NoLocals]
    /\ faults = 0

\* A request that has ended forgets what it read.
Goto(r, label) ==
    /\ pc' = [pc EXCEPT ![r] = label]
    /\ ctx' = [ctx EXCEPT ![r] = IF label = "idle" THEN NoLocals ELSE @]

\* A request reads the contract and starts.
Start(r, label, m, c, to, amt) ==
    /\ pc[r] = "idle"
    /\ pc' = [pc EXCEPT ![r] = label]
    /\ ctx' = [ctx EXCEPT ![r] = [m |-> m, c |-> c, to |-> to, amt |-> amt,
                                  paid |-> paid[c], rel |-> released[c]]]
    /\ UNCHANGED <<contractVars, milestoneVars, balanceVars, refunded, faults>>

OnlyContract  == UNCHANGED <<milestoneVars, balanceVars, refunded, faults>>
OnlyMilestone == UNCHANGED <<contractVars, balanceVars, refunded, faults>>

SetStatus(c, s) ==
    /\ cstatus' = [cstatus EXCEPT ![c] = s]
    /\ UNCHANGED <<paid, released, mcount, mdone, jobDone>>

-----------------------------------------------------------------------------
(* The other components that touch the contract *)

\* completePayment funds and activates the contract, whatever its status.
Fund(c) ==
    /\ paid[c] = 0
    /\ paid' = [paid EXCEPT ![c] = Total[c]]
    /\ cstatus' = [cstatus EXCEPT ![c] = "active"]
    /\ pending' = pending + Total[c]
    /\ credited' = credited + Total[c]
    /\ UNCHANGED <<released, mcount, mdone, jobDone, milestoneVars, available,
                   releases, refunded, pc, ctx, faults>>

\* startContract does not look at the status, nor does the admin's cancel;
\* disputes take any contract to DISPUTED and back to ACTIVE.
SetElsewhere(c) ==
    /\ \E s \in Elsewheres : SetStatus(c, s)
    /\ UNCHANGED <<pc, ctx>>
    /\ OnlyContract

-----------------------------------------------------------------------------
(* Creating, changing and deleting milestones *)

CreateStart(r, m, a) ==
    /\ mstatus[m] = "none"
    /\ \A q \in Requests : pc[q] = "insert" => ctx[q].m # m
    /\ cstatus[ContractOf[m]] = "active"
    /\ Start(r, "insert", m, ContractOf[m], "pending", a)

\* Nothing compares the amounts with the contract's total.
Insert(r) ==
    /\ pc[r] = "insert"
    /\ mstatus' = [mstatus EXCEPT ![ctx[r].m] = "pending"]
    /\ amount' = [amount EXCEPT ![ctx[r].m] = ctx[r].amt]
    /\ Goto(r, "countup")
    /\ UNCHANGED deleted
    /\ OnlyMilestone

CountUp(r) ==
    /\ pc[r] = "countup"
    /\ mcount' = [mcount EXCEPT ![ctx[r].c] = @ + 1]
    /\ Goto(r, "idle")
    /\ UNCHANGED <<cstatus, paid, released, mdone, jobDone>>
    /\ OnlyContract

Editable == {"pending", "in-progress", "rejected"}

UpdateStart(r, m, a) ==
    /\ m \in Existing(ContractOf[m])
    /\ mstatus[m] \in Editable
    /\ Start(r, "update", m, ContractOf[m], "none", a)

Update(r) ==
    /\ pc[r] = "update"
    /\ amount' = [amount EXCEPT ![ctx[r].m] = ctx[r].amt]
    /\ Goto(r, "idle")
    /\ UNCHANGED <<mstatus, deleted>>
    /\ OnlyMilestone

DeleteStart(r, m) ==
    /\ m \in Existing(ContractOf[m])
    /\ mstatus[m] \in Editable
    /\ Start(r, "remove", m, ContractOf[m], "none", 0)

Remove(r) ==
    /\ pc[r] = "remove"
    /\ deleted' = [deleted EXCEPT ![ctx[r].m] = TRUE]
    /\ Goto(r, "countdown")
    /\ UNCHANGED <<mstatus, amount>>
    /\ OnlyMilestone

DroppedDown(c) == mcount                                        \* mutant
CountedDown(c) == [mcount EXCEPT ![c] = @ - 1]

CountDown(r) ==
    /\ pc[r] = "countdown"
    /\ mcount' = CountedDown(ctx[r].c)
    /\ Goto(r, "idle")
    /\ UNCHANGED <<cstatus, paid, released, mdone, jobDone>>
    /\ OnlyContract

-----------------------------------------------------------------------------
(* submit, reject, markInProgress and approve *)

\* The statuses from which a milestone may be brought to another one.
FromResubmitting(to) ==                                         \* mutant
    CASE to = "submitted"   -> {"in-progress", "pending", "approved"}
      [] to = "in-progress" -> {"pending", "rejected"}
      [] to \in {"rejected", "approved"} -> {"submitted"}

From(to) ==
    CASE to = "submitted"   -> {"in-progress", "pending"}
      [] to = "in-progress" -> {"pending", "rejected"}
      [] to \in {"rejected", "approved"} -> {"submitted"}

MoveStart(r, m, to) ==
    /\ m \in Existing(ContractOf[m])
    /\ mstatus[m] \in From(to)
    /\ to = "approved" => mdone[ContractOf[m]] < MaxApprovals
    /\ Start(r, "write", m, ContractOf[m], to, amount[m])

\* The update does not look at the status again.
Write(r) ==
    /\ pc[r] = "write"
    /\ mstatus' = [mstatus EXCEPT ![ctx[r].m] = ctx[r].to]
    /\ Goto(r, IF ctx[r].to = "approved" THEN "countdone" ELSE "idle")
    /\ UNCHANGED <<deleted, amount>>
    /\ OnlyMilestone

-----------------------------------------------------------------------------
(* The rest of approve: the milestone is APPROVED already *)

\* The checks use the contract as it was read at the start.
CoveredAlways(l) == l.paid # 0                                  \* mutant
Covered(l) == l.paid # 0 /\ Total[l.c] - l.rel >= l.amt

CountDone(r) ==
    /\ pc[r] = "countdone"
    /\ mdone' = [mdone EXCEPT ![ctx[r].c] = @ + 1]
    /\ Goto(r, IF Covered(ctx[r]) THEN "checkpending" ELSE "idle")
    /\ UNCHANGED <<cstatus, paid, released, mcount, jobDone>>
    /\ OnlyContract

CheckPending(r) ==
    /\ pc[r] = "checkpending"
    /\ Goto(r, IF pending >= ctx[r].amt THEN "release" ELSE "idle")
    /\ UNCHANGED <<contractVars, milestoneVars, balanceVars, refunded, faults>>

CountedNet(l) == [released EXCEPT ![l.c] = @ + l.amt - Fee]      \* mutant
Counted(l) == [released EXCEPT ![l.c] = @ + l.amt]

Release(r) ==
    /\ pc[r] = "release"
    /\ released' = Counted(ctx[r])
    /\ Goto(r, "credit")
    /\ UNCHANGED <<cstatus, paid, mcount, mdone, jobDone>>
    /\ OnlyContract

\* One conditional update checks the pending balance and moves the amount.
MovesUnchecked(amt) == TRUE                                     \* mutant
Moves(amt) == pending >= amt

Credit(r) ==
    /\ pc[r] = "credit"
    /\ \/ /\ Moves(ctx[r].amt)
          /\ pending' = pending - ctx[r].amt
          /\ available' = available + ctx[r].amt
          /\ releases' = [releases EXCEPT ![ctx[r].m] = @ + 1]
          /\ Goto(r, "finish")
       \/ /\ ~Moves(ctx[r].amt)
          /\ Goto(r, "idle")
          /\ UNCHANGED <<pending, available, releases>>
    /\ UNCHANGED <<contractVars, milestoneVars, credited, refunded, faults>>

AllDoneEarly(c) == mdone[c] + 1 >= mcount[c]                     \* mutant
AllDone(c) == mdone[c] = mcount[c]

Finish(r) ==
    /\ pc[r] = "finish"
    /\ Goto(r, IF AllDone(ctx[r].c) THEN "complete" ELSE "idle")
    /\ UNCHANGED <<contractVars, milestoneVars, balanceVars, refunded, faults>>

Complete(r) ==
    /\ pc[r] = "complete"
    /\ SetStatus(ctx[r].c, "completed")
    /\ Goto(r, "completejob")
    /\ OnlyContract

CompleteJob(r) ==
    /\ pc[r] = "completejob"
    /\ jobDone' = [jobDone EXCEPT ![ctx[r].c] = TRUE]
    /\ Goto(r, "idle")
    /\ UNCHANGED <<cstatus, paid, released, mcount, mdone>>
    /\ OnlyContract

-----------------------------------------------------------------------------
(* completeContract and cancelContract *)

\* With transactions the check and the write are one step.
CompleteContract(r, c) ==
    /\ cstatus[c] = "active"
    /\ \/ /\ Transactions
          /\ pc[r] = "idle"
          /\ SetStatus(c, "completed")
          /\ UNCHANGED <<pc, ctx>>
          /\ OnlyContract
       \/ ~Transactions /\ Start(r, "setcompleted", "none", c, "none", 0)

SetCompleted(r) ==
    /\ pc[r] = "setcompleted"
    /\ SetStatus(ctx[r].c, "completed")
    /\ Goto(r, "idle")
    /\ OnlyContract

\* An active contract is refunded what was not released when it was read.
CancelStart(r, c) ==
    /\ cstatus[c] \notin {"completed", "cancelled", "disputed"}
    /\ Start(r, IF cstatus[c] = "active" /\ paid[c] > released[c]
                THEN "refund" ELSE "cancel", "none", c, "none", 0)

\* Stripe refuses to refund more than was charged; a refused refund does not
\* stop the cancellation.
Refund(r) ==
    LET c == ctx[r].c
        due == ctx[r].paid - ctx[r].rel
    IN
    /\ pc[r] = "refund"
    /\ \/ /\ refunded[c] + due <= Total[c] + Fee
          /\ refunded' = [refunded EXCEPT ![c] = @ + due]
       \/ UNCHANGED refunded
    /\ Goto(r, "cancel")
    /\ UNCHANGED <<contractVars, milestoneVars, balanceVars, faults>>

Cancel(r) ==
    /\ pc[r] = "cancel"
    /\ SetStatus(ctx[r].c, "cancelled")
    /\ Goto(r, "idle")
    /\ OnlyContract

-----------------------------------------------------------------------------
\* A database error or a crash ends a request between two of its steps.
Fault(r) ==
    /\ pc[r] # "idle"
    /\ faults < MaxFaults
    /\ faults' = faults + 1
    /\ Goto(r, "idle")
    /\ UNCHANGED <<contractVars, milestoneVars, balanceVars, refunded>>

Step(r) ==
    \/ Insert(r) \/ CountUp(r) \/ Update(r) \/ Remove(r) \/ CountDown(r)
    \/ Write(r) \/ CountDone(r) \/ CheckPending(r) \/ Release(r) \/ Credit(r)
    \/ Finish(r) \/ Complete(r) \/ CompleteJob(r)
    \/ SetCompleted(r) \/ Refund(r) \/ Cancel(r)

Begin(r) ==
    \/ \E c \in Contracts : CompleteContract(r, c) \/ CancelStart(r, c)
    \/ \E m \in Milestones :
         \/ \E a \in Amounts : CreateStart(r, m, a) \/ UpdateStart(r, m, a)
         \/ DeleteStart(r, m)
         \/ \E to \in {"submitted", "in-progress", "rejected", "approved"} :
              MoveStart(r, m, to)

Next ==
    \/ \E c \in Contracts : Fund(c) \/ SetElsewhere(c)
    \/ \E r \in Requests : Begin(r) \/ Step(r) \/ Fault(r)

Spec == Init /\ [][Next]_vars

-----------------------------------------------------------------------------
(* Properties *)

\* Type invariant.
TypeOK ==
    /\ cstatus \in [Contracts -> ContractStatus]
    /\ paid \in [Contracts -> Cents]
    /\ released \in [Contracts -> Cents]
    /\ mcount \in [Contracts -> Int]
    /\ mdone \in [Contracts -> Nat]
    /\ jobDone \in [Contracts -> BOOLEAN]
    /\ mstatus \in [Milestones -> MStatus]
    /\ deleted \in [Milestones -> BOOLEAN]
    /\ amount \in [Milestones -> Cents]
    /\ pending \in Cents
    /\ available \in Cents
    /\ credited \in Cents
    /\ refunded \in [Contracts -> Int]
    /\ releases \in [Milestones -> Nat]
    /\ pc \in [Requests -> PCs]
    /\ ctx \in [Requests -> Locals]
    /\ faults \in Nat

\* However approvals race, are repeated or fail halfway, milestones never make
\* more money available than payments have credited to the freelancer.
NeverMoreThanCredited == available <= credited

\* A contract never releases more than its total, when its requests do not
\* overlap: the amounts of its milestones may well exceed it.
ReleasedWithinTotal == \A c \in Contracts : released[c] <= Total[c]

\* The amount of a milestone is moved at most once.
ReleasedOnce == \A m \in Milestones : releases[m] <= 1

\* What the freelancer got from milestones is counted in the contracts'
\* released amounts, whatever crashes or fails between the two writes of
\* approve, so that no cancellation refunds it as well.
AvailableIsCounted ==
    available <= MapThenSumSet(LAMBDA c : released[c], Contracts)

Quiet == \A r \in Requests : pc[r] = "idle"

\* Between requests the contract's two counters count its milestones.
CountersMatch ==
    Quiet => \A c \in Contracts :
        /\ mcount[c] = Cardinality(Existing(c))
        /\ mdone[c] = Cardinality({m \in Existing(c) : mstatus[m] = "approved"})

\* An approval that completes the contract finds every milestone approved.
CompletedIsApproved ==
    \A r \in Requests : pc[r] = "complete" =>
        \A m \in Existing(ctx[r].c) : mstatus[m] = "approved"

\* To the freelancer, whatever the requests do is a deposit or a release.
Accounts == INSTANCE FreelancerAccounts WITH
    Freelancers <- {"freelancer"},
    Withdrawals <- {},
    pending <- [f \in {"freelancer"} |-> pending],
    available <- [f \in {"freelancer"} |-> available],
    request <- [w \in {} |-> 0],
    taken <- [w \in {} |-> 0]

\* Milestones implement the freelancer's account: an approval moves to
\* availableBalance exactly what it takes from pendingBalance, in one step,
\* and nothing else ever moves either of them but a payment.
KeepsAccount == Accounts!Spec

-----------------------------------------------------------------------------
(* Expected, and false of the code: the README says where *)

\* Between requests, an approved milestone has been paid to the freelancer.
ApprovedIsReleased ==
    Quiet => \A m \in Milestones : mstatus[m] = "approved" => releases[m] > 0

\* What a contract refunds to its client is not released to its freelancer.
RefundedIsNotReleased ==
    \A c \in Contracts : refunded[c] + released[c] <= paid[c]

=============================================================================
