------------------------ MODULE MilestoneEscrowProofs ------------------------
(***************************************************************************)
(* What holds of MilestoneEscrow for any contracts, milestones, amounts    *)
(* and concurrent requests, and what holds when requests do not overlap.   *)
(***************************************************************************)
EXTENDS MilestoneEscrow, FiniteSetTheorems, WellFoundedInduction, TLAPS

(***************************************************************************)
(* Type correctness                                                        *)
(***************************************************************************)

\* Where an update outside a function's domain changes nothing.
LEMMA ExceptType ==
    ASSUME NEW S, NEW T, NEW f \in [S -> T], NEW d, NEW v, d \in S => v \in T
    PROVE  [f EXCEPT ![d] = v] \in [S -> T]
  OBVIOUS

\* A request that moves on keeps what it read, or forgets it.
LEMMA GotoType ==
    ASSUME TypeOK, NEW r \in Requests, NEW label \in PCs, Goto(r, label)
    PROVE  pc' \in [Requests -> PCs] /\ ctx' \in [Requests -> Locals]
  <1>1. NoLocals \in Locals
    BY DEF NoLocals, Locals, MStatus, Cents
  <1> QED
    BY <1>1 DEF Goto, TypeOK

LEMMA StartType ==
    ASSUME TypeOK, NEW r \in Requests, NEW label \in PCs,
           NEW m \in Milestones \cup {"none"}, NEW c \in Contracts, NEW to \in MStatus, NEW amt \in Cents,
           Start(r, label, m, c, to, amt)
    PROVE  TypeOK'
  <1>1. [m |-> m, c |-> c, to |-> to, amt |-> amt, paid |-> paid[c],
         rel |-> released[c]] \in Locals
    BY DEF TypeOK, Locals
  <1>2. pc' \in [Requests -> PCs] /\ ctx' \in [Requests -> Locals]
    BY <1>1 DEF Start, TypeOK
  <1> QED
    BY <1>2 DEF Start, TypeOK, contractVars, milestoneVars, balanceVars

\* What a request has read.
LEMMA LocalsType ==
    ASSUME TypeOK, NEW r \in Requests
    PROVE  /\ ctx[r].m \in Milestones \cup {"none"}
           /\ ctx[r].c \in Contracts \cup {"none"}
           /\ ctx[r].to \in MStatus
           /\ ctx[r].amt \in Nat /\ ctx[r].paid \in Nat /\ ctx[r].rel \in Nat
  BY DEF TypeOK, Locals, Cents

LEMMA InitType == Init => TypeOK
  <1> SUFFICES ASSUME Init
               PROVE  TypeOK
    OBVIOUS
  <1> USE DEF Init
  <1>1. \A c \in Contracts : Cardinality(Existing(c)) \in Nat
    <2> TAKE c \in Contracts
    <2>1. IsFiniteSet(Existing(c))
      BY FS_Subset, EscrowAssumption DEF Existing
    <2> QED
      BY <2>1, FS_CardinalityType
  <1>2. mcount \in [Contracts -> Int]
    BY <1>1
  <1>3. cstatus \in [Contracts -> ContractStatus]
    BY DEF ContractStatus
  <1>4. /\ paid \in [Contracts -> Cents] /\ released \in [Contracts -> Cents]
        /\ mdone \in [Contracts -> Nat] /\ jobDone \in [Contracts -> BOOLEAN]
        /\ refunded \in [Contracts -> Int]
    BY DEF Cents
  <1>5. mstatus \in [Milestones -> MStatus]
    BY DEF MStatus, MilestoneStatus
  <1>6. amount \in [Milestones -> Cents]
    BY EscrowAssumption DEF Cents
  <1>7. /\ deleted \in [Milestones -> BOOLEAN]
        /\ releases \in [Milestones -> Nat]
        /\ pending \in Cents /\ available \in Cents /\ credited \in Cents
        /\ faults \in Nat
    BY DEF Cents
  <1>8. pc \in [Requests -> PCs]
    BY DEF PCs
  <1>9. ctx \in [Requests -> Locals]
    BY DEF NoLocals, Locals, MStatus, Cents
  <1> QED
    BY <1>2, <1>3, <1>4, <1>5, <1>6, <1>7, <1>8, <1>9 DEF TypeOK

LEMMA BeginType ==
    ASSUME TypeOK, NEW r \in Requests, Begin(r)
    PROVE  TypeOK'
  <1>1. {"insert", "update", "remove", "write", "setcompleted", "refund",
         "cancel"} \subseteq PCs
    BY DEF PCs
  <1>2. /\ {"none", "pending", "submitted", "in-progress", "rejected",
            "approved"} \subseteq MStatus
        /\ "completed" \in ContractStatus
    BY DEF MStatus, MilestoneStatus, ContractStatus
  <1>3. 0 \in Cents /\ Amounts \subseteq Cents
    BY EscrowAssumption DEF Cents
  <1>5. ASSUME NEW m \in Milestones
        PROVE  ContractOf[m] \in Contracts /\ amount[m] \in Cents
    BY EscrowAssumption DEF TypeOK
  <1>6. ASSUME NEW c \in Contracts, CompleteContract(r, c)
        PROVE  TypeOK'
    <2>1. CASE Start(r, "setcompleted", "none", c, "none", 0)
      BY <1>1, <1>2, <1>3, <2>1, StartType
    <2>2. CASE SetStatus(c, "completed") /\ UNCHANGED <<pc, ctx>> /\ OnlyContract
      BY <1>2, <2>2 DEF SetStatus, OnlyContract, milestoneVars, balanceVars,
                        TypeOK
    <2> QED
      BY <1>6, <2>1, <2>2 DEF CompleteContract
  <1>7. ASSUME NEW c \in Contracts, CancelStart(r, c)
        PROVE  TypeOK'
    <2>1. PICK label \in PCs : Start(r, label, "none", c, "none", 0)
      BY <1>1, <1>7 DEF CancelStart
    <2> QED
      BY <1>2, <1>3, <2>1, StartType
  <1>8. ASSUME NEW m \in Milestones, NEW a \in Amounts,
               CreateStart(r, m, a) \/ UpdateStart(r, m, a)
        PROVE  TypeOK'
    BY <1>1, <1>2, <1>3, <1>5, <1>8, StartType DEF CreateStart, UpdateStart
  <1>9. ASSUME NEW m \in Milestones, DeleteStart(r, m)
        PROVE  TypeOK'
    BY <1>1, <1>2, <1>3, <1>5, <1>9, StartType DEF DeleteStart
  <1>10. ASSUME NEW m \in Milestones,
                NEW to \in {"submitted", "in-progress", "rejected", "approved"},
                MoveStart(r, m, to)
         PROVE  TypeOK'
    BY <1>1, <1>2, <1>5, <1>10, StartType DEF MoveStart
  <1> QED
    BY <1>6, <1>7, <1>8, <1>9, <1>10 DEF Begin

\* Writes of a milestone keep the model typed,
LEMMA MilestoneStepType ==
    ASSUME TypeOK, NEW r \in Requests,
           Insert(r) \/ Update(r) \/ Remove(r) \/ Write(r)
    PROVE  TypeOK'
  <1> USE DEF OnlyMilestone, contractVars, balanceVars
  <1>1. {"countup", "idle", "countdown", "countdone"} \subseteq PCs
    BY DEF PCs
  <1>2. ctx[r].to \in MStatus /\ ctx[r].amt \in Cents
    BY LocalsType DEF Cents
  <1>3. "pending" \in MStatus
    BY DEF MStatus, MilestoneStatus
  <1>4. CASE Insert(r)
    BY <1>1, <1>2, <1>3, <1>4, GotoType DEF Insert, TypeOK
  <1>5. CASE Update(r)
    BY <1>1, <1>2, <1>5, GotoType DEF Update, TypeOK
  <1>6. CASE Remove(r)
    BY <1>1, <1>2, <1>6, GotoType DEF Remove, TypeOK
  <1>7. CASE Write(r)
    BY <1>1, <1>2, <1>7, GotoType DEF Write, TypeOK
  <1> QED
    BY <1>4, <1>5, <1>6, <1>7

\* so do those of a contract's counters,
LEMMA CounterStepType ==
    ASSUME TypeOK, NEW r \in Requests,
           CountUp(r) \/ CountDown(r) \/ CountDone(r) \/ Release(r)
    PROVE  TypeOK'
  <1> USE DEF OnlyContract, milestoneVars, balanceVars
  <1>1. {"idle", "checkpending", "credit"} \subseteq PCs
    BY DEF PCs
  <1>2. ctx[r].amt \in Nat
    BY LocalsType
  <1>3. /\ \A c \in Contracts : mcount[c] \in Int /\ mdone[c] \in Nat
        /\ \A c \in Contracts : released[c] \in Nat
    BY DEF TypeOK, Cents
  <1>4. CASE CountUp(r)
    <2>1. mcount' \in [Contracts -> Int]
      <3>1. mcount \in [Contracts -> Int]
        BY DEF TypeOK
      <3>2. ctx[r].c \in Contracts => mcount[ctx[r].c] + 1 \in Int
        BY <1>3
      <3>3. mcount' = [mcount EXCEPT ![ctx[r].c] = mcount[ctx[r].c] + 1]
        BY <1>4 DEF CountUp
      <3> QED
        BY <3>1, <3>2, <3>3, ExceptType
    <2> QED
      BY <1>1, <1>4, <2>1, GotoType DEF CountUp, TypeOK
  <1>5. CASE CountDown(r)
    <2>1. mcount' \in [Contracts -> Int]
      <3>1. mcount \in [Contracts -> Int]
        BY DEF TypeOK
      <3>2. ctx[r].c \in Contracts => mcount[ctx[r].c] - 1 \in Int
        BY <1>3
      <3>3. mcount' = [mcount EXCEPT ![ctx[r].c] = mcount[ctx[r].c] - 1]
        BY <1>5 DEF CountDown, CountedDown
      <3> QED
        BY <3>1, <3>2, <3>3, ExceptType
    <2> QED
      BY <1>1, <1>5, <2>1, GotoType DEF CountDown, TypeOK
  <1>6. CASE CountDone(r)
    <2>1. mdone' \in [Contracts -> Nat]
      <3>1. mdone \in [Contracts -> Nat]
        BY DEF TypeOK
      <3>2. ctx[r].c \in Contracts => mdone[ctx[r].c] + 1 \in Nat
        BY <1>3
      <3>3. mdone' = [mdone EXCEPT ![ctx[r].c] = mdone[ctx[r].c] + 1]
        BY <1>6 DEF CountDone
      <3> QED
        BY <3>1, <3>2, <3>3, ExceptType
    <2> QED
      BY <1>1, <1>6, <2>1, GotoType DEF CountDone, TypeOK
  <1>7. CASE Release(r)
    <2>1. released' \in [Contracts -> Cents]
      <3>1. released \in [Contracts -> Cents]
        BY DEF TypeOK
      <3>2. ctx[r].c \in Contracts => released[ctx[r].c] + ctx[r].amt \in Cents
        BY <1>2, <1>3 DEF Cents
      <3>3. released' = [released EXCEPT ![ctx[r].c] = released[ctx[r].c] + ctx[r].amt]
        BY <1>7 DEF Release, Counted
      <3> QED
        BY <3>1, <3>2, <3>3, ExceptType
    <2> QED
      BY <1>1, <1>7, <2>1, GotoType DEF Release, TypeOK
  <1> QED
    BY <1>4, <1>5, <1>6, <1>7

\* those of its status,
LEMMA StatusStepType ==
    ASSUME TypeOK, NEW r \in Requests,
           Complete(r) \/ CompleteJob(r) \/ SetCompleted(r) \/ Cancel(r)
    PROVE  TypeOK'
  <1> USE DEF OnlyContract, milestoneVars, balanceVars, SetStatus
  <1>1. {"idle", "completejob"} \subseteq PCs
    BY DEF PCs
  <1>2. {"completed", "cancelled"} \subseteq ContractStatus
    BY DEF ContractStatus
  <1>3. CASE Complete(r)
    BY <1>1, <1>2, <1>3, GotoType DEF Complete, TypeOK
  <1>4. CASE CompleteJob(r)
    BY <1>1, <1>4, GotoType DEF CompleteJob, TypeOK
  <1>5. CASE SetCompleted(r)
    BY <1>1, <1>2, <1>5, GotoType DEF SetCompleted, TypeOK
  <1>6. CASE Cancel(r)
    BY <1>1, <1>2, <1>6, GotoType DEF Cancel, TypeOK
  <1> QED
    BY <1>3, <1>4, <1>5, <1>6

\* those of the freelancer's balances and of Stripe,
LEMMA CreditType ==
    ASSUME TypeOK, NEW r \in Requests, Credit(r)
    PROVE  TypeOK'
  <1>1. {"idle", "finish"} \subseteq PCs
    BY DEF PCs
  <1>2. /\ ctx[r].amt \in Nat
        /\ pending \in Nat /\ available \in Nat
    BY LocalsType DEF TypeOK, Cents
  <1>3. pc' \in [Requests -> PCs] /\ ctx' \in [Requests -> Locals]
    BY <1>1, GotoType DEF Credit
  <1>4. pending' \in Nat /\ available' \in Nat
    BY <1>2 DEF Credit, Moves
  <1>5. releases' \in [Milestones -> Nat]
    BY <1>2 DEF Credit, TypeOK
  <1> QED
    BY <1>3, <1>4, <1>5 DEF Credit, contractVars, milestoneVars, TypeOK, Cents

LEMMA RefundType ==
    ASSUME TypeOK, NEW r \in Requests, Refund(r)
    PROVE  TypeOK'
  <1>1. "cancel" \in PCs
    BY DEF PCs
  <1>2. ctx[r].paid - ctx[r].rel \in Int
    BY LocalsType
  <1>3. pc' \in [Requests -> PCs] /\ ctx' \in [Requests -> Locals]
    BY <1>1, GotoType DEF Refund
  <1>4. refunded' \in [Contracts -> Int]
    BY <1>2 DEF Refund, TypeOK
  <1> QED
    BY <1>3, <1>4 DEF Refund, contractVars, milestoneVars, balanceVars, TypeOK

\* the reads, and a request that ends early.
LEMMA ReadType ==
    ASSUME TypeOK, NEW r \in Requests, CheckPending(r) \/ Finish(r) \/ Fault(r)
    PROVE  TypeOK'
  <1> USE DEF contractVars, milestoneVars, balanceVars
  <1>1. {"idle", "release", "complete"} \subseteq PCs
    BY DEF PCs
  <1>2. CASE CheckPending(r) \/ Finish(r)
    BY <1>1, <1>2, GotoType DEF CheckPending, Finish, TypeOK
  <1>3. CASE Fault(r)
    BY <1>1, <1>3, GotoType DEF Fault, TypeOK
  <1> QED
    BY <1>2, <1>3

\* And so do payments, disputes and admins.
LEMMA OutsideType ==
    ASSUME TypeOK, NEW c \in Contracts, Fund(c) \/ SetElsewhere(c)
    PROVE  TypeOK'
  <1> USE DEF milestoneVars, balanceVars, contractVars, OnlyContract
  <1>1. Total[c] \in Nat
    BY EscrowAssumption
  <1>2. {"active"} \cup Elsewheres \subseteq ContractStatus
    BY EscrowAssumption DEF ContractStatus
  <1>3. CASE Fund(c)
    BY <1>1, <1>2, <1>3 DEF Fund, TypeOK, Cents
  <1>4. CASE SetElsewhere(c)
    BY <1>2, <1>4 DEF SetElsewhere, SetStatus, TypeOK
  <1> QED
    BY <1>3, <1>4

LEMMA NextType == TypeOK /\ [Next]_vars => TypeOK'
  <1> SUFFICES ASSUME TypeOK, [Next]_vars
               PROVE  TypeOK'
    OBVIOUS
  <1>1. ASSUME NEW r \in Requests, Step(r)
        PROVE  TypeOK'
    BY <1>1, MilestoneStepType, CounterStepType, StatusStepType, CreditType,
       RefundType, ReadType DEF Step
  <1>2. ASSUME NEW r \in Requests, Begin(r) \/ Fault(r)
        PROVE  TypeOK'
    BY <1>2, BeginType, ReadType
  <1>3. CASE \E c \in Contracts : Fund(c) \/ SetElsewhere(c)
    BY <1>3, OutsideType
  <1>4. CASE UNCHANGED vars
    BY <1>4 DEF vars, contractVars, milestoneVars, balanceVars, TypeOK
  <1> QED
    BY <1>1, <1>2, <1>3, <1>4 DEF Next

\* The model is well typed, whatever the constants: in particular no
\* interleaving of approvals takes the freelancer's pendingBalance below zero.
THEOREM TypeCorrect == Spec => []TypeOK
  BY InitType, NextType, PTL DEF Spec

(***************************************************************************)
(* Escrow only moves.  NeverMoreThanCredited is not inductive: Credit adds *)
(* to availableBalance.  It follows from what Fund and Credit both keep,   *)
(* that pending and available share what was credited.                     *)
(***************************************************************************)
BalanceInv == pending + available = credited

\* Every other step leaves the balances alone.
LEMMA BalancesMove ==
    ASSUME [Next]_vars
    PROVE  \/ UNCHANGED balanceVars
           \/ \E c \in Contracts : Fund(c)
           \/ \E r \in Requests : Credit(r)
  <1> USE DEF Start, OnlyContract, OnlyMilestone
  <1>1. ASSUME NEW r \in Requests, Step(r), ~Credit(r)
        PROVE  UNCHANGED balanceVars
    BY <1>1 DEF Step, Insert, CountUp, Update, Remove, CountDown, Write,
       CountDone, CheckPending, Release, Finish, Complete, CompleteJob,
       SetCompleted, Refund, Cancel
  <1>2. ASSUME NEW r \in Requests, Begin(r) \/ Fault(r)
        PROVE  UNCHANGED balanceVars
    BY <1>2 DEF Begin, CompleteContract, CancelStart, CreateStart, UpdateStart,
       DeleteStart, MoveStart, Fault
  <1>3. ASSUME NEW c \in Contracts, SetElsewhere(c)
        PROVE  UNCHANGED balanceVars
    BY <1>3 DEF SetElsewhere
  <1>4. CASE UNCHANGED vars
    BY <1>4 DEF vars
  <1> QED
    BY <1>1, <1>2, <1>3, <1>4 DEF Next

LEMMA BalanceNext == TypeOK /\ BalanceInv /\ [Next]_vars => BalanceInv'
  <1> SUFFICES ASSUME TypeOK, BalanceInv, [Next]_vars
               PROVE  BalanceInv'
    OBVIOUS
  <1>1. pending \in Nat /\ available \in Nat /\ credited \in Nat
    BY DEF TypeOK, Cents
  <1>2. CASE UNCHANGED balanceVars
    BY <1>2 DEF balanceVars, BalanceInv
  <1>3. ASSUME NEW c \in Contracts, Fund(c)
        PROVE  BalanceInv'
    <2>1. Total[c] \in Nat
      BY EscrowAssumption
    <2> QED
      BY <1>1, <1>3, <2>1 DEF Fund, BalanceInv
  <1>4. ASSUME NEW r \in Requests, Credit(r)
        PROVE  BalanceInv'
    <2>1. ctx[r].amt \in Nat
      BY LocalsType
    <2> QED
      BY <1>1, <1>4, <2>1 DEF Credit, BalanceInv
  <1> QED
    BY <1>2, <1>3, <1>4, BalancesMove

\* However many approvals overlap, repeat or fail halfway, milestones make no
\* more available to the freelancer than payments have credited.
THEOREM EscrowOnlyMoves == Spec => []NeverMoreThanCredited
  <1>1. Init => BalanceInv
    BY DEF Init, BalanceInv
  <1>2. TypeOK /\ BalanceInv => NeverMoreThanCredited
    BY DEF TypeOK, Cents, BalanceInv, NeverMoreThanCredited
  <1> QED
    BY <1>1, <1>2, TypeCorrect, BalanceNext, PTL DEF Spec

\* A funding is a deposit, an approval's last write a release.
LEMMA AccountStep ==
    TypeOK /\ BalanceInv /\ [Next]_vars => [Accounts!Next]_(Accounts!vars)
  <1> SUFFICES ASSUME TypeOK, BalanceInv, [Next]_vars
               PROVE  [Accounts!Next]_(Accounts!vars)
    OBVIOUS
  <1> USE DEF Accounts!vars
  <1>1. pending \in Nat /\ available \in Nat
    BY DEF TypeOK, Cents
  <1>2. CASE UNCHANGED balanceVars
    BY <1>2 DEF balanceVars
  <1>3. ASSUME NEW c \in Contracts, Fund(c)
        PROVE  [Accounts!Next]_(Accounts!vars)
    <2>1. Total[c] \in Nat
      BY EscrowAssumption
    <2>2. pending' = pending + Total[c] /\ available' = available
      BY <1>3 DEF Fund
    <2>3. CASE Total[c] = 0
      BY <1>1, <2>2, <2>3
    <2>4. CASE Total[c] > 0
      <3>1. Accounts!Deposit("freelancer")
        BY <1>1, <2>1, <2>2, <2>4 DEF Accounts!Deposit
      <3> QED
        BY <3>1 DEF Accounts!Next
    <2> QED
      BY <2>1, <2>3, <2>4
  <1>4. ASSUME NEW r \in Requests, Credit(r)
        PROVE  [Accounts!Next]_(Accounts!vars)
    <2>1. ctx[r].amt \in Nat
      BY LocalsType
    <2>2. \/ UNCHANGED <<pending, available>>
          \/ /\ pending >= ctx[r].amt
             /\ pending' = pending - ctx[r].amt
             /\ available' = available + ctx[r].amt
      BY <1>4 DEF Credit, Moves
    <2>3. CASE UNCHANGED <<pending, available>>
      BY <2>3
    <2>4. CASE ~UNCHANGED <<pending, available>>
      <3>1. /\ ctx[r].amt \in 1..pending
            /\ pending' = pending - ctx[r].amt
            /\ available' = available + ctx[r].amt
        BY <1>1, <2>1, <2>2, <2>4
      <3>2. pending - pending' = ctx[r].amt
        BY <1>1, <2>1, <3>1
      <3>3. Accounts!Release("freelancer")
        BY <1>1, <2>1, <3>1, <3>2 DEF Accounts!Release
      <3> QED
        BY <3>3 DEF Accounts!Next
    <2> QED
      BY <2>3, <2>4
  <1> QED
    BY <1>2, <1>3, <1>4, BalancesMove

\* Whatever the contracts, the amounts and the interleaving, milestones
\* implement the freelancer's account.
THEOREM ImplementsAccount == Spec => KeepsAccount
  <1>1. Init => Accounts!Init /\ BalanceInv
    BY DEF Init, Accounts!Init, BalanceInv
  <1> QED
    BY <1>1, TypeCorrect, BalanceNext, AccountStep, PTL
    DEF Spec, KeepsAccount, Accounts!Spec

(***************************************************************************)
(* One request at a time.  ReleasedWithinTotal needs to know what approve  *)
(* still remembers of the contract when it reaches its write: with a       *)
(* single request nothing has moved releasedAmount in between.             *)
(***************************************************************************)
Approving(r) == pc[r] \in {"write", "countdone", "checkpending", "release"}

FreshRead(r) ==
    /\ Approving(r) => ctx[r].rel = released[ctx[r].c]
    /\ pc[r] \in {"checkpending", "release"} => Covered(ctx[r])

ReleaseInv(r) == ReleasedWithinTotal /\ FreshRead(r)

\* With one request, whatever is not approve keeps releasedAmount.
LEMMA ReleaseBegin ==
    ASSUME TypeOK, NEW r \in Requests, ReleaseInv(r), Begin(r)
    PROVE  ReleaseInv(r)'
  <1>1. ASSUME NEW label, NEW m, NEW c, NEW to, NEW amt,
               label \notin {"checkpending", "release"},
               Start(r, label, m, c, to, amt)
        PROVE  ReleaseInv(r)'
    <2>1. released' = released
      BY <1>1 DEF Start, contractVars
    <2>2. ctx'[r].rel = released[c] /\ ctx'[r].c = c /\ pc'[r] = label
      BY <1>1 DEF Start, TypeOK
    <2> QED
      BY <1>1, <2>1, <2>2 DEF ReleaseInv, FreshRead, ReleasedWithinTotal
  <1>2. ASSUME NEW c \in Contracts, CompleteContract(r, c)
        PROVE  ReleaseInv(r)'
    <2>1. CASE Start(r, "setcompleted", "none", c, "none", 0)
      BY <1>1, <2>1
    <2>2. CASE SetStatus(c, "completed") /\ UNCHANGED <<pc, ctx>>
      BY <2>2 DEF SetStatus, ReleaseInv, FreshRead, Approving, Covered,
                  ReleasedWithinTotal
    <2> QED
      BY <1>2, <2>1, <2>2 DEF CompleteContract
  <1>3. ASSUME NEW c \in Contracts, CancelStart(r, c)
        PROVE  ReleaseInv(r)'
    <2>1. PICK label \in {"refund", "cancel"} :
             Start(r, label, "none", c, "none", 0)
      BY <1>3 DEF CancelStart
    <2> QED
      BY <1>1, <2>1
  <1>4. ASSUME NEW m \in Milestones, NEW a \in Amounts,
               CreateStart(r, m, a) \/ UpdateStart(r, m, a)
        PROVE  ReleaseInv(r)'
    BY <1>1, <1>4 DEF CreateStart, UpdateStart
  <1>5. ASSUME NEW m \in Milestones, DeleteStart(r, m)
        PROVE  ReleaseInv(r)'
    BY <1>1, <1>5 DEF DeleteStart
  <1>6. ASSUME NEW m \in Milestones, NEW to, MoveStart(r, m, to)
        PROVE  ReleaseInv(r)'
    BY <1>1, <1>6 DEF MoveStart
  <1> QED
    BY <1>2, <1>3, <1>4, <1>5, <1>6 DEF Begin

LEMMA ReleaseStep ==
    ASSUME TypeOK, NEW r \in Requests, ReleaseInv(r), Step(r) \/ Fault(r)
    PROVE  ReleaseInv(r)'
  <1> USE DEF Goto, OnlyContract, OnlyMilestone, contractVars
  <1>1. CASE Write(r)
    <2>1. /\ released' = released /\ pc'[r] \in {"countdone", "idle"}
          /\ pc'[r] # "idle" => ctx'[r] = ctx[r]
      BY <1>1 DEF Write, TypeOK
    <2> QED
      BY <1>1, <2>1 DEF Write, ReleaseInv, FreshRead, Approving,
                        ReleasedWithinTotal
  <1>2. CASE CountDone(r)
    <2> DEFINE label == IF Covered(ctx[r]) THEN "checkpending" ELSE "idle"
    <2>1. released' = released /\ Goto(r, label)
      BY <1>2 DEF CountDone
    <2>2. pc'[r] = label /\ (label # "idle" => ctx'[r] = ctx[r])
      <3> HIDE DEF label
      <3> QED
        BY <2>1 DEF TypeOK
    <2>3. CASE Covered(ctx[r])
      BY <1>2, <2>1, <2>2, <2>3 DEF CountDone, ReleaseInv, FreshRead, Approving,
                                    ReleasedWithinTotal
    <2>4. CASE ~Covered(ctx[r])
      BY <2>1, <2>2, <2>4 DEF ReleaseInv, FreshRead, Approving,
                              ReleasedWithinTotal
    <2> QED
      BY <2>3, <2>4
  <1>3. CASE CheckPending(r)
    <2>1. /\ released' = released /\ pc'[r] \in {"idle", "release"}
          /\ pc'[r] # "idle" => ctx'[r] = ctx[r]
      BY <1>3 DEF CheckPending, TypeOK
    <2> QED
      BY <1>3, <2>1 DEF CheckPending, ReleaseInv, FreshRead, Approving,
                        ReleasedWithinTotal
  <1>4. CASE Release(r)
    <2> DEFINE d == ctx[r].c
    <2>1. ctx[r].amt \in Nat
      BY LocalsType
    <2>2. released' = [released EXCEPT ![d] = @ + ctx[r].amt]
      BY <1>4 DEF Release, Counted
    <2>3. \A c \in Contracts : released[c] \in Nat /\ Total[c] \in Nat
      BY EscrowAssumption DEF TypeOK, Cents
    <2>4. Total[d] - released[d] >= ctx[r].amt
      BY <1>4 DEF Release, ReleaseInv, FreshRead, Approving, Covered
    <2>5. ReleasedWithinTotal'
      BY <2>1, <2>2, <2>3, <2>4 DEF ReleaseInv, ReleasedWithinTotal, TypeOK
    <2>6. pc'[r] = "credit"
      BY <1>4 DEF Release, TypeOK
    <2> QED
      BY <2>5, <2>6 DEF ReleaseInv, FreshRead, Approving
  <1>5. CASE \/ Insert(r) \/ CountUp(r) \/ Update(r) \/ Remove(r)
             \/ CountDown(r) \/ Credit(r) \/ Finish(r) \/ Complete(r)
             \/ CompleteJob(r) \/ SetCompleted(r) \/ Refund(r) \/ Cancel(r)
             \/ Fault(r)
    <2>1. released' = released
      BY <1>5 DEF Insert, CountUp, Update, Remove, CountDown, Credit, Finish,
         Complete, CompleteJob, SetCompleted, Refund, Cancel, Fault, SetStatus
    <2>2. pc'[r] \in {"countup", "idle", "countdown", "finish", "complete",
                      "completejob", "cancel"}
      BY <1>5 DEF Insert, CountUp, Update, Remove, CountDown, Credit, Finish,
         Complete, CompleteJob, SetCompleted, Refund, Cancel, Fault, TypeOK
    <2> QED
      BY <2>1, <2>2 DEF ReleaseInv, FreshRead, Approving, ReleasedWithinTotal
  <1> QED
    BY <1>1, <1>2, <1>3, <1>4, <1>5 DEF Step

\* When a contract's requests do not overlap, it releases no more than its
\* total, although no milestone amount was ever compared with that total.
THEOREM OneRequestReleasesWithinTotal ==
    ASSUME NEW r, Requests = {r}
    PROVE  Spec => []ReleasedWithinTotal
  <1>1. Init => ReleaseInv(r)
    BY EscrowAssumption DEF Init, ReleaseInv, FreshRead, Approving,
                            ReleasedWithinTotal
  <1>2. TypeOK /\ ReleaseInv(r) /\ [Next]_vars => ReleaseInv(r)'
    <2> SUFFICES ASSUME TypeOK, ReleaseInv(r), [Next]_vars
                 PROVE  ReleaseInv(r)'
      OBVIOUS
    <2>1. CASE Begin(r) \/ Step(r) \/ Fault(r)
      BY <2>1, ReleaseBegin, ReleaseStep
    <2>2. CASE \E c \in Contracts : Fund(c) \/ SetElsewhere(c)
      BY <2>2 DEF Fund, SetElsewhere, SetStatus, ReleaseInv, FreshRead,
                  Approving, Covered, ReleasedWithinTotal
    <2>3. CASE UNCHANGED vars
      BY <2>3 DEF vars, contractVars, ReleaseInv, FreshRead, Approving,
                  Covered, ReleasedWithinTotal
    <2> QED
      BY <2>1, <2>2, <2>3 DEF Next
  <1>3. ReleaseInv(r) => ReleasedWithinTotal
    BY DEF ReleaseInv
  <1> QED
    BY <1>1, <1>2, <1>3, TypeCorrect, PTL DEF Spec

(***************************************************************************)
(* One request at a time: no milestone is paid twice.  Every check of the  *)
(* status still holds at the write that follows it, an approved milestone  *)
(* has no way back, and only the request that approved it pays it.         *)
(***************************************************************************)
Moving == {"submitted", "in-progress", "rejected", "approved"}

PayRequest(r) ==
    LET m == ctx[r].m
    IN  /\ pc[r] = "insert" => m \in Milestones /\ mstatus[m] = "none"
        /\ pc[r] = "write" =>
             m \in Milestones /\ ctx[r].to \in Moving /\ mstatus[m] \in From(ctx[r].to)
        /\ pc[r] \in {"countdone", "checkpending", "release", "credit"} =>
             m \in Milestones /\ mstatus[m] = "approved" /\ releases[m] = 0

PaidIsApproved == \A m \in Milestones : releases[m] > 0 => mstatus[m] = "approved"

PayInv(r) == ReleasedOnce /\ PaidIsApproved /\ PayRequest(r)

\* What the steps that move no milestone and pay none must establish.
LEMMA PayKept ==
    ASSUME NEW r \in Requests, PayInv(r), PayRequest(r)',
           UNCHANGED <<mstatus, releases>>
    PROVE  PayInv(r)'
  BY DEF PayInv, ReleasedOnce, PaidIsApproved

LEMMA PayBegin ==
    ASSUME TypeOK, NEW r \in Requests, PayInv(r), Begin(r)
    PROVE  PayInv(r)'
  <1>1. ASSUME NEW label, NEW m, NEW c, NEW to, NEW amt,
               Start(r, label, m, c, to, amt)
        PROVE  /\ UNCHANGED <<mstatus, releases>>
               /\ ctx'[r].m = m /\ ctx'[r].to = to /\ pc'[r] = label
    BY <1>1 DEF Start, milestoneVars, balanceVars, TypeOK
  <1>2. ASSUME NEW label \in {"update", "remove", "setcompleted", "refund",
                              "cancel"},
               NEW m, NEW c, NEW to, NEW amt, Start(r, label, m, c, to, amt)
        PROVE  PayInv(r)'
    <2>1. PayRequest(r)'
      BY <1>1, <1>2 DEF PayRequest
    <2> QED
      BY <1>1, <1>2, <2>1, PayKept
  <1>3. ASSUME NEW c \in Contracts, CompleteContract(r, c)
        PROVE  PayInv(r)'
    <2>1. CASE Start(r, "setcompleted", "none", c, "none", 0)
      BY <1>2, <2>1
    <2>2. CASE UNCHANGED <<pc, ctx>> /\ OnlyContract
      <3>1. UNCHANGED <<mstatus, releases>>
        BY <2>2 DEF OnlyContract, milestoneVars, balanceVars
      <3>2. PayRequest(r)'
        BY <2>2, <3>1 DEF PayInv, PayRequest
      <3> QED
        BY <3>1, <3>2, PayKept
    <2> QED
      BY <1>3, <2>1, <2>2 DEF CompleteContract
  <1>4. ASSUME NEW c \in Contracts, CancelStart(r, c)
        PROVE  PayInv(r)'
    <2>1. PICK label \in {"refund", "cancel"} :
             Start(r, label, "none", c, "none", 0)
      BY <1>4 DEF CancelStart
    <2>2. label \in {"update", "remove", "setcompleted", "refund", "cancel"}
      OBVIOUS
    <2> QED
      BY <1>2, <2>1, <2>2
  <1>5. ASSUME NEW m \in Milestones, NEW a \in Amounts, CreateStart(r, m, a)
        PROVE  PayInv(r)'
    <2>1. Start(r, "insert", m, ContractOf[m], "pending", a) /\ mstatus[m] = "none"
      BY <1>5 DEF CreateStart
    <2>2. PayRequest(r)'
      BY <1>1, <2>1 DEF PayRequest
    <2> QED
      BY <1>1, <2>1, <2>2, PayKept
  <1>6. ASSUME NEW m \in Milestones, NEW a \in Amounts, UpdateStart(r, m, a)
        PROVE  PayInv(r)'
    BY <1>2, <1>6 DEF UpdateStart
  <1>7. ASSUME NEW m \in Milestones, DeleteStart(r, m)
        PROVE  PayInv(r)'
    BY <1>2, <1>7 DEF DeleteStart
  <1>8. ASSUME NEW m \in Milestones, NEW to \in Moving, MoveStart(r, m, to)
        PROVE  PayInv(r)'
    <2>1. /\ Start(r, "write", m, ContractOf[m], to, amount[m])
          /\ mstatus[m] \in From(to)
      BY <1>8 DEF MoveStart
    <2>2. PayRequest(r)'
      BY <1>1, <2>1 DEF PayRequest
    <2> QED
      BY <1>1, <2>1, <2>2, PayKept
  <1> QED
    BY <1>3, <1>4, <1>5, <1>6, <1>7, <1>8 DEF Begin, Moving

\* The steps that set a milestone's status.
LEMMA PayWrites ==
    ASSUME TypeOK, NEW r \in Requests, PayInv(r), Insert(r) \/ Write(r)
    PROVE  PayInv(r)'
  <1> DEFINE m == ctx[r].m
  <1> USE DEF OnlyMilestone, balanceVars
  <1>1. releases' = releases /\ \A n \in Milestones : releases[n] \in Nat
    BY DEF Insert, Write, TypeOK
  <1>2. m \in Milestones /\ mstatus[m] # "approved"
    BY DEF PayInv, PayRequest, Insert, Write, From, Moving
  <1>3. releases[m] = 0
    BY <1>1, <1>2 DEF PayInv, PaidIsApproved
  <1>4. PICK s \in MStatus : mstatus' = [mstatus EXCEPT ![m] = s]
    BY LocalsType DEF Insert, Write, MStatus, MilestoneStatus
  <1>5. ReleasedOnce' /\ PaidIsApproved'
    BY <1>1, <1>2, <1>3, <1>4 DEF PayInv, ReleasedOnce, PaidIsApproved, TypeOK
  <1>6. PayRequest(r)'
    <2>1. CASE Insert(r) \/ (Write(r) /\ ctx[r].to # "approved")
      <3>1. pc'[r] \in {"countup", "idle"}
        BY <2>1 DEF Insert, Write, Goto, TypeOK
      <3> QED
        BY <3>1 DEF PayRequest
    <2>2. CASE Write(r) /\ ctx[r].to = "approved"
      <3>1. /\ pc'[r] = "countdone" /\ ctx'[r] = ctx[r]
            /\ mstatus'[m] = "approved"
        BY <1>2, <2>2 DEF Write, Goto, TypeOK
      <3>2. ctx'[r].m = m /\ releases'[m] = 0
        BY <1>1, <1>3, <3>1
      <3> QED
        BY <1>2, <3>1, <3>2 DEF PayRequest
    <2> QED
      BY <2>1, <2>2
  <1> QED
    BY <1>5, <1>6 DEF PayInv

LEMMA PayCredit ==
    ASSUME TypeOK, NEW r \in Requests, PayInv(r), Credit(r)
    PROVE  PayInv(r)'
  <1> DEFINE m == ctx[r].m
  <1>1. /\ mstatus' = mstatus
        /\ releases' = releases \/ releases' = [releases EXCEPT ![m] = @ + 1]
    BY DEF Credit, milestoneVars
  <1>2. m \in Milestones /\ mstatus[m] = "approved" /\ releases[m] = 0
    BY DEF PayInv, PayRequest, Credit
  <1>3. ReleasedOnce' /\ PaidIsApproved'
    BY <1>1, <1>2 DEF PayInv, ReleasedOnce, PaidIsApproved, TypeOK
  <1>4. pc'[r] \in {"finish", "idle"}
    BY DEF Credit, Goto, TypeOK
  <1>5. PayRequest(r)'
    BY <1>4 DEF PayRequest
  <1> QED
    BY <1>3, <1>5 DEF PayInv

LEMMA PayRest ==
    ASSUME TypeOK, NEW r \in Requests, PayInv(r),
           Step(r) \/ Fault(r), ~Insert(r), ~Write(r), ~Credit(r)
    PROVE  PayInv(r)'
  <1> USE DEF Goto
  <1>1. UNCHANGED <<mstatus, releases>>
    BY DEF Step, Fault, CountUp, Update, Remove, CountDown, CountDone,
       CheckPending, Release, Finish, Complete, CompleteJob, SetCompleted,
       Refund, Cancel, OnlyContract, OnlyMilestone, milestoneVars, balanceVars
  <1>2. PayRequest(r)'
    <2>1. CASE CountDone(r) \/ CheckPending(r) \/ Release(r)
      <3>1. pc'[r] \in {"checkpending", "release", "credit", "idle"}
        BY <2>1 DEF CountDone, CheckPending, Release, TypeOK
      <3>2. pc'[r] # "idle" => ctx'[r] = ctx[r]
        <4>1. \E label : Goto(r, label)
          BY <2>1 DEF CountDone, CheckPending, Release
        <4> QED
          BY <4>1 DEF TypeOK
      <3> QED
        BY <1>1, <2>1, <3>1, <3>2 DEF PayInv, PayRequest, CountDone,
           CheckPending, Release
    <2>2. CASE \/ CountUp(r) \/ Update(r) \/ Remove(r) \/ CountDown(r)
               \/ Finish(r) \/ Complete(r) \/ CompleteJob(r)
               \/ SetCompleted(r) \/ Refund(r) \/ Cancel(r) \/ Fault(r)
      <3>1. pc'[r] \in {"idle", "countdown", "complete", "completejob",
                        "cancel"}
        BY <2>2 DEF CountUp, Update, Remove, CountDown, Finish, Complete,
           CompleteJob, SetCompleted, Refund, Cancel, Fault, TypeOK
      <3> QED
        BY <3>1 DEF PayRequest
    <2> QED
      BY <2>1, <2>2 DEF Step
  <1> QED
    BY <1>1, <1>2, PayKept

\* When requests do not overlap, a milestone's amount is moved to the
\* freelancer's available balance at most once, however often it is resubmitted
\* and wherever its approval fails.
THEOREM OneRequestPaysOnce ==
    ASSUME NEW r, Requests = {r}
    PROVE  Spec => []ReleasedOnce
  <1>1. Init => PayInv(r)
    BY DEF Init, PayInv, PayRequest, PaidIsApproved, ReleasedOnce
  <1>2. TypeOK /\ PayInv(r) /\ [Next]_vars => PayInv(r)'
    <2> SUFFICES ASSUME TypeOK, PayInv(r), [Next]_vars
                 PROVE  PayInv(r)'
      OBVIOUS
    <2>1. CASE Begin(r)
      BY <2>1, PayBegin
    <2>2. CASE Step(r) \/ Fault(r)
      BY <2>2, PayWrites, PayCredit, PayRest
    <2>3. CASE \E c \in Contracts : Fund(c) \/ SetElsewhere(c)
      <3>1. UNCHANGED <<mstatus, releases, pc, ctx>>
        BY <2>3 DEF Fund, SetElsewhere, OnlyContract, milestoneVars, balanceVars
      <3> QED
        BY <3>1, PayKept DEF PayInv, PayRequest
    <2>4. CASE UNCHANGED vars
      <3>1. UNCHANGED <<mstatus, releases, pc, ctx>>
        BY <2>4 DEF vars, milestoneVars, balanceVars
      <3> QED
        BY <3>1, PayKept DEF PayInv, PayRequest
    <2> QED
      BY <2>1, <2>2, <2>3, <2>4 DEF Next
  <1>3. PayInv(r) => ReleasedOnce
    BY DEF PayInv
  <1> QED
    BY <1>1, <1>2, <1>3, TypeCorrect, PTL DEF Spec

-----------------------------------------------------------------------------
(***************************************************************************)
(* One request at a time, and no fault: the contract's two counters count  *)
(* its milestones, but for the one update the request still owes them.     *)
(* CompletedIsApproved follows: the counters are equal only when the       *)
(* approved milestones are all there are.                                  *)
(***************************************************************************)
Approved(c) == {m \in Existing(c) : mstatus[m] = "approved"}

\* What a request that is at the label owes the counters of c.
Owed(r, label, c) == IF pc[r] = label /\ ctx[r].c = c THEN 1 ELSE 0

CountersOwed(r) ==
    \A c \in Contracts :
        /\ mcount[c] = Cardinality(Existing(c)) - Owed(r, "countup", c) + Owed(r, "countdown", c)
        /\ mdone[c] = Cardinality(Approved(c)) - Owed(r, "countdone", c)

Counting == {"countup", "countdown", "countdone"}

\* What a request has read of its milestone and contract still holds.
CountRequest(r) ==
    LET m == ctx[r].m
        c == ctx[r].c
    IN  /\ pc[r] = "insert" => m \in Milestones /\ c = ContractOf[m] /\ mstatus[m] = "none"
        /\ pc[r] = "remove" => m \in Existing(c) /\ c = ContractOf[m] /\ mstatus[m] \in Editable
        /\ pc[r] = "write" => /\ m \in Existing(c) /\ c = ContractOf[m]
                              /\ ctx[r].to \in Moving /\ mstatus[m] \in From(ctx[r].to)
        /\ pc[r] \in Counting \cup {"checkpending", "release", "credit", "finish"} => c \in Contracts
        /\ pc[r] = "complete" => Existing(c) = Approved(c)

NoneIsNotDeleted == \A m \in Milestones : mstatus[m] = "none" => ~deleted[m]

CountInv(r) == CountersOwed(r) /\ CountRequest(r) /\ NoneIsNotDeleted

LEMMA CountedSets ==
    ASSUME NEW c
    PROVE  /\ IsFiniteSet(Existing(c)) /\ Cardinality(Existing(c)) \in Nat
           /\ IsFiniteSet(Approved(c)) /\ Cardinality(Approved(c)) \in Nat
           /\ Approved(c) \subseteq Existing(c)
  <1>1. IsFiniteSet(Existing(c))
    BY EscrowAssumption, FS_Subset DEF Existing
  <1>2. Approved(c) \subseteq Existing(c)
    BY DEF Approved
  <1> QED
    BY <1>1, <1>2, FS_Subset, FS_CardinalityType

\* Where nothing is owed, before or after, the counters are as they were.
LEMMA NothingOwed ==
    ASSUME NEW r \in Requests, CountInv(r), CountRequest(r)',
           UNCHANGED <<mstatus, deleted, mcount, mdone>>,
           pc[r] \notin Counting, pc'[r] \notin Counting
    PROVE  CountInv(r)'
  <1>1. \A c : Existing(c)' = Existing(c) /\ Approved(c)' = Approved(c)
    BY DEF Existing, Approved
  <1>2. \A c : \A label \in Counting : Owed(r, label, c) = 0 /\ Owed(r, label, c)' = 0
    BY DEF Owed
  <1>3. CountersOwed(r)'
    BY <1>1, <1>2 DEF CountInv, CountersOwed, Counting
  <1> QED
    BY <1>3 DEF CountInv, NoneIsNotDeleted

\* A step of others, or none, leaves the request where it is.
LEMMA NothingMoved ==
    ASSUME NEW r \in Requests, CountInv(r),
           UNCHANGED <<mstatus, deleted, mcount, mdone, pc, ctx>>
    PROVE  CountInv(r)'
  <1>1. \A c : Existing(c)' = Existing(c) /\ Approved(c)' = Approved(c)
    BY DEF Existing, Approved
  <1>2. CountersOwed(r)' /\ NoneIsNotDeleted'
    BY <1>1 DEF CountInv, CountersOwed, NoneIsNotDeleted, Owed
  <1>3. CountRequest(r)'
    BY <1>1 DEF CountInv, CountRequest
  <1> QED
    BY <1>2, <1>3 DEF CountInv

LEMMA CountBegin ==
    ASSUME TypeOK, NEW r \in Requests, CountInv(r), Begin(r)
    PROVE  CountInv(r)'
  <1>1. ASSUME NEW label \in {"insert", "update", "remove", "write", "setcompleted", "refund", "cancel"},
               NEW m, NEW c, NEW to, NEW amt, Start(r, label, m, c, to, amt),
               label = "insert" => m \in Milestones /\ c = ContractOf[m] /\ mstatus[m] = "none",
               label = "remove" => m \in Existing(c) /\ c = ContractOf[m] /\ mstatus[m] \in Editable,
               label = "write" => /\ m \in Existing(c) /\ c = ContractOf[m]
                                  /\ to \in Moving /\ mstatus[m] \in From(to)
        PROVE  CountInv(r)'
    <2>1. /\ UNCHANGED <<mstatus, deleted, mcount, mdone>> /\ pc[r] = "idle" /\ pc'[r] = label
          /\ ctx'[r].m = m /\ ctx'[r].c = c /\ ctx'[r].to = to
      BY <1>1 DEF Start, contractVars, milestoneVars, TypeOK
    <2>2. Existing(c)' = Existing(c)
      BY <2>1 DEF Existing
    <2>3. CountRequest(r)'
      BY <1>1, <2>1, <2>2 DEF CountRequest, Counting
    <2> QED
      BY <2>1, <2>3, NothingOwed DEF Counting
  <1>2. ASSUME NEW c \in Contracts, CompleteContract(r, c)
        PROVE  CountInv(r)'
    <2>1. CASE Start(r, "setcompleted", "none", c, "none", 0)
      BY <1>1, <2>1
    <2>2. CASE SetStatus(c, "completed") /\ UNCHANGED <<pc, ctx>> /\ OnlyContract
      BY <2>2, NothingMoved DEF SetStatus, OnlyContract, milestoneVars
    <2> QED
      BY <1>2, <2>1, <2>2 DEF CompleteContract
  <1>3. ASSUME NEW c \in Contracts, CancelStart(r, c)
        PROVE  CountInv(r)'
    <2>1. PICK label \in {"refund", "cancel"} : Start(r, label, "none", c, "none", 0)
      BY <1>3 DEF CancelStart
    <2> QED
      BY <1>1, <2>1
  <1>4. ASSUME NEW m \in Milestones, NEW a \in Amounts, CreateStart(r, m, a) \/ UpdateStart(r, m, a)
        PROVE  CountInv(r)'
    BY <1>1, <1>4 DEF CreateStart, UpdateStart
  <1>5. ASSUME NEW m \in Milestones, DeleteStart(r, m)
        PROVE  CountInv(r)'
    BY <1>1, <1>5 DEF DeleteStart
  <1>6. ASSUME NEW m \in Milestones, NEW to \in Moving, MoveStart(r, m, to)
        PROVE  CountInv(r)'
    BY <1>1, <1>6 DEF MoveStart
  <1> QED
    BY <1>2, <1>3, <1>4, <1>5, <1>6 DEF Begin, Moving

\* An inserted milestone is one more, and is owed to milestoneCount.
LEMMA CountInsert ==
    ASSUME TypeOK, NEW r \in Requests, CountInv(r), Insert(r)
    PROVE  CountInv(r)'
  <1> DEFINE m == ctx[r].m
             d == ctx[r].c
  <1>1. /\ m \in Milestones /\ d = ContractOf[m] /\ mstatus[m] = "none" /\ ~deleted[m]
        /\ pc[r] = "insert"
    BY DEF CountInv, CountRequest, NoneIsNotDeleted, Insert
  <1>2. /\ mstatus' = [mstatus EXCEPT ![m] = "pending"] /\ UNCHANGED <<deleted, mcount, mdone>>
        /\ pc'[r] = "countup" /\ ctx'[r] = ctx[r]
    BY DEF Insert, OnlyMilestone, contractVars, Goto, TypeOK
  <1>3. d \in Contracts
    BY <1>1, EscrowAssumption
  <1>4. /\ \A n \in Milestones : mstatus'[n] = IF n = m THEN "pending" ELSE mstatus[n]
        /\ ctx'[r].c = d
    BY <1>2 DEF TypeOK
  <1> HIDE DEF m, d
  <1>5. ASSUME NEW c \in Contracts
        PROVE  /\ Existing(c)' = IF c = d THEN Existing(c) \cup {m} ELSE Existing(c)
               /\ Approved(c)' = Approved(c) /\ m \notin Existing(c)
    BY <1>1, <1>2, <1>4 DEF Existing, Approved
  <1>6. \A c \in Contracts :
          Cardinality(Existing(c))' = Cardinality(Existing(c)) + (IF c = d THEN 1 ELSE 0)
    BY <1>5, CountedSets, FS_AddElement
  <1>7. \A c \in Contracts :
          /\ Owed(r, "countup", c) = 0 /\ Owed(r, "countdown", c) = 0 /\ Owed(r, "countdone", c) = 0
          /\ Owed(r, "countup", c)' = IF c = d THEN 1 ELSE 0
          /\ Owed(r, "countdown", c)' = 0 /\ Owed(r, "countdone", c)' = 0
    BY <1>1, <1>2, <1>4 DEF Owed
  <1>8. CountersOwed(r)'
    BY <1>2, <1>5, <1>6, <1>7, CountedSets DEF CountInv, CountersOwed
  <1>9. CountRequest(r)' /\ NoneIsNotDeleted'
    BY <1>2, <1>3, <1>4 DEF CountInv, CountRequest, Counting, NoneIsNotDeleted
  <1> QED
    BY <1>8, <1>9 DEF CountInv

\* A deleted milestone, never an approved one, is one less.
LEMMA CountRemove ==
    ASSUME TypeOK, NEW r \in Requests, CountInv(r), Remove(r)
    PROVE  CountInv(r)'
  <1> DEFINE m == ctx[r].m
             d == ctx[r].c
  <1>1. /\ m \in Existing(d) /\ d = ContractOf[m] /\ mstatus[m] # "approved"
        /\ m \in Milestones /\ mstatus[m] # "none" /\ pc[r] = "remove"
    BY DEF CountInv, CountRequest, Remove, Editable, Existing
  <1>2. /\ deleted' = [deleted EXCEPT ![m] = TRUE] /\ UNCHANGED <<mstatus, mcount, mdone>>
        /\ pc'[r] = "countdown" /\ ctx'[r] = ctx[r]
    BY DEF Remove, OnlyMilestone, contractVars, Goto, TypeOK
  <1>3. d \in Contracts
    BY <1>1, EscrowAssumption
  <1>4. /\ \A n \in Milestones : deleted'[n] = (n = m \/ deleted[n])
        /\ ctx'[r].c = d
    BY <1>2 DEF TypeOK
  <1> HIDE DEF m, d
  <1>5. ASSUME NEW c \in Contracts
        PROVE  /\ Existing(c)' = IF c = d THEN Existing(c) \ {m} ELSE Existing(c)
               /\ Approved(c)' = Approved(c)
    BY <1>1, <1>2, <1>4 DEF Existing, Approved
  <1>6. \A c \in Contracts :
          Cardinality(Existing(c))' = Cardinality(Existing(c)) - (IF c = d THEN 1 ELSE 0)
    BY <1>1, <1>5, CountedSets, FS_RemoveElement
  <1>7. \A c \in Contracts :
          /\ Owed(r, "countup", c) = 0 /\ Owed(r, "countdown", c) = 0 /\ Owed(r, "countdone", c) = 0
          /\ Owed(r, "countdown", c)' = IF c = d THEN 1 ELSE 0
          /\ Owed(r, "countup", c)' = 0 /\ Owed(r, "countdone", c)' = 0
    BY <1>1, <1>2, <1>4 DEF Owed
  <1>8. CountersOwed(r)'
    BY <1>2, <1>5, <1>6, <1>7, CountedSets DEF CountInv, CountersOwed
  <1>9. CountRequest(r)' /\ NoneIsNotDeleted'
    BY <1>1, <1>2, <1>3, <1>4 DEF CountInv, CountRequest, Counting, NoneIsNotDeleted
  <1> QED
    BY <1>8, <1>9 DEF CountInv

\* A milestone that becomes approved was not, and is owed to
\* completedMilestones; other changes of status leave the counters alone.
LEMMA CountWrite ==
    ASSUME TypeOK, NEW r \in Requests, CountInv(r), Write(r)
    PROVE  CountInv(r)'
  <1> DEFINE m == ctx[r].m
             d == ctx[r].c
             to == ctx[r].to
             Now == to = "approved"
  <1>1. /\ m \in Existing(d) /\ d = ContractOf[m] /\ m \in Milestones
        /\ mstatus[m] \notin {"none", "approved"} /\ to # "none" /\ pc[r] = "write"
    BY DEF CountInv, CountRequest, Write, Moving, From, Existing
  <1>2. /\ mstatus' = [mstatus EXCEPT ![m] = to] /\ UNCHANGED <<deleted, mcount, mdone>>
        /\ pc'[r] = (IF Now THEN "countdone" ELSE "idle") /\ (Now => ctx'[r] = ctx[r])
    BY DEF Write, OnlyMilestone, contractVars, Goto, TypeOK
  <1>3. d \in Contracts
    BY <1>1, EscrowAssumption
  <1>4. /\ \A n \in Milestones : mstatus'[n] = IF n = m THEN to ELSE mstatus[n]
        /\ Now => ctx'[r].c = d
    BY <1>2 DEF TypeOK
  <1> HIDE DEF m, d
  <1>5. ASSUME NEW c \in Contracts
        PROVE  /\ Existing(c)' = Existing(c) /\ m \notin Approved(c)
               /\ Approved(c)' = IF c = d /\ Now THEN Approved(c) \cup {m} ELSE Approved(c)
    <2>1. Existing(c)' = Existing(c)
      BY <1>1, <1>2, <1>4 DEF Existing
    <2> QED
      BY <1>1, <1>4, <2>1 DEF Existing, Approved
  <1> HIDE DEF to
  <1>6. \A c \in Contracts :
          Cardinality(Approved(c))' = Cardinality(Approved(c)) + (IF c = d /\ Now THEN 1 ELSE 0)
    BY <1>5, CountedSets, FS_AddElement
  <1>7. \A c \in Contracts :
          /\ Owed(r, "countup", c) = 0 /\ Owed(r, "countdown", c) = 0 /\ Owed(r, "countdone", c) = 0
          /\ Owed(r, "countdone", c)' = IF c = d /\ Now THEN 1 ELSE 0
          /\ Owed(r, "countup", c)' = 0 /\ Owed(r, "countdown", c)' = 0
    BY <1>1, <1>2, <1>4 DEF Owed
  <1>8. CountersOwed(r)'
    BY <1>2, <1>5, <1>6, <1>7, CountedSets DEF CountInv, CountersOwed
  <1>9. CountRequest(r)' /\ NoneIsNotDeleted'
    BY <1>1, <1>2, <1>3, <1>4 DEF CountInv, CountRequest, Counting, NoneIsNotDeleted
  <1> QED
    BY <1>8, <1>9 DEF CountInv

\* The owed updates are made.
LEMMA CountPaid ==
    ASSUME TypeOK, NEW r \in Requests, CountInv(r), CountUp(r) \/ CountDown(r) \/ CountDone(r)
    PROVE  CountInv(r)'
  <1> DEFINE d == ctx[r].c
  <1>1. /\ d \in Contracts /\ pc'[r] \in {"idle", "checkpending"} /\ UNCHANGED <<mstatus, deleted>>
        /\ pc'[r] = "checkpending" => ctx'[r].c = d
    BY DEF CountUp, CountDown, CountDone, CountInv, CountRequest, Counting, Goto, TypeOK,
           OnlyContract, milestoneVars
  <1>2. \A c : Existing(c)' = Existing(c) /\ Approved(c)' = Approved(c)
    BY <1>1 DEF Existing, Approved
  <1>3. \A c \in Contracts : \A label \in Counting :
          Owed(r, label, c) = (IF pc[r] = label /\ c = d THEN 1 ELSE 0) /\ Owed(r, label, c)' = 0
    BY <1>1 DEF Owed, Counting
  <1> HIDE DEF d
  <1>4. CountersOwed(r)'
    <2>1. CASE CountUp(r)
      <3>1. pc[r] = "countup" /\ mcount' = [mcount EXCEPT ![d] = @ + 1] /\ mdone' = mdone
        BY <2>1 DEF CountUp, d
      <3> QED
        BY <1>2, <1>3, <3>1, CountedSets DEF CountInv, CountersOwed, Counting, TypeOK
    <2>2. CASE CountDown(r)
      <3>1. pc[r] = "countdown" /\ mcount' = [mcount EXCEPT ![d] = @ - 1] /\ mdone' = mdone
        BY <2>2 DEF CountDown, CountedDown, d
      <3> QED
        BY <1>2, <1>3, <3>1, CountedSets DEF CountInv, CountersOwed, Counting, TypeOK
    <2>3. CASE CountDone(r)
      <3>1. pc[r] = "countdone" /\ mdone' = [mdone EXCEPT ![d] = @ + 1] /\ mcount' = mcount
        BY <2>3 DEF CountDone, d
      <3> QED
        BY <1>2, <1>3, <3>1, CountedSets DEF CountInv, CountersOwed, Counting, TypeOK
    <2> QED
      BY <2>1, <2>2, <2>3
  <1>5. CountRequest(r)' /\ NoneIsNotDeleted'
    BY <1>1 DEF CountInv, CountRequest, Counting, NoneIsNotDeleted
  <1> QED
    BY <1>4, <1>5 DEF CountInv

\* Equal counters that owe nothing: every milestone is approved.
LEMMA CountFinish ==
    ASSUME TypeOK, NEW r \in Requests, CountInv(r), Finish(r)
    PROVE  CountInv(r)'
  <1> DEFINE d == ctx[r].c
  <1>1. /\ d \in Contracts /\ pc[r] = "finish" /\ UNCHANGED <<mstatus, deleted, mcount, mdone>>
        /\ pc'[r] = (IF AllDone(d) THEN "complete" ELSE "idle")
        /\ AllDone(d) => ctx'[r].c = d
    BY DEF Finish, CountInv, CountRequest, Counting, Goto, TypeOK, contractVars, milestoneVars
  <1>2. AllDone(d) => Existing(d) = Approved(d)
    <2> SUFFICES ASSUME AllDone(d) PROVE Existing(d) = Approved(d)
      OBVIOUS
    <2>1. Owed(r, "countup", d) = 0 /\ Owed(r, "countdown", d) = 0 /\ Owed(r, "countdone", d) = 0
      BY <1>1 DEF Owed
    <2>2. mcount[d] = Cardinality(Existing(d)) /\ mdone[d] = Cardinality(Approved(d))
      BY <1>1, <2>1, CountedSets DEF CountInv, CountersOwed
    <2>3. Cardinality(Existing(d)) = Cardinality(Approved(d))
      BY <2>2 DEF AllDone
    <2> QED
      BY <2>3, CountedSets, FS_Subset
  <1> HIDE DEF d
  <1>3. \A c : Existing(c)' = Existing(c) /\ Approved(c)' = Approved(c)
    BY <1>1 DEF Existing, Approved
  <1>4. CountRequest(r)'
    BY <1>1, <1>2, <1>3 DEF CountRequest, Counting
  <1> QED
    BY <1>1, <1>4, NothingOwed DEF Counting

LEMMA CountRest ==
    ASSUME TypeOK, NEW r \in Requests, CountInv(r),
           \/ Update(r) \/ CheckPending(r) \/ Release(r) \/ Credit(r) \/ Complete(r)
           \/ CompleteJob(r) \/ SetCompleted(r) \/ Refund(r) \/ Cancel(r)
    PROVE  CountInv(r)'
  <1>1. UNCHANGED <<mstatus, deleted, mcount, mdone>>
    BY DEF Update, CheckPending, Release, Credit, Complete, CompleteJob, SetCompleted, Refund,
           Cancel, SetStatus, OnlyContract, OnlyMilestone, contractVars, milestoneVars
  <1>2. /\ pc[r] \notin Counting
        /\ pc'[r] \in {"idle", "release", "credit", "finish", "completejob", "cancel"}
    BY DEF Update, CheckPending, Release, Credit, Complete, CompleteJob, SetCompleted, Refund,
           Cancel, Goto, Counting, TypeOK
  <1>3. pc'[r] \in {"release", "credit", "finish"} => ctx'[r].c \in Contracts
    <2> SUFFICES ASSUME pc'[r] \in {"release", "credit", "finish"} PROVE ctx'[r].c \in Contracts
      OBVIOUS
    <2>1. ctx'[r] = ctx[r] /\ pc[r] \in {"checkpending", "release", "credit"}
      BY DEF Update, CheckPending, Release, Credit, Complete, CompleteJob, SetCompleted, Refund,
             Cancel, Goto, TypeOK
    <2> QED
      BY <2>1 DEF CountInv, CountRequest
  <1>4. CountRequest(r)'
    BY <1>2, <1>3 DEF CountRequest, Counting
  <1> QED
    BY <1>1, <1>2, <1>4, NothingOwed DEF Counting

LEMMA CountInit == Init => \A r \in Requests : CountInv(r)
  <1> SUFFICES ASSUME Init, NEW r \in Requests PROVE CountInv(r)
    OBVIOUS
  <1>1. pc[r] = "idle" /\ \A c \in Contracts : mdone[c] = 0 /\ mcount[c] = Cardinality(Existing(c))
    BY DEF Init
  <1>2. \A c : Approved(c) = {}
    BY DEF Init, Approved, Existing
  <1>3. CountersOwed(r)
    BY <1>1, <1>2, CountedSets, FS_EmptySet DEF CountersOwed, Owed
  <1>4. CountRequest(r) /\ NoneIsNotDeleted
    BY <1>1 DEF CountRequest, Counting, Init, NoneIsNotDeleted
  <1> QED
    BY <1>3, <1>4 DEF CountInv

LEMMA CountNext ==
    ASSUME NEW r, Requests = {r}, MaxFaults = 0
    PROVE  TypeOK /\ CountInv(r) /\ [Next]_vars => CountInv(r)'
  <1> SUFFICES ASSUME TypeOK, CountInv(r), [Next]_vars PROVE CountInv(r)'
    OBVIOUS
  <1>1. CASE Begin(r)
    BY <1>1, CountBegin
  <1>2. CASE Step(r)
    BY <1>2, CountInsert, CountRemove, CountWrite, CountPaid, CountFinish, CountRest DEF Step
  <1>3. CASE Fault(r)
    BY <1>3 DEF Fault, TypeOK
  <1>4. CASE \E c \in Contracts : Fund(c) \/ SetElsewhere(c)
    <2>1. UNCHANGED <<mstatus, deleted, mcount, mdone, pc, ctx>>
      BY <1>4 DEF Fund, SetElsewhere, SetStatus, OnlyContract, milestoneVars
    <2> QED
      BY <2>1, NothingMoved
  <1>5. CASE UNCHANGED vars
    BY <1>5, NothingMoved DEF vars, contractVars, milestoneVars
  <1> QED
    BY <1>1, <1>2, <1>3, <1>4, <1>5 DEF Next

\* When requests neither overlap nor break off, milestoneCount and
\* completedMilestones count the contract's milestones between requests, however
\* milestones are created, deleted, moved and approved.
THEOREM OneRequestCounts ==
    ASSUME NEW r, Requests = {r}, MaxFaults = 0
    PROVE  Spec => []CountersMatch
  <1>1. Init => CountInv(r)
    BY CountInit
  <1>2. TypeOK /\ CountInv(r) /\ [Next]_vars => CountInv(r)'
    BY CountNext
  <1>3. CountInv(r) => CountersMatch
    <2> SUFFICES ASSUME CountInv(r), Quiet, NEW c \in Contracts
                 PROVE  /\ mcount[c] = Cardinality(Existing(c))
                        /\ mdone[c] = Cardinality(Approved(c))
      BY DEF CountersMatch, Approved
    <2>1. Owed(r, "countup", c) = 0 /\ Owed(r, "countdown", c) = 0 /\ Owed(r, "countdone", c) = 0
      BY DEF Quiet, Owed
    <2> QED
      BY <2>1, CountedSets DEF CountInv, CountersOwed
  <1> QED
    BY <1>1, <1>2, <1>3, TypeCorrect, PTL DEF Spec

\* An approval that completes the contract by comparing the two counters finds
\* every milestone approved, when requests neither overlap nor break off.
THEOREM OneRequestCompletesApproved ==
    ASSUME NEW r, Requests = {r}, MaxFaults = 0
    PROVE  Spec => []CompletedIsApproved
  <1>1. Init => CountInv(r)
    BY CountInit
  <1>2. TypeOK /\ CountInv(r) /\ [Next]_vars => CountInv(r)'
    BY CountNext
  <1>3. CountInv(r) => CompletedIsApproved
    BY DEF CountInv, CountRequest, CompletedIsApproved, Approved
  <1> QED
    BY <1>1, <1>2, <1>3, TypeCorrect, PTL DEF Spec

-----------------------------------------------------------------------------
(***************************************************************************)
(* Sums over finite sets.  The fold of the library is a recursive          *)
(* function; what it computes is shown by induction on the size of the     *)
(* set, in the form of the least number of a set of counterexamples.       *)
(***************************************************************************)
Smaller == {p \in Nat \X Nat : p[1] < p[2]}

LEMMA SmallerWellFounded == IsWellFoundedOn(Smaller, Nat)
  BY NatLessThanWellFounded, Zenon DEF OpToRel, Smaller

LEMMA InductionOnSets ==
    ASSUME NEW T, 0 \in T, \A n \in Nat : n \in T => n + 1 \in T
    PROVE  Nat \subseteq T
  <1> DEFINE Out == Nat \ T
  <1> SUFFICES ASSUME Out # {} PROVE FALSE
    OBVIOUS
  <1>1. PICK n \in Out : \A m \in Out : <<m, n>> \notin Smaller
    <2>1. Out \subseteq Nat
      OBVIOUS
    <2> HIDE DEF Out
    <2> QED
      BY <2>1, SmallerWellFounded, WFMin
  <1>2. n \in Nat /\ n # 0 /\ n - 1 \in Nat
    BY <1>1
  <1>3. n - 1 \in Out
    BY <1>1, <1>2
  <1>4. <<n - 1, n>> \in Smaller
    BY <1>2 DEF Smaller
  <1> QED
    BY <1>1, <1>3, <1>4

First(s) == CHOOSE x \in s : TRUE

\* g sums f over every subset of S, its first element first.
Sums(g, f, S) ==
    g = [s \in SUBSET S |-> IF s = {} THEN 0 ELSE f[First(s)] + g[s \ {First(s)}]]

SumOver(f, S) == (CHOOSE g : Sums(g, f, S))[S]

LEMMA SumOverIs ==
    ASSUME NEW f, NEW S
    PROVE  MapThenSumSet(LAMBDA x : f[x], S) = SumOver(f, S)
  BY DEF MapThenSumSet, MapThenFoldSet, SumOver, Sums, First

UpTo(n, S) == {s \in SUBSET S : Cardinality(s) <= n}

\* Without its first element a set is smaller, until it is empty.
LEMMA FirstRemoved ==
    ASSUME NEW S, IsFiniteSet(S)
    PROVE  /\ \A s \in UpTo(0, S) : s = {}
           /\ \A n \in Nat : \A s \in UpTo(n + 1, S) :
                s # {} => /\ First(s) \in s /\ First(s) \in S
                          /\ s \ {First(s)} \in UpTo(n, S)
           /\ UpTo(Cardinality(S), S) = SUBSET S
           /\ \A n \in Nat : UpTo(n, S) \subseteq UpTo(n + 1, S)
           /\ \A n : UpTo(n, S) \subseteq SUBSET S
           /\ Cardinality(S) \in Nat
  <1>1. \A s \in SUBSET S : IsFiniteSet(s) /\ Cardinality(s) \in Nat
    BY FS_Subset, FS_CardinalityType
  <1>2. ASSUME NEW s \in UpTo(0, S) PROVE s = {}
    BY <1>1, FS_EmptySet DEF UpTo
  <1>3. ASSUME NEW n \in Nat, NEW s \in UpTo(n + 1, S), s # {}
        PROVE  First(s) \in s /\ First(s) \in S /\ s \ {First(s)} \in UpTo(n, S)
    <2>1. First(s) \in s
      BY <1>3 DEF First
    <2>2. s \in SUBSET S /\ Cardinality(s) <= n + 1 /\ IsFiniteSet(s) /\ Cardinality(s) \in Nat
      BY <1>1 DEF UpTo
    <2>3. Cardinality(s \ {First(s)}) = Cardinality(s) - 1
      BY <2>1, <2>2, FS_RemoveElement
    <2> QED
      BY <2>1, <2>2, <2>3 DEF UpTo
  <1>4. \A s \in SUBSET S : Cardinality(s) <= Cardinality(S)
    BY FS_Subset
  <1> QED
    BY <1>1, <1>2, <1>3, <1>4 DEF UpTo

\* There is such a g.
LEMMA SumsExist ==
    ASSUME NEW S, IsFiniteSet(S), NEW f
    PROVE  Sums(CHOOSE g : Sums(g, f, S), f, S)
  <1> DEFINE Sum(g, s) == IF s = {} THEN 0 ELSE f[First(s)] + g[s \ {First(s)}]
             T == {n \in Nat : \E g : g = [s \in UpTo(n, S) |-> Sum(g, s)]}
  <1>1. 0 \in T
    <2> DEFINE g == [s \in UpTo(0, S) |-> 0]
    <2>1. \A s \in UpTo(0, S) : Sum(g, s) = 0
      BY FirstRemoved
    <2>2. g = [s \in UpTo(0, S) |-> Sum(g, s)]
      BY <2>1
    <2> QED
      BY <2>2
  <1>2. ASSUME NEW n \in Nat, n \in T PROVE n + 1 \in T
    <2>1. PICK g : g = [s \in UpTo(n, S) |-> Sum(g, s)]
      BY <1>2
    <2> DEFINE h == [s \in UpTo(n + 1, S) |-> Sum(g, s)]
    <2>2. \A s \in UpTo(n, S) : h[s] = g[s]
      <3> SUFFICES ASSUME NEW s \in UpTo(n, S) PROVE h[s] = g[s]
        OBVIOUS
      <3>1. h[s] = Sum(g, s)
        BY FirstRemoved
      <3>2. g[s] = Sum(g, s)
        <4> HIDE DEF Sum
        <4> QED
          BY <2>1
      <3> QED
        BY <3>1, <3>2
    <2>3. \A s \in UpTo(n + 1, S) : Sum(g, s) = Sum(h, s)
      <3> HIDE DEF h
      <3> QED
        BY <2>2, FirstRemoved
    <2>4. h = [s \in UpTo(n + 1, S) |-> Sum(h, s)]
      BY <2>3
    <2>5. \E k : k = [s \in UpTo(n + 1, S) |-> Sum(k, s)]
      <3> HIDE DEF h, Sum
      <3> QED
        BY <2>4
    <2>6. n + 1 \in Nat
      BY <1>2
    <2> HIDE DEF Sum
    <2> QED
      BY <2>5, <2>6
  <1>3. Nat \subseteq T
    <2> HIDE DEF T
    <2> QED
      BY <1>1, <1>2, InductionOnSets
  <1>4. Cardinality(S) \in T /\ UpTo(Cardinality(S), S) = SUBSET S
    BY <1>3, FirstRemoved
  <1>5. \E g : Sums(g, f, S)
    BY <1>4 DEF Sums
  <1> QED
    BY <1>5

\* The sums of two functions are related on every subset as they are on one.
LEMMA SumTyped ==
    ASSUME NEW S, IsFiniteSet(S), NEW f \in [S -> Nat]
    PROVE  SumOver(f, S) \in Nat
  <1> DEFINE g == CHOOSE g : Sums(g, f, S)
             T == {n \in Nat : \A s \in UpTo(n, S) : g[s] \in Nat}
  <1>1. Sums(g, f, S)
    BY SumsExist
  <1> HIDE DEF g
  <1>2. \A s \in SUBSET S : g[s] = IF s = {} THEN 0 ELSE f[First(s)] + g[s \ {First(s)}]
    BY <1>1 DEF Sums
  <1>3. 0 \in T
    <2>1. \A s \in UpTo(0, S) : s = {}
      BY FirstRemoved
    <2>2. {} \in SUBSET S
      OBVIOUS
    <2>3. g[{}] = 0
      BY <1>2, <2>2
    <2> QED
      BY <2>1, <2>3
  <1>4. ASSUME NEW n \in Nat, n \in T PROVE n + 1 \in T
    <2> SUFFICES ASSUME NEW s \in UpTo(n + 1, S) PROVE g[s] \in Nat
      OBVIOUS
    <2>1. s \in SUBSET S
      BY FirstRemoved
    <2>2. CASE s = {}
      BY <1>2, <2>1, <2>2
    <2>3. CASE s # {}
      <3>1. f[First(s)] \in Nat /\ g[s \ {First(s)}] \in Nat
        BY <1>4, <2>3, FirstRemoved
      <3> QED
        BY <1>2, <2>1, <2>3, <3>1
    <2> QED
      BY <2>2, <2>3
  <1>5. Nat \subseteq T
    <2> HIDE DEF T
    <2> QED
      BY <1>3, <1>4, InductionOnSets
  <1>6. g[S] \in Nat
    BY <1>5, FirstRemoved
  <1> QED
    BY <1>6 DEF SumOver, g

LEMMA SumOfZeros ==
    ASSUME NEW S, IsFiniteSet(S), NEW f, \A x \in S : f[x] = 0
    PROVE  SumOver(f, S) = 0
  <1> DEFINE g == CHOOSE g : Sums(g, f, S)
             T == {n \in Nat : \A s \in UpTo(n, S) : g[s] = 0}
  <1>1. Sums(g, f, S)
    BY SumsExist
  <1> HIDE DEF g
  <1>2. \A s \in SUBSET S : g[s] = IF s = {} THEN 0 ELSE f[First(s)] + g[s \ {First(s)}]
    BY <1>1 DEF Sums
  <1>3. 0 \in T
    <2>1. \A s \in UpTo(0, S) : s = {}
      BY FirstRemoved
    <2>2. {} \in SUBSET S
      OBVIOUS
    <2>3. g[{}] = 0
      BY <1>2, <2>2
    <2> QED
      BY <2>1, <2>3
  <1>4. ASSUME NEW n \in Nat, n \in T PROVE n + 1 \in T
    <2> SUFFICES ASSUME NEW s \in UpTo(n + 1, S) PROVE g[s] = 0
      OBVIOUS
    <2>1. s \in SUBSET S
      BY FirstRemoved
    <2>2. CASE s = {}
      BY <1>2, <2>1, <2>2
    <2>3. CASE s # {}
      <3>1. f[First(s)] = 0 /\ g[s \ {First(s)}] = 0
        BY <1>4, <2>3, FirstRemoved
      <3>2. g[s] = f[First(s)] + g[s \ {First(s)}]
        BY <1>2, <2>1, <2>3
      <3>3. g[s] = 0 + 0
        BY <3>1, <3>2
      <3> QED
        BY <3>3
    <2> QED
      BY <2>2, <2>3
  <1>5. Nat \subseteq T
    <2> HIDE DEF T
    <2> QED
      BY <1>3, <1>4, InductionOnSets
  <1>6. g[S] = 0
    BY <1>5, FirstRemoved
  <1> QED
    BY <1>6 DEF SumOver, g

\* One summand changes, and the sum by as much.
LEMMA SumUpdated ==
    ASSUME NEW S, IsFiniteSet(S), NEW f \in [S -> Nat], NEW d \in S,
           NEW e, e[d] \in Nat, \A x \in S : x # d => e[x] = f[x]
    PROVE  SumOver(e, S) = SumOver(f, S) - f[d] + e[d]
  <1> DEFINE v == e[d]
             g == CHOOSE g : Sums(g, f, S)
             h == CHOOSE h : Sums(h, e, S)
             T == {n \in Nat : \A s \in UpTo(n, S) :
                     /\ g[s] \in Nat
                     /\ h[s] = IF d \in s THEN g[s] - f[d] + v ELSE g[s]}
  <1>1. Sums(g, f, S) /\ Sums(h, e, S)
    BY SumsExist
  <1>0. v \in Nat /\ \A x \in S : e[x] = IF x = d THEN v ELSE f[x]
    OBVIOUS
  <1> HIDE DEF g, h, v
  <1>2. /\ \A s \in SUBSET S : g[s] = IF s = {} THEN 0 ELSE f[First(s)] + g[s \ {First(s)}]
        /\ \A s \in SUBSET S : h[s] = IF s = {} THEN 0 ELSE e[First(s)] + h[s \ {First(s)}]
    BY <1>1 DEF Sums
  <1>3. 0 \in T
    <2>1. \A s \in UpTo(0, S) : s = {}
      BY FirstRemoved
    <2>2. {} \in SUBSET S
      OBVIOUS
    <2>3. g[{}] = 0 /\ h[{}] = 0
      BY <1>2, <2>2
    <2>4. \A s \in UpTo(0, S) : d \notin s /\ g[s] = 0 /\ h[s] = 0
      BY <2>1, <2>3
    <2>5. \A s \in UpTo(0, S) :
            g[s] \in Nat /\ h[s] = IF d \in s THEN g[s] - f[d] + v ELSE g[s]
      <3> SUFFICES ASSUME NEW s \in UpTo(0, S)
                   PROVE  g[s] \in Nat /\ h[s] = g[s]
        BY <2>4
      <3> QED
        BY <2>4
    <2> QED
      BY <2>5
  <1>4. ASSUME NEW n \in Nat, n \in T PROVE n + 1 \in T
    <2> SUFFICES ASSUME NEW s \in UpTo(n + 1, S)
                 PROVE  /\ g[s] \in Nat
                        /\ h[s] = IF d \in s THEN g[s] - f[d] + v ELSE g[s]
      OBVIOUS
    <2>1. s \in SUBSET S
      BY FirstRemoved
    <2>2. CASE s = {}
      <3>1. g[s] = 0 /\ h[s] = 0 /\ d \notin s
        BY <1>2, <2>1, <2>2
      <3> QED
        BY <3>1
    <2>3. CASE s # {}
      <3> DEFINE x == First(s)
                 t == s \ {x}
      <3>1. x \in s /\ x \in S /\ t \in UpTo(n, S)
        BY <2>3, FirstRemoved
      <3>2. g[t] \in Nat /\ h[t] = IF d \in t THEN g[t] - f[d] + v ELSE g[t]
        BY <1>4, <3>1
      <3>3. g[s] = f[x] + g[t] /\ h[s] = e[x] + h[t]
        BY <1>2, <2>1, <2>3
      <3>4. f[x] \in Nat /\ f[d] \in Nat /\ e[x] = IF x = d THEN v ELSE f[x]
        <4>1. f[x] \in Nat /\ f[d] \in Nat
          BY <3>1
        <4> QED
          BY <1>0, <3>1, <4>1
      <3>5. /\ d \in t <=> d \in s /\ d # x
            /\ d = x => d \in s
        BY <3>1
      <3> HIDE DEF x, t
      <3>6. g[s] \in Nat
        BY <3>2, <3>3, <3>4
      <3>7. CASE d = x
        BY <1>0, <3>2, <3>3, <3>4, <3>5, <3>7
      <3>8. CASE d # x
        <4>1. e[x] = f[x] /\ (d \in t <=> d \in s)
          BY <3>4, <3>5, <3>8
        <4>2. CASE d \in s
          BY <1>0, <3>2, <3>3, <3>4, <4>1, <4>2
        <4>3. CASE d \notin s
          BY <3>2, <3>3, <3>4, <4>1, <4>3
        <4> QED
          BY <3>6, <4>2, <4>3
      <3> QED
        BY <3>6, <3>7, <3>8
    <2> QED
      BY <2>2, <2>3
  <1>5. Nat \subseteq T
    <2> HIDE DEF T
    <2> QED
      BY <1>3, <1>4, InductionOnSets
  <1>6. h[S] = g[S] - f[d] + v
    BY <1>5, FirstRemoved
  <1> QED
    BY <1>6 DEF SumOver, g, h, v

(***************************************************************************)
(* What is available is counted.  Release counts an amount before Credit   *)
(* makes it available: the invariant adds what is between the two.  A      *)
(* fault there, or too little pending, counts an amount that is never      *)
(* available.                                                              *)
(***************************************************************************)
InFlight == [r \in Requests |-> IF pc[r] = "credit" THEN ctx[r].amt ELSE 0]

AboutContracts == \A r \in Requests : pc[r] # "idle" => ctx[r].c \in Contracts

FlowInv ==
    /\ AboutContracts
    /\ available + SumOver(InFlight, Requests) <= SumOver(released, Contracts)

LEMMA AboutBegin ==
    ASSUME TypeOK, AboutContracts, NEW r \in Requests, NEW label, NEW m,
           NEW c \in Contracts, NEW to, NEW amt, label # "credit",
           Start(r, label, m, c, to, amt)
    PROVE  AboutContracts' /\ InFlight' = InFlight
  BY DEF Start, TypeOK, AboutContracts, InFlight

LEMMA AboutGoto ==
    ASSUME TypeOK, AboutContracts, NEW r \in Requests, NEW label,
           pc[r] # "idle", Goto(r, label)
    PROVE  /\ AboutContracts'
           /\ pc[r] # "credit" /\ label # "credit" => InFlight' = InFlight
           /\ pc[r] # "credit" /\ label = "credit" =>
                InFlight' = [InFlight EXCEPT ![r] = ctx[r].amt]
           /\ label # "credit" => InFlight' = [InFlight EXCEPT ![r] = 0]
  BY DEF Goto, TypeOK, AboutContracts, InFlight

LEMMA InFlightType == TypeOK => InFlight \in [Requests -> Nat]
  BY LocalsType DEF InFlight

\* Every other step leaves the amounts alone, counted, available or between.
LEMMA FlowKept ==
    ASSUME TypeOK, AboutContracts, [Next]_vars
    PROVE  \/ AboutContracts' /\ UNCHANGED <<released, available, InFlight>>
           \/ \E r \in Requests : Release(r) \/ Credit(r) \/ Fault(r)
  <1> USE DEF OnlyContract, OnlyMilestone, SetStatus, contractVars, milestoneVars, balanceVars
  <1>1. ASSUME NEW r \in Requests, Step(r), ~Release(r), ~Credit(r)
        PROVE  AboutContracts' /\ UNCHANGED <<released, available, InFlight>>
    <2>1. UNCHANGED <<released, available>>
      BY <1>1 DEF Step, Insert, CountUp, Update, Remove, CountDown, Write,
         CountDone, CheckPending, Finish, Complete, CompleteJob, SetCompleted, Refund, Cancel
    <2>2. \E label : Goto(r, label) /\ label # "credit" /\ pc[r] # "idle" /\ pc[r] # "credit"
      BY <1>1 DEF Step, Insert, CountUp, Update, Remove, CountDown, Write,
         CountDone, CheckPending, Finish, Complete, CompleteJob, SetCompleted, Refund, Cancel
    <2> QED
      BY <2>1, <2>2, AboutGoto
  <1>2. ASSUME NEW r \in Requests, Begin(r)
        PROVE  AboutContracts' /\ UNCHANGED <<released, available, InFlight>>
    <2>1. ASSUME NEW c \in Contracts, CompleteContract(r, c)
          PROVE  AboutContracts' /\ UNCHANGED <<released, available, InFlight>>
      <3>1. CASE Start(r, "setcompleted", "none", c, "none", 0)
        <4>1. UNCHANGED <<released, available>>
          BY <3>1 DEF Start
        <4> QED
          BY <3>1, <4>1, AboutBegin
      <3>2. CASE UNCHANGED <<pc, ctx, released, available>>
        BY <3>2 DEF AboutContracts, InFlight
      <3> QED
        BY <2>1, <3>1, <3>2 DEF CompleteContract
    <2>2. \/ \E c \in Contracts : CompleteContract(r, c)
          \/ \E label, m, to, amt : \E c \in Contracts :
               label # "credit" /\ Start(r, label, m, c, to, amt)
      BY <1>2, EscrowAssumption DEF Begin, CancelStart, CreateStart, UpdateStart, DeleteStart, MoveStart
    <2>3. ASSUME NEW label, NEW m, NEW to, NEW amt, NEW c \in Contracts, label # "credit",
                 Start(r, label, m, c, to, amt)
          PROVE  AboutContracts' /\ UNCHANGED <<released, available, InFlight>>
      <3>1. UNCHANGED <<released, available>>
        BY <2>3 DEF Start
      <3> QED
        BY <2>3, <3>1, AboutBegin
    <2> QED
      BY <2>1, <2>2, <2>3
  <1>3. ASSUME NEW c \in Contracts, Fund(c) \/ SetElsewhere(c)
        PROVE  AboutContracts' /\ UNCHANGED <<released, available, InFlight>>
    <2>1. UNCHANGED <<pc, ctx, released, available>>
      BY <1>3 DEF Fund, SetElsewhere
    <2> QED
      BY <2>1 DEF AboutContracts, InFlight
  <1>4. CASE UNCHANGED vars
    BY <1>4 DEF vars, AboutContracts, InFlight
  <1> QED
    BY <1>1, <1>2, <1>3, <1>4 DEF Next

LEMMA FlowNext ==
    ASSUME IsFiniteSet(Contracts), IsFiniteSet(Requests), TypeOK, FlowInv, [Next]_vars
    PROVE  FlowInv'
  <1>1. /\ InFlight \in [Requests -> Nat]
        /\ released \in [Contracts -> Nat]
        /\ available \in Nat
    BY InFlightType DEF TypeOK, Cents
  <1>2. /\ SumOver(InFlight, Requests) \in Nat
        /\ SumOver(released, Contracts) \in Nat
    BY <1>1, SumTyped
  <1>3. AboutContracts /\ available + SumOver(InFlight, Requests) <= SumOver(released, Contracts)
    BY DEF FlowInv
  <1>4. CASE AboutContracts' /\ UNCHANGED <<released, available, InFlight>>
    BY <1>3, <1>4 DEF FlowInv
  <1>5. ASSUME NEW r \in Requests, Release(r)
        PROVE  FlowInv'
    <2> DEFINE c == ctx[r].c
               amt == ctx[r].amt
    <2>1. /\ pc[r] = "release" /\ Goto(r, "credit")
          /\ released' = [released EXCEPT ![c] = released[c] + amt]
          /\ available' = available
      BY <1>5 DEF Release, Counted, OnlyContract, balanceVars
    <2>2. c \in Contracts /\ amt \in Nat /\ released[c] \in Nat
      BY <1>1, <1>3, <2>1, LocalsType DEF AboutContracts
    <2>3. AboutContracts' /\ InFlight' = [InFlight EXCEPT ![r] = amt]
      BY <1>3, <2>1, AboutGoto
    <2>4. InFlight[r] = 0
      BY <2>1 DEF InFlight
    <2> HIDE DEF c, amt
    <2>5. SumOver(InFlight', Requests) = SumOver(InFlight, Requests) - InFlight[r] + InFlight'[r]
      <3>1. InFlight'[r] = amt /\ \A q \in Requests : q # r => InFlight'[q] = InFlight[q]
        BY <1>1, <2>3
      <3> QED
        BY <1>1, <2>2, <3>1, SumUpdated
    <2>6. released'[c] = released[c] + amt /\ InFlight'[r] = amt
      BY <1>1, <2>1, <2>2, <2>3
    <2>7. SumOver(released', Contracts) = SumOver(released, Contracts) - released[c] + released'[c]
      <3>1. released'[c] \in Nat /\ \A d \in Contracts : d # c => released'[d] = released[d]
        BY <1>1, <2>1, <2>2
      <3> QED
        BY <1>1, <2>2, <3>1, SumUpdated
    <2>8. /\ SumOver(InFlight', Requests) = SumOver(InFlight, Requests) + amt
          /\ SumOver(released', Contracts) = SumOver(released, Contracts) + amt
      BY <1>2, <2>2, <2>4, <2>5, <2>6, <2>7
    <2> QED
      BY <1>1, <1>2, <1>3, <2>1, <2>2, <2>3, <2>8 DEF FlowInv
  <1>6. ASSUME NEW r \in Requests, Credit(r)
        PROVE  FlowInv'
    <2> DEFINE amt == ctx[r].amt
    <2>1. pc[r] = "credit" /\ \E label : label # "credit" /\ Goto(r, label)
      BY <1>6 DEF Credit
    <2>2. released' = released /\ (available' = available + amt \/ available' = available)
      BY <1>6 DEF Credit, contractVars
    <2>3. amt \in Nat
      BY LocalsType
    <2>4. AboutContracts' /\ InFlight' = [InFlight EXCEPT ![r] = 0]
      BY <1>3, <2>1, AboutGoto
    <2>5. InFlight[r] = amt
      BY <2>1 DEF InFlight
    <2> HIDE DEF amt
    <2>6. SumOver(InFlight', Requests) = SumOver(InFlight, Requests) - InFlight[r] + 0
      <3>1. InFlight'[r] = 0 /\ \A q \in Requests : q # r => InFlight'[q] = InFlight[q]
        BY <1>1, <2>4
      <3> QED
        BY <1>1, <3>1, SumUpdated
    <2>7. SumOver(InFlight', Requests) = SumOver(InFlight, Requests) - amt
      BY <1>2, <2>3, <2>4, <2>5, <2>6
    <2> QED
      BY <1>1, <1>2, <1>3, <2>2, <2>3, <2>4, <2>7 DEF FlowInv
  <1>7. ASSUME NEW r \in Requests, Fault(r)
        PROVE  FlowInv'
    <2>1. pc[r] # "idle" /\ Goto(r, "idle") /\ UNCHANGED <<released, available>>
      BY <1>7 DEF Fault, contractVars, balanceVars
    <2>2. AboutContracts' /\ InFlight' = [InFlight EXCEPT ![r] = 0]
      BY <1>3, <2>1, AboutGoto
    <2>3. SumOver(InFlight', Requests) = SumOver(InFlight, Requests) - InFlight[r] + 0
      <3>1. InFlight'[r] = 0 /\ \A q \in Requests : q # r => InFlight'[q] = InFlight[q]
        BY <1>1, <2>2
      <3> QED
        BY <1>1, <3>1, SumUpdated
    <2>4. InFlight[r] \in Nat
      BY <1>1
    <2>5. SumOver(InFlight', Requests) <= SumOver(InFlight, Requests)
      BY <1>2, <2>2, <2>3, <2>4
    <2>6. SumOver(InFlight', Requests) \in Nat
      BY <1>2, <2>2, <1>1, SumTyped, InFlightType
    <2> QED
      BY <1>1, <1>2, <1>3, <2>1, <2>2, <2>5, <2>6 DEF FlowInv
  <1> QED
    BY <1>3, <1>4, <1>5, <1>6, <1>7, FlowKept

LEMMA FlowInit ==
    ASSUME IsFiniteSet(Contracts), IsFiniteSet(Requests), Init
    PROVE  FlowInv
  <1>1. AboutContracts /\ \A r \in Requests : InFlight[r] = 0
    BY DEF Init, AboutContracts, InFlight
  <1>2. SumOver(InFlight, Requests) = 0
    BY <1>1, SumOfZeros
  <1>3. (\A c \in Contracts : released[c] = 0) /\ available = 0
    BY DEF Init
  <1>4. SumOver(released, Contracts) = 0
    BY <1>3, SumOfZeros
  <1> QED
    BY <1>1, <1>2, <1>3, <1>4 DEF FlowInv

\* However approvals race, fail or crash, what the freelancer got from
\* milestones is counted in the contracts' released amounts, for any finite
\* numbers of contracts and requests: approve counts first.
THEOREM AvailableAmountsAreCounted ==
    ASSUME IsFiniteSet(Contracts), IsFiniteSet(Requests)
    PROVE  Spec => []AvailableIsCounted
  <1>1. Init => FlowInv
    BY FlowInit
  <1>2. TypeOK /\ FlowInv /\ [Next]_vars => FlowInv'
    BY FlowNext
  <1>3. TypeOK /\ FlowInv => AvailableIsCounted
    <2> SUFFICES ASSUME TypeOK, FlowInv PROVE AvailableIsCounted
      OBVIOUS
    <2>1. InFlight \in [Requests -> Nat] /\ released \in [Contracts -> Nat] /\ available \in Nat
      BY InFlightType DEF TypeOK, Cents
    <2>2. SumOver(InFlight, Requests) \in Nat /\ SumOver(released, Contracts) \in Nat
      BY <2>1, SumTyped
    <2>3. available <= SumOver(released, Contracts)
      BY <2>1, <2>2 DEF FlowInv
    <2>4. MapThenSumSet(LAMBDA c : released[c], Contracts) = SumOver(released, Contracts)
      BY SumOverIs
    <2> QED
      BY <2>3, <2>4 DEF AvailableIsCounted
  <1> QED
    BY <1>1, <1>2, <1>3, TypeCorrect, PTL DEF Spec

=============================================================================
