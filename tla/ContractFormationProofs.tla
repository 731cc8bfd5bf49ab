----------------------- MODULE ContractFormationProofs -----------------------
(***************************************************************************)
(* What holds of ContractFormation for any number of proposals, requests,  *)
(* errors and crashes.                                                     *)
(***************************************************************************)
EXTENDS ContractFormation, TLAPS

(***************************************************************************)
(* Type correctness                                                        *)
(***************************************************************************)
LEMMA NoLocalsType == NoLocals \in Locals
  <1>1. AnyProposal \in Proposals
    BY FormationAssumption DEF AnyProposal
  <1> QED
    BY <1>1 DEF NoLocals, Locals, JobStatus

\* Starting a request and moving it on keep its own variables typed.
LEMMA StartType ==
    ASSUME TypeOK, NEW r \in Requests, NEW label \in PCs,
           NEW p \in Proposals, NEW to \in JobStatus, Start(r, label, p, to)
    PROVE  TypeOK'
  <1>1. [p |-> p, to |-> to] \in Locals
    BY DEF Locals
  <1> QED
    BY <1>1 DEF Start, TypeOK, jobVars, proposalVars, Quiet

LEMMA GotoType ==
    ASSUME TypeOK, NEW r \in Requests, NEW label \in PCs, Goto(r, label)
    PROVE  /\ pc' \in [Requests -> PCs]
           /\ ctx' \in [Requests -> Locals]
           /\ overlapped' = overlapped
  BY NoLocalsType DEF Goto, TypeOK

\* Every request has a proposal and a job status among its locals.
LEMMA CtxType ==
    ASSUME TypeOK, NEW r \in Requests
    PROVE  ctx[r].p \in Proposals /\ ctx[r].to \in JobStatus
  <1>1. ctx[r] \in Locals
    BY DEF TypeOK
  <1> QED
    BY <1>1 DEF Locals

\* A request that begins keeps every variable typed.
LEMMA BeginType ==
    ASSUME TypeOK, NEW r \in Requests, Begin(r)
    PROVE  TypeOK'
  <1>1. AnyProposal \in Proposals
    BY FormationAssumption DEF AnyProposal
  <1>2. CASE UpdateJobStart(r)
    <2>1. PICK s \in Edits : Start(r, "setjob", AnyProposal, s)
      BY <1>2 DEF UpdateJobStart
    <2>2. s \in JobStatus
      BY FormationAssumption
    <2> QED
      BY <1>1, <2>1, <2>2, StartType DEF PCs
  <1>3. CASE CloseJobStart(r) \/ ReopenJobStart(r) \/ RemoveJobStart(r)
    BY <1>1, <1>3, StartType
    DEF CloseJobStart, ReopenJobStart, RemoveJobStart, PCs, JobStatus
  <1>4. ASSUME NEW p \in Proposals,
               SubmitStart(r, p) \/ RemoveStart(r, p) \/ RejectStart(r, p)
        PROVE  TypeOK'
    BY <1>4, StartType DEF SubmitStart, RemoveStart, RejectStart, PCs, JobStatus
  <1>5. ASSUME NEW p \in Proposals, AcceptStart(r, p) \/ CreateStart(r, p)
        PROVE  TypeOK'
    BY <1>5, StartType DEF AcceptStart, CreateStart, PCs, JobStatus
  <1> QED
    BY <1>2, <1>3, <1>4, <1>5 DEF Begin

\* So does each of its steps.
LEMMA StepType ==
    ASSUME TypeOK, NEW r \in Requests, Step(r)
    PROVE  TypeOK'
  <1> USE DEF OnlyJob, OnlyProposal, jobVars, proposalVars, OnJob
  <1>1. ctx[r].p \in Proposals /\ ctx[r].to \in JobStatus
    BY CtxType
  <1>2. CASE WriteJob(r)
    BY <1>1, <1>2, GotoType DEF WriteJob, SetJob, TypeOK, PCs
  <1>3. CASE RemoveJob(r)
    BY <1>3, GotoType DEF RemoveJob, TypeOK, PCs
  <1>4. CASE Insert(r) \/ Accept(r) \/ Reject(r)
    BY <1>1, <1>4, GotoType
    DEF Insert, Accept, Reject, TypeOK, PCs, ProposalStatus
  <1>5. CASE CountUp(r) \/ CountDown(r)
    BY <1>5, GotoType DEF CountUp, CountDown, TypeOK, PCs
  <1>6. CASE Remove(r) \/ CheckContract(r)
    BY <1>1, <1>6, GotoType DEF Remove, CheckContract, TypeOK, PCs
  <1>7. CASE RejectOthers(r)
    BY <1>7, GotoType DEF RejectOthers, TypeOK, PCs, ProposalStatus
  <1>8. CASE SelectJob(r)
    BY <1>1, <1>8, GotoType DEF SelectJob, Selection, SetJob, TypeOK, PCs
  <1>9. CASE Claim(r)
    BY <1>9, GotoType DEF Claim, TypeOK, PCs, Creating, Refs
  <1>10. CASE CheckProposal(r)
    <2>1. (IF ctx[r].p \in contracts THEN "idle" ELSE "validate") \in PCs
      BY DEF PCs, Creating
    <2>2. contractId' \in Refs
      BY <1>10 DEF CheckProposal, TypeOK, Refs
    <2> QED
      BY <1>10, <2>1, <2>2, GotoType DEF CheckProposal, TypeOK
  <1>11. CASE Validate(r) \/ Milestones(r)
    BY <1>11, GotoType DEF Validate, Milestones, TypeOK, PCs, Creating
  <1>12. CASE Save(r)
    BY <1>1, <1>12, GotoType DEF Save, TypeOK, PCs, Creating
  <1>13. CASE Replace(r) \/ Cleanup(r)
    BY <1>1, <1>13, GotoType DEF Replace, Cleanup, TypeOK, PCs, Refs
  <1> QED
    BY <1>2, <1>3, <1>4, <1>5, <1>6, <1>7, <1>8, <1>9, <1>10, <1>11, <1>12,
       <1>13 DEF Step

\* And so do errors, crashes and what other components do to the job.
LEMMA FaultType ==
    ASSUME TypeOK, NEW r \in Requests, Error(r) \/ Crash(r)
    PROVE  TypeOK'
  <1>1. (IF pc[r] \in Creating \ {"cleanup"} THEN "cleanup" ELSE "idle") \in PCs
    BY DEF PCs, Creating
  <1>2. "idle" \in PCs
    BY DEF PCs
  <1>3. CASE Error(r)
    BY <1>1, <1>3, GotoType DEF Error, Fault, TypeOK, jobVars, proposalVars
  <1>4. CASE Crash(r)
    BY <1>2, <1>4, GotoType DEF Crash, Fault, TypeOK, jobVars, proposalVars
  <1> QED
    BY <1>3, <1>4

LEMMA ElsewhereType ==
    ASSUME TypeOK, ExpireJob \/ AdvanceJob
    PROVE  TypeOK'
  BY DEF ExpireJob, AdvanceJob, SetJob, OnJob, OnlyJob, TypeOK, JobStatus,
         proposalVars

LEMMA InitType == Init => TypeOK
  <1> SUFFICES ASSUME Init
               PROVE  TypeOK
    OBVIOUS
  <1>1. /\ jstatus \in JobStatus \cup {"none"}
        /\ contractId \in Refs
        /\ selected \in Proposals \cup {"none"}
        /\ count \in Int
        /\ faults \in Nat
    BY DEF Init, JobStatus, Refs
  <1>2. contracts \subseteq Proposals /\ overlapped \in BOOLEAN
    BY DEF Init
  <1>3. /\ pstatus \in [Proposals -> ProposalStatus \cup {"none"}]
        /\ deleted \in [Proposals -> BOOLEAN]
    BY DEF Init
  <1>4. /\ pc \in [Requests -> PCs]
        /\ ctx \in [Requests -> Locals]
    BY NoLocalsType DEF Init, PCs
  <1> QED
    BY <1>1, <1>2, <1>3, <1>4 DEF TypeOK

LEMMA NextType == TypeOK /\ [Next]_vars => TypeOK'
  <1> SUFFICES ASSUME TypeOK, [Next]_vars
               PROVE  TypeOK'
    OBVIOUS
  <1>1. CASE ExpireJob \/ AdvanceJob
    BY <1>1, ElsewhereType
  <1>2. ASSUME NEW r \in Requests, Begin(r) \/ Step(r) \/ Error(r) \/ Crash(r)
        PROVE  TypeOK'
    BY <1>2, BeginType, StepType, FaultType
  <1>3. CASE UNCHANGED vars
    BY <1>3 DEF vars, jobVars, proposalVars, TypeOK
  <1> QED
    BY <1>1, <1>2, <1>3 DEF Next

\* The model is well typed, whatever the constants.
THEOREM TypeCorrect == Spec => []TypeOK
  BY InitType, NextType, PTL DEF Spec

(***************************************************************************)
(* One contract per job.  Neither property is inductive by itself.  A job  *)
(* with a contract stays claimed because the branch of createContract that *)
(* releases the claim is taken only by a request that finds a contract:    *)
(* FreshClaim says that no request that has claimed the job can find one.  *)
(***************************************************************************)
FreshClaim ==
    \A r \in Requests :
        /\ pc[r] \in {"check", "validate", "save"} => contracts = {}
        /\ pc[r] \in {"milestones", "replace"} => ctx[r].p \in contracts

ClaimInv == OneCreator /\ ContractedJobIsClaimed /\ FreshClaim

\* The variables the invariant reads, other than the requests' own.
claimVars == <<contractId, contracts>>

\* A request outside createContract that starts, or moves on outside it,
\* disturbs nothing.
LEMMA OutsideStep ==
    ASSUME TypeOK, ClaimInv, NEW r \in Requests,
           pc'[r] \notin Creating,
           \A s \in Requests \ {r} : pc'[s] = pc[s] /\ ctx'[s] = ctx[s],
           UNCHANGED claimVars
    PROVE  ClaimInv'
  <1>1. {"check", "validate", "save", "milestones", "replace"} \subseteq Creating
    BY DEF Creating
  <1>2. OneCreator'
    BY DEF ClaimInv, OneCreator, claimVars
  <1>3. ContractedJobIsClaimed'
    BY DEF ClaimInv, ContractedJobIsClaimed, claimVars
  <1>4. FreshClaim'
    BY <1>1 DEF ClaimInv, FreshClaim, claimVars
  <1> QED
    BY <1>2, <1>3, <1>4 DEF ClaimInv

\* What Goto does to the requests.
LEMMA GotoMoves ==
    ASSUME TypeOK, NEW r \in Requests, NEW label, Goto(r, label)
    PROVE  /\ pc'[r] = label
           /\ label # "idle" => ctx'[r] = ctx[r]
           /\ \A s \in Requests \ {r} : pc'[s] = pc[s] /\ ctx'[s] = ctx[s]
  BY DEF Goto, TypeOK

\* A request that creates a contract and moves on within createContract leaves
\* all other requests outside it.
LEMMA CreatorAlone ==
    ASSUME OneCreator, NEW r \in Requests, pc[r] \in Creating
    PROVE  /\ contractId = "placeholder"
           /\ \A s \in Requests \ {r} : pc[s] \notin Creating
  BY DEF OneCreator

LEMMA BeginClaim ==
    ASSUME TypeOK, ClaimInv, NEW r \in Requests, Begin(r)
    PROVE  ClaimInv'
  <1>1. ASSUME NEW label, label \notin Creating, NEW p, NEW to,
               Start(r, label, p, to)
        PROVE  ClaimInv'
    <2>1. /\ pc'[r] = label
          /\ \A s \in Requests \ {r} : pc'[s] = pc[s] /\ ctx'[s] = ctx[s]
      BY <1>1 DEF Start, TypeOK
    <2>2. UNCHANGED claimVars
      BY <1>1 DEF Start, jobVars, claimVars
    <2> QED
      BY <1>1, <2>1, <2>2, OutsideStep
  <1>2. CASE UpdateJobStart(r)
    BY <1>1, <1>2 DEF UpdateJobStart, Creating
  <1>3. CASE CloseJobStart(r) \/ ReopenJobStart(r) \/ RemoveJobStart(r)
    BY <1>1, <1>3 DEF CloseJobStart, ReopenJobStart, RemoveJobStart, Creating
  <1>4. ASSUME NEW p \in Proposals,
               SubmitStart(r, p) \/ RemoveStart(r, p) \/ RejectStart(r, p)
        PROVE  ClaimInv'
    BY <1>1, <1>4 DEF SubmitStart, RemoveStart, RejectStart, Creating
  <1>5. ASSUME NEW p \in Proposals, AcceptStart(r, p) \/ CreateStart(r, p)
        PROVE  ClaimInv'
    BY <1>1, <1>5 DEF AcceptStart, CreateStart, Creating
  <1> QED
    BY <1>2, <1>3, <1>4, <1>5 DEF Begin

\* The steps outside createContract, and its last ones.
LEMMA OutsideClaim ==
    ASSUME TypeOK, ClaimInv, NEW r \in Requests,
           \/ WriteJob(r) \/ RemoveJob(r)
           \/ Insert(r) \/ CountUp(r) \/ CheckContract(r) \/ Remove(r)
           \/ CountDown(r)
           \/ Accept(r) \/ RejectOthers(r) \/ SelectJob(r) \/ Reject(r)
    PROVE  ClaimInv'
  <1>1. UNCHANGED claimVars
    BY DEF WriteJob, RemoveJob, Insert, CountUp, CheckContract, Remove,
           CountDown, Accept, RejectOthers, SelectJob, Reject, OnlyJob,
           OnlyProposal, jobVars, claimVars
  <1>2. PICK label \in {"idle", "countup", "remove", "countdown",
                        "rejectothers", "selectjob"} : Goto(r, label)
    BY DEF WriteJob, RemoveJob, Insert, CountUp, CheckContract, Remove,
           CountDown, Accept, RejectOthers, SelectJob, Reject
  <1>3. label \notin Creating
    BY DEF Creating
  <1> QED
    BY <1>1, <1>2, <1>3, GotoMoves, OutsideStep

\* The steps of createContract.
LEMMA CreateClaim ==
    ASSUME TypeOK, ClaimInv, NEW r \in Requests,
           \/ Claim(r) \/ CheckProposal(r) \/ Validate(r) \/ Save(r)
           \/ Milestones(r) \/ Replace(r) \/ Cleanup(r)
    PROVE  ClaimInv'
  <1> USE DEF OnlyJob, jobVars, proposalVars
  <1>1. CASE Claim(r)
    <2>1. CASE Claimable /\ contractId' = "placeholder" /\ Goto(r, "check")
      <3>1. contracts = {} /\ \A s \in Requests : pc[s] \notin Creating
        BY <2>1, FormationAssumption
        DEF Claimable, ClaimInv, ContractedJobIsClaimed, OneCreator, TypeOK
      <3>2. contracts' = contracts
        BY <1>1 DEF Claim
      <3> QED
        BY <2>1, <3>1, <3>2, GotoMoves
        DEF ClaimInv, OneCreator, ContractedJobIsClaimed, FreshClaim, Creating
    <2>2. CASE UNCHANGED contractId /\ Goto(r, "idle")
      <3>1. UNCHANGED claimVars
        BY <1>1, <2>2 DEF Claim, claimVars
      <3> QED
        BY <2>2, <3>1, GotoMoves, OutsideStep DEF Creating
    <2> QED
      BY <1>1, <2>1, <2>2 DEF Claim
  <1>2. CASE CheckProposal(r)
    <2>1. contracts = {} /\ pc[r] \in Creating
      BY <1>2 DEF CheckProposal, ClaimInv, FreshClaim, Creating
    <2>2. UNCHANGED claimVars /\ Goto(r, "validate")
      BY <1>2, <2>1 DEF CheckProposal, claimVars
    <2> QED
      BY <2>1, <2>2, GotoMoves, CreatorAlone
      DEF ClaimInv, OneCreator, ContractedJobIsClaimed, FreshClaim, Creating,
          claimVars
  <1>3. CASE Validate(r)
    <2>1. contracts = {} /\ pc[r] \in Creating
      BY <1>3 DEF Validate, ClaimInv, FreshClaim, Creating
    <2>2. UNCHANGED claimVars
      BY <1>3 DEF Validate, claimVars
    <2>3. PICK label \in {"save", "cleanup"} : Goto(r, label)
      BY <1>3 DEF Validate
    <2> QED
      BY <2>1, <2>2, <2>3, GotoMoves, CreatorAlone
      DEF ClaimInv, OneCreator, ContractedJobIsClaimed, FreshClaim, Creating,
          claimVars
  <1>4. CASE Save(r)
    <2>1. contracts = {} /\ pc[r] \in Creating
      BY <1>4 DEF Save, ClaimInv, FreshClaim, Creating
    <2>2. /\ contractId' = contractId
          /\ contracts' = {ctx[r].p}
          /\ Goto(r, "milestones")
      BY <1>4, <2>1 DEF Save
    <2>3. /\ contractId = "placeholder"
          /\ \A s \in Requests \ {r} : pc[s] \notin Creating
      BY <2>1, CreatorAlone DEF ClaimInv
    <2> QED
      BY <2>1, <2>2, <2>3, GotoMoves
      DEF ClaimInv, OneCreator, ContractedJobIsClaimed, FreshClaim, Creating
  <1>5. CASE Milestones(r)
    <2>1. ctx[r].p \in contracts /\ pc[r] \in Creating
      BY <1>5 DEF Milestones, ClaimInv, FreshClaim, Creating
    <2>2. UNCHANGED claimVars /\ Goto(r, "replace")
      BY <1>5 DEF Milestones, claimVars
    <2> QED
      BY <2>1, <2>2, GotoMoves, CreatorAlone
      DEF ClaimInv, OneCreator, ContractedJobIsClaimed, FreshClaim, Creating,
          claimVars
  <1>6. CASE Replace(r)
    <2>1. ctx[r].p \in contracts /\ pc[r] \in Creating
      BY <1>6 DEF Replace, ClaimInv, FreshClaim, Creating
    <2>2. /\ contractId' \in {contractId, ctx[r].p}
          /\ contracts' = contracts
          /\ Goto(r, "idle")
      BY <1>6 DEF Replace, OnJob
    <2>3. /\ contractId = "placeholder"
          /\ \A s \in Requests \ {r} : pc[s] \notin Creating
      BY <2>1, CreatorAlone DEF ClaimInv
    <2> QED
      BY <2>1, <2>2, <2>3, GotoMoves
      DEF ClaimInv, OneCreator, ContractedJobIsClaimed, FreshClaim, Creating
  <1>7. CASE Cleanup(r)
    <2>1. UNCHANGED claimVars /\ Goto(r, "idle")
      BY <1>7 DEF Cleanup, FlagStored, claimVars
    <2> QED
      BY <2>1, GotoMoves, OutsideStep DEF Creating
  <1> QED
    BY <1>1, <1>2, <1>3, <1>4, <1>5, <1>6, <1>7

LEMMA FaultClaim ==
    ASSUME TypeOK, ClaimInv, NEW r \in Requests, Error(r) \/ Crash(r)
    PROVE  ClaimInv'
  <1>1. UNCHANGED claimVars
    BY DEF Error, Crash, Fault, jobVars, claimVars
  <1>2. CASE Goto(r, "idle")
    BY <1>1, <1>2, GotoMoves, OutsideStep DEF Creating
  <1>3. CASE pc[r] \in Creating /\ Goto(r, "cleanup")
    BY <1>1, <1>3, GotoMoves, CreatorAlone
    DEF ClaimInv, OneCreator, ContractedJobIsClaimed, FreshClaim, Creating,
        claimVars
  <1> QED
    BY <1>2, <1>3 DEF Error, Crash

LEMMA InitClaim == Init => ClaimInv
  BY DEF Init, ClaimInv, OneCreator, ContractedJobIsClaimed, FreshClaim, Creating

LEMMA NextClaim == TypeOK /\ ClaimInv /\ [Next]_vars => ClaimInv'
  <1> SUFFICES ASSUME TypeOK, ClaimInv, [Next]_vars
               PROVE  ClaimInv'
    OBVIOUS
  <1>1. CASE ExpireJob \/ AdvanceJob
    BY <1>1
    DEF ExpireJob, AdvanceJob, OnlyJob, ClaimInv, OneCreator,
        ContractedJobIsClaimed, FreshClaim
  <1>2. ASSUME NEW r \in Requests, Begin(r) \/ Step(r) \/ Error(r) \/ Crash(r)
        PROVE  ClaimInv'
    <2>1. CASE Step(r)
      BY <2>1, OutsideClaim, CreateClaim DEF Step
    <2> QED
      BY <1>2, <2>1, BeginClaim, FaultClaim
  <1>3. CASE UNCHANGED vars
    BY <1>3
    DEF vars, jobVars, ClaimInv, OneCreator, ContractedJobIsClaimed, FreshClaim
  <1> QED
    BY <1>1, <1>2, <1>3 DEF Next

LEMMA ClaimInvariant == Spec => [](TypeOK /\ ClaimInv)
  BY InitType, InitClaim, NextType, NextClaim, PTL DEF Spec

\* At most one request at a time creates a contract for the job.
THEOREM OneCreatorAtATime == Spec => []OneCreator
  <1>1. TypeOK /\ ClaimInv => OneCreator
    BY DEF ClaimInv
  <1> QED
    BY <1>1, ClaimInvariant, PTL

\* A job whose contract was saved is never free for another createContract.
THEOREM ContractedJobsStayClaimed == Spec => []ContractedJobIsClaimed
  <1>1. TypeOK /\ ClaimInv => ContractedJobIsClaimed
    BY DEF ClaimInv
  <1> QED
    BY <1>1, ClaimInvariant, PTL

-----------------------------------------------------------------------------
(***************************************************************************)
(* Requests that do not overlap.  None of the proposal's checks is         *)
(* repeated where it is relied on, so all that holds of it holds as long   *)
(* as one request is under way at a time: then what a request has checked  *)
(* is still true at its write.  Expects says what that is.                 *)
(***************************************************************************)
Expects(label, p, statuses, gone) ==
    /\ label = "insert" => statuses[p] = "none"
    /\ label \in {"checkcontract", "remove"} => statuses[p] = "pending"
    /\ label \in {"accept", "reject"} => ~gone[p]
    /\ label \in {"claim", "check", "validate", "save"} =>
         statuses[p] = "accepted"

\* At most one request is under way.
Alone == \A r, s \in Requests : pc[r] # "idle" /\ pc[s] # "idle" => r = s

\* A deleted proposal stays pending; one with a contract has been accepted.
DeletedIsPending == \A p \in Proposals : deleted[p] => pstatus[p] = "pending"
ContractedIsDecided ==
    \A p \in contracts : pstatus[p] \in {"accepted", "rejected"}

AllExpect ==
    \A r \in Requests : Expects(pc[r], ctx[r].p, pstatus, deleted)

DeletionInv ==
    overlapped \/ (Alone /\ AllExpect /\ DeletedIsPending /\ ContractedIsDecided)

LEMMA NothingExpected ==
    ASSUME NEW label \in {"idle", "setjob", "removejob", "countup", "countdown",
                          "rejectothers", "selectjob", "milestones", "replace",
                          "cleanup"},
           NEW p, NEW statuses, NEW gone
    PROVE  Expects(label, p, statuses, gone)
  BY DEF Expects

\* The request that starts is the only one, unless requests overlap.
LEMMA StartAlone ==
    ASSUME TypeOK, DeletionInv, ~overlapped', NEW r \in Requests,
           NEW label \in PCs, NEW p \in Proposals, NEW to, Start(r, label, p, to),
           Expects(label, p, pstatus, deleted)
    PROVE  DeletionInv'
  <1>1. ~overlapped /\ Quiet
    BY DEF Start
  <1>2. /\ pc'[r] = label /\ ctx'[r].p = p
        /\ \A s \in Requests \ {r} : pc'[s] = "idle"
    BY <1>1 DEF Start, Quiet, TypeOK
  <1>3. UNCHANGED <<pstatus, deleted, contracts>>
    BY DEF Start, proposalVars
  <1>4. AllExpect'
    BY <1>2, <1>3, NothingExpected DEF AllExpect
  <1> QED
    BY <1>1, <1>2, <1>3, <1>4
    DEF DeletionInv, Alone, DeletedIsPending, ContractedIsDecided

\* The request that goes on stays the only one.
LEMMA GotoAlone ==
    ASSUME TypeOK, DeletionInv, ~overlapped', NEW r \in Requests, pc[r] # "idle",
           NEW label \in PCs, Goto(r, label),
           Expects(label, ctx[r].p, pstatus', deleted'),
           DeletedIsPending', ContractedIsDecided'
    PROVE  DeletionInv'
  <1>1. Alone
    BY DEF Goto, DeletionInv
  <1>2. /\ pc'[r] = label
        /\ label # "idle" => ctx'[r] = ctx[r]
        /\ \A s \in Requests \ {r} : pc'[s] = "idle"
    BY <1>1, GotoMoves DEF Alone
  <1>3. AllExpect'
    BY <1>2, NothingExpected DEF AllExpect
  <1> QED
    BY <1>2, <1>3 DEF DeletionInv, Alone

LEMMA QuietGoto ==
    ASSUME TypeOK, DeletionInv, ~overlapped', NEW r \in Requests, pc[r] # "idle",
           NEW label \in PCs, Goto(r, label),
           UNCHANGED <<pstatus, deleted, contracts>>,
           Expects(label, ctx[r].p, pstatus, deleted)
    PROVE  DeletionInv'
  <1>1. DeletedIsPending' /\ ContractedIsDecided'
    BY DEF DeletionInv, Goto, DeletedIsPending, ContractedIsDecided
  <1> QED
    BY <1>1, GotoAlone

LEMMA BeginDeletion ==
    ASSUME TypeOK, DeletionInv, ~overlapped', NEW r \in Requests, Begin(r)
    PROVE  DeletionInv'
  <1>1. AnyProposal \in Proposals
    BY FormationAssumption DEF AnyProposal
  <1>2. CASE \/ UpdateJobStart(r) \/ CloseJobStart(r) \/ ReopenJobStart(r)
             \/ RemoveJobStart(r)
    <2>1. PICK label \in {"setjob", "removejob"}, to \in JobStatus :
               Start(r, label, AnyProposal, to)
      BY <1>2, FormationAssumption
      DEF UpdateJobStart, CloseJobStart, ReopenJobStart, RemoveJobStart, JobStatus
    <2> QED
      BY <1>1, <2>1, NothingExpected, StartAlone DEF PCs
  <1>3. ASSUME NEW p \in Proposals, SubmitStart(r, p)
        PROVE  DeletionInv'
    BY <1>3, StartAlone DEF SubmitStart, Expects, PCs
  <1>4. ASSUME NEW p \in Proposals, RemoveStart(r, p)
        PROVE  DeletionInv'
    BY <1>4, StartAlone DEF RemoveStart, Removable, Expects, PCs
  <1>5. ASSUME NEW p \in Proposals, AcceptStart(r, p) \/ RejectStart(r, p)
        PROVE  DeletionInv'
    <2>1. PICK label \in {"accept", "rejectothers", "reject"}, to \in JobStatus :
               Start(r, label, p, to)
      BY <1>5 DEF AcceptStart, RejectStart, JobStatus
    <2>2. Expects(label, p, pstatus, deleted)
      BY <1>5 DEF AcceptStart, RejectStart, Expects
    <2> QED
      BY <2>1, <2>2, StartAlone DEF PCs
  <1>6. ASSUME NEW p \in Proposals, CreateStart(r, p)
        PROVE  DeletionInv'
    BY <1>6, StartAlone DEF CreateStart, Expects, PCs
  <1> QED
    BY <1>2, <1>3, <1>4, <1>5, <1>6 DEF Begin

LEMMA StepDeletion ==
    ASSUME TypeOK, DeletionInv, ~overlapped', NEW r \in Requests, Step(r)
    PROVE  DeletionInv'
  <1> USE DEF OnlyJob, OnlyProposal, jobVars, proposalVars
  <1>1. ctx[r].p \in Proposals
    BY CtxType
  <1>2. ASSUME NEW label, Goto(r, label)
        PROVE  /\ Alone /\ DeletedIsPending /\ ContractedIsDecided
               /\ Expects(pc[r], ctx[r].p, pstatus, deleted)
    BY <1>2 DEF DeletionInv, AllExpect, Goto
  <1>3. CASE \/ WriteJob(r) \/ RemoveJob(r) \/ CountUp(r) \/ CountDown(r)
             \/ SelectJob(r) \/ Milestones(r) \/ Replace(r) \/ Cleanup(r)
    <2>1. /\ pc[r] # "idle"
          /\ UNCHANGED <<pstatus, deleted, contracts>>
          /\ \E label \in {"idle", "replace"} : Goto(r, label)
      BY <1>3
      DEF WriteJob, RemoveJob, CountUp, CountDown, SelectJob, Milestones,
          Replace, Cleanup
    <2> QED
      BY <2>1, NothingExpected, QuietGoto DEF PCs, Creating
  <1>4. CASE CheckContract(r) \/ Claim(r) \/ CheckProposal(r) \/ Validate(r)
    <2>1. /\ pc[r] # "idle"
          /\ UNCHANGED <<pstatus, deleted, contracts>>
      BY <1>4 DEF CheckContract, Claim, CheckProposal, Validate
    <2>2. PICK label \in {"idle", "remove", "check", "validate", "save",
                          "cleanup"} : Goto(r, label)
      BY <1>4 DEF CheckContract, Claim, CheckProposal, Validate
    <2>3. Expects(label, ctx[r].p, pstatus, deleted)
      BY <1>2, <1>4, <2>2, GotoMoves
      DEF CheckContract, Claim, CheckProposal, Validate, Expects
    <2> QED
      BY <2>1, <2>2, <2>3, QuietGoto DEF PCs, Creating
  <1>5. CASE Insert(r)
    <2>1. /\ pc[r] = "insert" /\ Goto(r, "countup")
          /\ pstatus' = [pstatus EXCEPT ![ctx[r].p] = "pending"]
          /\ UNCHANGED <<deleted, contracts>>
      BY <1>5 DEF Insert
    <2>2. ctx[r].p \notin contracts
      BY <1>2, <2>1 DEF Expects, ContractedIsDecided
    <2>3. DeletedIsPending' /\ ContractedIsDecided'
      BY <1>1, <1>2, <2>1, <2>2 DEF DeletedIsPending, ContractedIsDecided, TypeOK
    <2> QED
      BY <2>1, <2>3, NothingExpected, GotoAlone DEF PCs
  <1>6. CASE Remove(r)
    <2>1. /\ pc[r] = "remove" /\ Goto(r, "countdown")
          /\ deleted' = [deleted EXCEPT ![ctx[r].p] = TRUE]
          /\ UNCHANGED <<pstatus, contracts>>
      BY <1>6 DEF Remove
    <2>2. DeletedIsPending' /\ ContractedIsDecided'
      BY <1>1, <1>2, <2>1
      DEF Expects, DeletedIsPending, ContractedIsDecided, TypeOK
    <2> QED
      BY <2>1, <2>2, NothingExpected, GotoAlone DEF PCs
  <1>7. CASE Accept(r) \/ Reject(r)
    <2>1. PICK s \in {"accepted", "rejected"} :
               pstatus' = [pstatus EXCEPT ![ctx[r].p] = s]
      BY <1>7 DEF Accept, Reject
    <2>2. /\ pc[r] \in {"accept", "reject"}
          /\ UNCHANGED <<deleted, contracts>>
          /\ \E label \in {"rejectothers", "idle"} : Goto(r, label)
      BY <1>7 DEF Accept, Reject
    <2>3. DeletedIsPending' /\ ContractedIsDecided'
      BY <1>1, <1>2, <2>1, <2>2
      DEF Expects, DeletedIsPending, ContractedIsDecided, TypeOK
    <2> QED
      BY <2>2, <2>3, NothingExpected, GotoAlone DEF PCs
  <1>8. CASE RejectOthers(r)
    <2>1. /\ pc[r] # "idle" /\ Goto(r, "selectjob")
          /\ UNCHANGED <<deleted, contracts>>
      BY <1>8 DEF RejectOthers
    <2>2. \A q \in Proposals :
            \/ pstatus'[q] = pstatus[q]
            \/ /\ pstatus[q] = "pending" /\ ~deleted[q]
               /\ pstatus'[q] = "rejected"
      BY <1>8 DEF RejectOthers
    <2>3. DeletedIsPending' /\ ContractedIsDecided'
      BY <1>2, <2>1, <2>2 DEF DeletedIsPending, ContractedIsDecided, TypeOK
    <2> QED
      BY <2>1, <2>3, NothingExpected, GotoAlone DEF PCs
  <1>9. CASE Save(r)
    <2>1. PICK label \in {"milestones", "cleanup"} : Goto(r, label)
      BY <1>9 DEF Save
    <2>2. /\ pc[r] = "save"
          /\ contracts' \in {contracts, contracts \cup {ctx[r].p}}
          /\ UNCHANGED <<pstatus, deleted>>
      BY <1>9 DEF Save
    <2>3. DeletedIsPending' /\ ContractedIsDecided'
      BY <1>2, <2>1, <2>2 DEF Expects, DeletedIsPending, ContractedIsDecided
    <2> QED
      BY <2>1, <2>2, <2>3, NothingExpected, GotoAlone DEF PCs, Creating
  <1> QED
    BY <1>3, <1>4, <1>5, <1>6, <1>7, <1>8, <1>9 DEF Step

LEMMA NextDeletion == TypeOK /\ DeletionInv /\ [Next]_vars => DeletionInv'
  <1> SUFFICES ASSUME TypeOK, DeletionInv, [Next]_vars, ~overlapped'
               PROVE  DeletionInv'
    BY DEF DeletionInv
  <1>1. CASE ExpireJob \/ AdvanceJob
    BY <1>1
    DEF ExpireJob, AdvanceJob, OnlyJob, proposalVars, DeletionInv, Alone,
        AllExpect, DeletedIsPending, ContractedIsDecided
  <1>2. ASSUME NEW r \in Requests, Error(r) \/ Crash(r)
        PROVE  DeletionInv'
    <2>1. /\ pc[r] # "idle"
          /\ UNCHANGED <<pstatus, deleted, contracts>>
          /\ \E label \in {"idle", "cleanup"} : Goto(r, label)
      BY <1>2 DEF Error, Crash, Fault, proposalVars
    <2> QED
      BY <2>1, NothingExpected, QuietGoto DEF PCs, Creating
  <1>3. CASE UNCHANGED vars
    BY <1>3
    DEF vars, proposalVars, DeletionInv, Alone, AllExpect, DeletedIsPending,
        ContractedIsDecided
  <1> QED
    BY <1>1, <1>2, <1>3, BeginDeletion, StepDeletion DEF Next

LEMMA InitDeletion == Init => DeletionInv
  BY NothingExpected
  DEF Init, DeletionInv, Alone, AllExpect, DeletedIsPending, ContractedIsDecided

\* As long as requests do not overlap, errors and crashes included, a proposal
\* its freelancer has deleted never becomes a contract.
THEOREM DeletedNeverContracted == Spec => []DeletedIsNotContracted
  <1>1. TypeOK /\ DeletionInv => DeletedIsNotContracted
    BY DEF TypeOK, DeletionInv, DeletedIsPending, ContractedIsDecided,
           DeletedIsNotContracted
  <1> QED
    BY <1>1, InitType, NextType, InitDeletion, NextDeletion, PTL DEF Spec

-----------------------------------------------------------------------------
(***************************************************************************)
(* The contract of the selected proposal.  createContract compares its     *)
(* proposal with no selection: it looks at the proposal's status and at    *)
(* the job's.  That suffices while requests neither overlap nor fail, for  *)
(* until there is a contract an accepted proposal exists only in a job     *)
(* that awaits its contract, and is the one selected (or the request that  *)
(* accepted it is about to select it).                                     *)
(***************************************************************************)
NoneAccepted(statuses) == \A p \in Proposals : statuses[p] # "accepted"

Decided(label, p, to, job, selection, statuses) ==
    /\ label \in {"setjob", "accept"} => job = "none" \/ NoneAccepted(statuses)
    /\ label \in {"accept", "rejectothers", "selectjob"} =>
         job \in {"open", "none"} /\ to = "awaiting-contract"
    /\ label \in {"check", "validate", "save"} => p = selection

AcceptedIsSelected ==
    \A p \in Proposals : pstatus[p] = "accepted" =>
        \/ jstatus = "none"
        \/ jstatus = "awaiting-contract" /\ selected = p
        \/ /\ jstatus = "open"
           /\ \E r \in Requests :
                pc[r] \in {"rejectothers", "selectjob"} /\ ctx[r].p = p

AllDecided ==
    \A r \in Requests :
        Decided(pc[r], ctx[r].p, ctx[r].to, jstatus, selected, pstatus)

\* What the property is about: no contract yet, no overlap and no fault.
Orderly == ~overlapped /\ faults = 0 /\ contracts = {}

SelectionInv == Orderly => AcceptedIsSelected /\ AllDecided

LEMMA NothingDecided ==
    ASSUME NEW label \in {"idle", "removejob", "insert", "countup",
                          "checkcontract", "remove", "countdown", "reject",
                          "claim", "milestones", "replace", "cleanup"},
           NEW p, NEW to, NEW job, NEW selection, NEW statuses
    PROVE  Decided(label, p, to, job, selection, statuses)
  BY DEF Decided

LEMMA StaysOrderly ==
    ASSUME TypeOK, SelectionInv, Orderly', [Next]_vars
    PROVE  Orderly /\ AcceptedIsSelected /\ AllDecided
  <1>1. overlapped => overlapped'
    <2>1. overlapped' = overlapped \/ overlapped' = (overlapped \/ ~Quiet)
      BY DEF Next, Begin, UpdateJobStart, CloseJobStart, ReopenJobStart,
             RemoveJobStart, SubmitStart, RemoveStart, AcceptStart, RejectStart,
             CreateStart, Start, Step, WriteJob, RemoveJob, Insert, CountUp,
             CheckContract, Remove, CountDown, Accept, RejectOthers, SelectJob,
             Reject, Claim, CheckProposal, Validate, Save, Milestones, Replace,
             Cleanup, Error, Crash, Goto, ExpireJob, AdvanceJob, vars
    <2> QED
      BY <2>1, Zenon
  <1>2. faults' = faults \/ faults' = faults + 1
    BY DEF Next, Begin, UpdateJobStart, CloseJobStart, ReopenJobStart,
           RemoveJobStart, SubmitStart, RemoveStart, AcceptStart, RejectStart,
           CreateStart, Start, Step, WriteJob, RemoveJob, Insert, CountUp,
           CheckContract, Remove, CountDown, Accept, RejectOthers, SelectJob,
           Reject, Claim, CheckProposal, Validate, Save, Milestones, Replace,
           Cleanup, Error, Crash, Fault, OnlyJob, OnlyProposal, ExpireJob,
           AdvanceJob, vars
  <1>3. contracts \subseteq contracts'
    BY DEF Next, Begin, UpdateJobStart, CloseJobStart, ReopenJobStart,
           RemoveJobStart, SubmitStart, RemoveStart, AcceptStart, RejectStart,
           CreateStart, Start, Step, WriteJob, RemoveJob, Insert, CountUp,
           CheckContract, Remove, CountDown, Accept, RejectOthers, SelectJob,
           Reject, Claim, CheckProposal, Validate, Save, Milestones, Replace,
           Cleanup, Error, Crash, Fault, OnlyJob, OnlyProposal, ExpireJob,
           AdvanceJob, vars
  <1>4. faults \in Nat
    BY DEF TypeOK
  <1> QED
    BY <1>1, <1>2, <1>3, <1>4 DEF Orderly, SelectionInv

\* The state in which the lemmas below take a step.
OrderlyState ==
    TypeOK /\ DeletionInv /\ Orderly /\ AcceptedIsSelected /\ AllDecided

LEMMA StartDecided ==
    ASSUME OrderlyState, ~overlapped', NEW r \in Requests, NEW label \in PCs,
           NEW p \in Proposals, NEW to, Start(r, label, p, to),
           Decided(label, p, to, jstatus, selected, pstatus)
    PROVE  AcceptedIsSelected' /\ AllDecided'
  <1>1. Quiet /\ UNCHANGED <<jstatus, selected, pstatus>>
    BY DEF Start, jobVars, proposalVars
  <1>2. /\ pc'[r] = label /\ ctx'[r].p = p /\ ctx'[r].to = to
        /\ \A s \in Requests \ {r} : pc'[s] = "idle"
    BY <1>1 DEF Start, Quiet, OrderlyState, TypeOK
  <1>3. AcceptedIsSelected'
    BY <1>1 DEF OrderlyState, AcceptedIsSelected, Quiet
  <1>4. AllDecided'
    BY <1>1, <1>2, NothingDecided DEF AllDecided
  <1> QED
    BY <1>3, <1>4

\* In a quiet job nothing is accepted unless the job awaits its contract.
LEMMA QuietJob ==
    ASSUME OrderlyState, Quiet, jstatus \notin {"none", "awaiting-contract"}
    PROVE  NoneAccepted(pstatus)
  BY DEF OrderlyState, AcceptedIsSelected, Quiet, NoneAccepted

LEMMA BeginDecided ==
    ASSUME OrderlyState, ~overlapped', NEW r \in Requests, Begin(r)
    PROVE  AcceptedIsSelected' /\ AllDecided'
  <1>1. AnyProposal \in Proposals
    BY FormationAssumption DEF AnyProposal
  <1>2. Quiet
    BY DEF Begin, UpdateJobStart, CloseJobStart, ReopenJobStart, RemoveJobStart,
           SubmitStart, RemoveStart, AcceptStart, RejectStart, CreateStart, Start
  <1>3. CASE UpdateJobStart(r) \/ CloseJobStart(r) \/ ReopenJobStart(r)
    <2>1. PICK to : Start(r, "setjob", AnyProposal, to)
      BY <1>3 DEF UpdateJobStart, CloseJobStart, ReopenJobStart
    <2>2. NoneAccepted(pstatus)
      BY <1>2, <1>3, QuietJob
      DEF UpdateJobStart, CloseJobStart, ReopenJobStart
    <2> QED
      BY <1>1, <2>1, <2>2, StartDecided DEF Decided, PCs
  <1>4. CASE RemoveJobStart(r)
    BY <1>1, <1>4, NothingDecided, StartDecided DEF RemoveJobStart, PCs
  <1>5. ASSUME NEW p \in Proposals,
               \/ SubmitStart(r, p) \/ RemoveStart(r, p) \/ RejectStart(r, p)
               \/ CreateStart(r, p)
        PROVE  AcceptedIsSelected' /\ AllDecided'
    <2>1. PICK label \in {"insert", "checkcontract", "reject", "claim"} :
               Start(r, label, p, "draft")
      BY <1>5 DEF SubmitStart, RemoveStart, RejectStart, CreateStart
    <2> QED
      BY <2>1, NothingDecided, StartDecided DEF PCs, Creating
  <1>6. ASSUME NEW p \in Proposals, AcceptStart(r, p)
        PROVE  AcceptedIsSelected' /\ AllDecided'
    <2>1. PICK label \in {"accept", "rejectothers"} :
               Start(r, label, p, "awaiting-contract")
      BY <1>6 DEF AcceptStart
    <2>2. jstatus = "open" /\ NoneAccepted(pstatus)
      BY <1>2, <1>6, QuietJob DEF AcceptStart, Acceptable
    <2> QED
      BY <2>1, <2>2, StartDecided DEF Decided, PCs
  <1> QED
    BY <1>3, <1>4, <1>5, <1>6 DEF Begin

LEMMA GotoDecided ==
    ASSUME OrderlyState, NEW r \in Requests, pc[r] # "idle", NEW label,
           Goto(r, label),
           Decided(label, ctx[r].p, ctx[r].to, jstatus', selected', pstatus')
    PROVE  AllDecided'
  <1>1. Alone
    BY DEF OrderlyState, Orderly, DeletionInv
  <1>2. /\ pc'[r] = label
        /\ label # "idle" => ctx'[r] = ctx[r]
        /\ \A s \in Requests \ {r} : pc'[s] = "idle"
    BY <1>1, GotoMoves DEF Alone, OrderlyState
  <1> QED
    BY <1>2, NothingDecided DEF AllDecided

\* A step that accepts nothing, selects nothing and leaves the job.
LEMMA StillSelected ==
    ASSUME OrderlyState, NEW r \in Requests,
           pc[r] \notin {"rejectothers", "selectjob"},
           \A s \in Requests \ {r} : pc'[s] = pc[s] /\ ctx'[s] = ctx[s],
           UNCHANGED <<jstatus, selected>>,
           \A p \in Proposals : pstatus'[p] = "accepted" => pstatus[p] = "accepted"
    PROVE  AcceptedIsSelected'
  BY DEF OrderlyState, AcceptedIsSelected

LEMMA StepDecided ==
    ASSUME OrderlyState, contracts' = {}, NEW r \in Requests, Step(r)
    PROVE  AcceptedIsSelected' /\ AllDecided'
  <1> USE DEF OnlyJob, OnlyProposal, jobVars, proposalVars
  <1>1. /\ ctx[r].p \in Proposals /\ TypeOK
        /\ pstatus \in [Proposals -> ProposalStatus \cup {"none"}]
    BY CtxType DEF OrderlyState, TypeOK
  <1>2. /\ Alone /\ Expects(pc[r], ctx[r].p, pstatus, deleted)
        /\ Decided(pc[r], ctx[r].p, ctx[r].to, jstatus, selected, pstatus)
    BY DEF OrderlyState, Orderly, DeletionInv, AllExpect, AllDecided
  <1>3. CASE WriteJob(r)
    <2>1. NoneAccepted(pstatus) \/ jstatus = "none"
      BY <1>2, <1>3 DEF WriteJob, Decided
    <2>2. AcceptedIsSelected'
      BY <1>3, <2>1
      DEF WriteJob, SetJob, OnJob, NoneAccepted, AcceptedIsSelected
    <2> QED
      BY <1>3, <2>2, NothingDecided, GotoDecided DEF WriteJob
  <1>4. CASE RemoveJob(r)
    BY <1>4, NothingDecided, GotoDecided DEF RemoveJob, AcceptedIsSelected
  <1>5. CASE \/ CountUp(r) \/ CountDown(r) \/ CheckContract(r) \/ Remove(r)
             \/ Milestones(r) \/ Replace(r) \/ Cleanup(r)
    <2>1. /\ pc[r] \notin {"idle", "rejectothers", "selectjob"}
          /\ UNCHANGED <<jstatus, selected, pstatus>>
      BY <1>5
      DEF CountUp, CountDown, CheckContract, Remove, Milestones, Replace, Cleanup
    <2>2. PICK label \in {"idle", "remove", "countdown", "replace"} :
               Goto(r, label)
      BY <1>5
      DEF CountUp, CountDown, CheckContract, Remove, Milestones, Replace, Cleanup
    <2> QED
      BY <1>1, <2>1, <2>2, GotoMoves, NothingDecided, GotoDecided, StillSelected
  <1>6. CASE Insert(r) \/ Reject(r)
    <2>1. /\ pc[r] \notin {"idle", "rejectothers", "selectjob"}
          /\ UNCHANGED <<jstatus, selected>>
          /\ \A p \in Proposals :
               pstatus'[p] = "accepted" => pstatus[p] = "accepted"
      BY <1>1, <1>6 DEF Insert, Reject
    <2>2. PICK label \in {"idle", "countup"} : Goto(r, label)
      BY <1>6 DEF Insert, Reject
    <2> QED
      BY <1>1, <2>1, <2>2, GotoMoves, NothingDecided, GotoDecided, StillSelected
  <1>7. CASE Accept(r)
    <2>1. /\ pc[r] = "accept" /\ Goto(r, "rejectothers")
          /\ pstatus' = [pstatus EXCEPT ![ctx[r].p] = "accepted"]
          /\ UNCHANGED <<jstatus, selected>>
      BY <1>7 DEF Accept
    <2>2. /\ pc'[r] = "rejectothers" /\ ctx'[r] = ctx[r]
      BY <1>1, <2>1, GotoMoves
    <2>3. AcceptedIsSelected'
      BY <1>1, <1>2, <2>1, <2>2 DEF Decided, NoneAccepted, AcceptedIsSelected
    <2>4. Decided("rejectothers", ctx[r].p, ctx[r].to, jstatus', selected', pstatus')
      BY <1>2, <2>1 DEF Decided
    <2> QED
      BY <2>1, <2>3, <2>4, GotoDecided
  <1>8. CASE RejectOthers(r)
    <2>1. /\ pc[r] = "rejectothers" /\ Goto(r, "selectjob")
          /\ \A p \in Proposals :
               pstatus'[p] = "accepted" => pstatus[p] = "accepted"
          /\ UNCHANGED <<jstatus, selected>>
      BY <1>8 DEF RejectOthers
    <2>2. /\ pc'[r] = "selectjob" /\ ctx'[r] = ctx[r]
          /\ \A s \in Requests \ {r} : pc[s] = "idle"
      BY <1>1, <1>2, <2>1, GotoMoves DEF Alone
    <2>3. AcceptedIsSelected'
      BY <2>1, <2>2 DEF OrderlyState, AcceptedIsSelected
    <2>4. Decided("selectjob", ctx[r].p, ctx[r].to, jstatus', selected', pstatus')
      BY <1>2, <2>1 DEF Decided
    <2> QED
      BY <2>1, <2>3, <2>4, GotoDecided
  <1>9. CASE SelectJob(r)
    <2>1. /\ pc[r] = "selectjob" /\ Goto(r, "idle")
          /\ UNCHANGED pstatus
          /\ jstatus \in {"open", "none"} /\ ctx[r].to = "awaiting-contract"
      BY <1>2, <1>9 DEF SelectJob, Decided
    <2>2. \A s \in Requests \ {r} : pc[s] = "idle"
      BY <1>2, <2>1 DEF Alone
    <2>3. CASE jstatus = "none"
      BY <1>9, <2>1, <2>3, NothingDecided, GotoDecided
      DEF SelectJob, SetJob, OnJob, AcceptedIsSelected
    <2>4. CASE jstatus = "open"
      <3>1. jstatus' = "awaiting-contract" /\ selected' = ctx[r].p
        BY <1>9, <2>1, <2>4 DEF SelectJob, SetJob, OnJob, Selection
      <3>2. \A p \in Proposals : pstatus[p] = "accepted" => p = ctx[r].p
        BY <2>2, <2>4 DEF OrderlyState, AcceptedIsSelected
      <3>3. AcceptedIsSelected'
        BY <2>1, <3>1, <3>2 DEF AcceptedIsSelected
      <3> QED
        BY <2>1, <3>3, NothingDecided, GotoDecided
    <2> QED
      BY <2>1, <2>3, <2>4
  <1>10. CASE Claim(r)
    <2>1. pc[r] = "claim" /\ UNCHANGED <<jstatus, selected, pstatus>>
      BY <1>10 DEF Claim
    <2>2. CASE Claimable
      <3>1. Goto(r, "check")
        BY <1>10, <2>2 DEF Claim
      <3>2. pstatus[ctx[r].p] = "accepted"
        BY <1>2, <2>1 DEF Expects
      <3>3. selected = ctx[r].p
        BY <1>1, <2>2, <3>2 DEF OrderlyState, AcceptedIsSelected, Claimable
      <3>4. Decided("check", ctx[r].p, ctx[r].to, jstatus', selected', pstatus')
        BY <2>1, <3>3 DEF Decided
      <3> QED
        BY <1>1, <2>1, <3>1, <3>4, GotoMoves, GotoDecided, StillSelected
    <2>3. CASE ~Claimable
      BY <1>1, <1>10, <2>1, <2>3, GotoMoves, NothingDecided, GotoDecided,
         StillSelected
      DEF Claim
    <2> QED
      BY <2>2, <2>3
  <1>11. CASE CheckProposal(r) \/ Validate(r)
    <2>1. /\ pc[r] \in {"check", "validate"}
          /\ UNCHANGED <<jstatus, selected, pstatus>>
      BY <1>11 DEF CheckProposal, Validate
    <2>2. PICK label \in {"idle", "validate", "save", "cleanup"} : Goto(r, label)
      BY <1>11 DEF CheckProposal, Validate
    <2>3. Decided(label, ctx[r].p, ctx[r].to, jstatus', selected', pstatus')
      BY <1>2, <2>1 DEF Decided
    <2> QED
      BY <1>1, <2>1, <2>2, <2>3, GotoMoves, GotoDecided, StillSelected
  <1>12. CASE Save(r)
    BY <1>12 DEF Save, OrderlyState, Orderly
  <1> QED
    BY <1>3, <1>4, <1>5, <1>6, <1>7, <1>8, <1>9, <1>10, <1>11, <1>12 DEF Step

LEMMA NextDecided == TypeOK /\ DeletionInv /\ SelectionInv /\ [Next]_vars => SelectionInv'
  <1> SUFFICES ASSUME TypeOK, DeletionInv, SelectionInv, [Next]_vars, Orderly'
               PROVE  AcceptedIsSelected' /\ AllDecided'
    BY DEF SelectionInv
  <1>1. OrderlyState /\ ~overlapped' /\ contracts' = {} /\ faults' = faults
    BY StaysOrderly DEF OrderlyState, Orderly
  <1>2. CASE ExpireJob
    BY <1>1, <1>2
    DEF ExpireJob, OnlyJob, proposalVars, OrderlyState, AcceptedIsSelected,
        AllDecided, Decided
  <1>3. CASE AdvanceJob
    BY <1>1, <1>3 DEF AdvanceJob, OrderlyState, Orderly
  <1>4. ASSUME NEW r \in Requests, Error(r) \/ Crash(r)
        PROVE  FALSE
    BY <1>1, <1>4 DEF Error, Crash, Fault, OrderlyState, TypeOK
  <1>5. CASE UNCHANGED vars
    BY <1>1, <1>5
    DEF vars, jobVars, proposalVars, OrderlyState, AcceptedIsSelected, AllDecided
  <1> QED
    BY <1>1, <1>2, <1>3, <1>4, <1>5, BeginDecided, StepDecided DEF Next

LEMMA InitDecided == Init => SelectionInv
  BY NothingDecided DEF Init, SelectionInv, AcceptedIsSelected, AllDecided

\* What a save of a contract does, seen from outside.
LEMMA SavesSelected ==
    ASSUME TypeOK, DeletionInv, SelectionInv, [Next]_vars,
           contracts' # contracts, ~overlapped, faults = 0
    PROVE  contracts' = contracts \cup {selected}
  <1>1. PICK r \in Requests : Save(r)
    BY DEF Next, Begin, UpdateJobStart, CloseJobStart, ReopenJobStart,
           RemoveJobStart, SubmitStart, RemoveStart, AcceptStart, RejectStart,
           CreateStart, Start, Step, WriteJob, RemoveJob, Insert, CountUp,
           CheckContract, Remove, CountDown, Accept, RejectOthers, SelectJob,
           Reject, Claim, CheckProposal, Validate, Milestones, Replace,
           Cleanup, Error, Crash, Fault, OnlyJob, OnlyProposal, ExpireJob,
           AdvanceJob, vars
  <1>2. contracts = {} /\ contracts' = contracts \cup {ctx[r].p} /\ pc[r] = "save"
    BY <1>1 DEF Save
  <1>3. ctx[r].p = selected
    BY <1>2 DEF SelectionInv, Orderly, AllDecided, Decided
  <1> QED
    BY <1>2, <1>3

\* As long as requests neither overlap nor fail, a contract is made from the
\* proposal the client selected last.
THEOREM ContractsAreForSelected == Spec => ContractIsForSelected
  <1>1. TypeOK /\ DeletionInv /\ SelectionInv /\ [Next]_vars =>
          [(contracts' # contracts /\ ~overlapped /\ faults = 0)
             => contracts' = contracts \cup {selected}]_contracts
    BY SavesSelected
  <1> QED
    BY <1>1, InitType, NextType, InitDeletion, NextDeletion, InitDecided,
       NextDecided, PTL
    DEF Spec, ContractIsForSelected

=============================================================================
