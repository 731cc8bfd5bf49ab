-------------------------- MODULE ContractFormation --------------------------
(***************************************************************************)
(* From a posted job to its contract.                                      *)
(*                                                                         *)
(* Freelancers send proposals for a job, its client accepts one, and       *)
(* createContract turns the accepted proposal into a contract.  It claims  *)
(* the job with one conditional update that stores a placeholder in        *)
(* job.contractId, saves the contract and its milestones, and replaces the *)
(* placeholder by the contract's id.                                       *)
(*                                                                         *)
(* Jobs share nothing with each other, so there is one job.  A contract is *)
(* named after the proposal it was made from.  Every request is a process; *)
(* every step is one database round trip.  The content of jobs and         *)
(* proposals, the caches and the notifications, whose errors the code      *)
(* swallows, are left out; so is the payment createContract may initiate.  *)
(***************************************************************************)
EXTENDS Integers, FiniteSets, Statuses

CONSTANTS
    Freelancers,
    Proposals,
    OwnerOf,       \* the freelancer of every proposal
    Requests,      \* concurrent client and freelancer requests
    Edits,         \* job statuses a client sends with a job update
    MaxRemovals,   \* bound: how far proposalCount may fall below zero
    MaxFaults      \* bound: database errors and crashes in a behaviour

ASSUME FormationAssumption ==
    /\ Proposals # {}
    /\ {"none", "placeholder"} \cap Proposals = {}
    /\ OwnerOf \in [Proposals -> Freelancers]
    /\ Edits \subseteq JobStatus
    /\ MaxRemovals \in Nat
    /\ MaxFaults \in Nat

VARIABLES
    jstatus,     \* Job.status, "none" once the job is removed
    contractId,  \* Job.contractId: unset, a placeholder, or a contract
    selected,    \* Job.selectedProposalId
    count,       \* Job.proposalCount
    pstatus,     \* Proposal.status, "none" until it is inserted
    deleted,     \* Proposal.deletedAt is set
    contracts,   \* the contracts saved
    pc,          \* what each request does next
    ctx,         \* what each request keeps: a proposal, the status it writes
    overlapped,  \* history: two requests have been under way together
    faults       \* database errors and crashes so far

jobVars == <<jstatus, contractId, selected, count>>
proposalVars == <<pstatus, deleted>>
vars == <<jobVars, proposalVars, contracts, pc, ctx, overlapped, faults>>

Refs == {"none", "placeholder"} \cup Proposals
Locals == [p : Proposals, to : JobStatus]
AnyProposal == CHOOSE p \in Proposals : TRUE
NoLocals == [p |-> AnyProposal, to |-> "draft"]
Creating == {"check", "validate", "save", "milestones", "replace", "cleanup"}
PCs == {"idle", "setjob", "removejob", "insert", "countup",
        "checkcontract", "remove", "countdown", "accept", "rejectothers", "selectjob", "reject",
        "claim"} \cup Creating

Init ==
    /\ jstatus = "draft"
    /\ contractId = "none"
    /\ selected = "none"
    /\ count = 0
    /\ pstatus = [p \in Proposals |-> "none"]
    /\ deleted = [p \in Proposals |-> FALSE]
    /\ contracts = {}
    /\ pc = [r \in Requests |-> "idle"]
    /\ ctx = [r \in Requests |-> NoLocals]
    /\ overlapped = FALSE
    /\ faults = 0

Quiet == \A r \in Requests : pc[r] = "idle"

\* A request that has ended forgets what it read.
Goto(r, label) ==
    /\ pc' = [pc EXCEPT ![r] = label]
    /\ ctx' = [ctx EXCEPT ![r] = IF label = "idle" THEN NoLocals ELSE @]
    /\ UNCHANGED overlapped

Start(r, label, p, to) ==
    /\ pc[r] = "idle"
    /\ pc' = [pc EXCEPT ![r] = label]
    /\ ctx' = [ctx EXCEPT ![r] = [p |-> p, to |-> to]]
    /\ overlapped' = (overlapped \/ ~Quiet)
    /\ UNCHANGED <<jobVars, proposalVars, contracts, faults>>

OnlyJob      == UNCHANGED <<proposalVars, contracts, faults>>
OnlyProposal == UNCHANGED <<jobVars, contracts, faults>>

\* An update does nothing to a job that was removed.
OnJob(new, old) == IF jstatus = "none" THEN old ELSE new

SetJob(s) == jstatus' = OnJob(s, jstatus)

-----------------------------------------------------------------------------
(* The job: update, closeJob, reopenJob, remove; payments and milestones *)

UpdateJobStart(r) ==
    /\ jstatus \in {"draft", "open"}
    /\ \E s \in Edits : Start(r, "setjob", AnyProposal, s)

CloseJobStart(r) ==
    jstatus = "open" /\ Start(r, "setjob", AnyProposal, "closed")

ReopenJobStart(r) ==
    /\ jstatus \in {"completed", "closed"}
    /\ Start(r, "setjob", AnyProposal, "open")

\* None of the three looks at the status again.
WriteJob(r) ==
    /\ pc[r] = "setjob"
    /\ SetJob(ctx[r].to)
    /\ Goto(r, "idle")
    /\ UNCHANGED <<contractId, selected, count>>
    /\ OnlyJob

RemoveJobStart(r) ==
    /\ jstatus \in {"draft", "cancelled"}
    /\ Start(r, "removejob", AnyProposal, "draft")

RemoveJob(r) ==
    /\ pc[r] = "removejob"
    /\ jstatus' = "none"
    /\ Goto(r, "idle")
    /\ UNCHANGED <<contractId, selected, count>>
    /\ OnlyJob

\* The TTL index on expiresAt removes the job, whatever its status.
ExpireJob ==
    /\ jstatus' = "none"
    /\ UNCHANGED <<contractId, selected, count, pc, ctx, overlapped>>
    /\ OnlyJob

\* A payment for the contract makes the job CONTRACTED, the approval of its
\* last milestone COMPLETED, whatever the job's status.
AdvanceJob ==
    /\ contracts # {}
    /\ \E s \in {"contracted", "completed"} : SetJob(s)
    /\ UNCHANGED <<contractId, selected, count, pc, ctx, overlapped>>
    /\ OnlyJob

-----------------------------------------------------------------------------
(* Proposals: create and remove *)

\* A freelancer who has a proposal for the job, deleted or not, is refused;
\* the job's status is not looked at.
SubmitStart(r, p) ==
    /\ \A q \in Proposals : OwnerOf[q] = OwnerOf[p] => pstatus[q] = "none"
    /\ \A s \in Requests : pc[s] = "insert" => ctx[s].p # p
    /\ Start(r, "insert", p, "draft")

Insert(r) ==
    /\ pc[r] = "insert"
    /\ pstatus' = [pstatus EXCEPT ![ctx[r].p] = "pending"]
    /\ Goto(r, "countup")
    /\ UNCHANGED deleted
    /\ OnlyProposal

CountUp(r) ==
    /\ pc[r] = "countup"
    /\ count' = OnJob(count + 1, count)
    /\ Goto(r, "idle")
    /\ UNCHANGED <<jstatus, contractId, selected>>
    /\ OnlyJob

\* remove finds a deleted proposal as well.
RemovableAccepted(p) == pstatus[p] \in {"pending", "accepted"}     \* mutant
Removable(p) == pstatus[p] = "pending"

RemoveStart(r, p) ==
    /\ Removable(p)
    /\ count > -MaxRemovals
    /\ Start(r, "checkcontract", p, "draft")

\* A contract of the proposal stops the removal unless it is cancelled or
\* completed.
CheckContract(r) ==
    /\ pc[r] = "checkcontract"
    /\ \/ ctx[r].p \in contracts /\ Goto(r, "idle")
       \/ Goto(r, "remove")
    /\ UNCHANGED jobVars
    /\ OnlyJob

Remove(r) ==
    /\ pc[r] = "remove"
    /\ deleted' = [deleted EXCEPT ![ctx[r].p] = TRUE]
    /\ Goto(r, "countdown")
    /\ UNCHANGED pstatus
    /\ OnlyProposal

CountDown(r) ==
    /\ pc[r] = "countdown"
    /\ count' = OnJob(count - 1, count)
    /\ Goto(r, "idle")
    /\ UNCHANGED <<jstatus, contractId, selected>>
    /\ OnlyJob

-----------------------------------------------------------------------------
(* acceptProposal and rejectProposal *)

\* Only the job's status decides; the proposal may be rejected already.  One
\* that reads accepted is not written again.
AcceptableAlways == jstatus # "none"                            \* mutant
Acceptable == jstatus = "open"

AcceptStart(r, p) ==
    /\ pstatus[p] # "none"
    /\ ~deleted[p]
    /\ Acceptable
    /\ Start(r, IF pstatus[p] = "accepted" THEN "rejectothers" ELSE "accept",
             p, "awaiting-contract")

Accept(r) ==
    /\ pc[r] = "accept"
    /\ pstatus' = [pstatus EXCEPT ![ctx[r].p] = "accepted"]
    /\ Goto(r, "rejectothers")
    /\ UNCHANGED deleted
    /\ OnlyProposal

RejectOthers(r) ==
    LET others == {q \in Proposals \ {ctx[r].p} :
                     pstatus[q] = "pending" /\ ~deleted[q]}
    IN
    /\ pc[r] = "rejectothers"
    /\ pstatus' = [q \in Proposals |->
                     IF q \in others THEN "rejected" ELSE pstatus[q]]
    /\ Goto(r, "selectjob")
    /\ UNCHANGED deleted
    /\ OnlyProposal

SelectionOfOwner(p) == OwnerOf[p]                               \* mutant
Selection(p) == p

SelectJob(r) ==
    /\ pc[r] = "selectjob"
    /\ SetJob(ctx[r].to)
    /\ selected' = OnJob(Selection(ctx[r].p), selected)
    /\ Goto(r, "idle")
    /\ UNCHANGED <<contractId, count>>
    /\ OnlyJob

\* The client may reject a proposal whatever its status.
RejectStart(r, p) ==
    /\ pstatus[p] \notin {"none", "rejected"}
    /\ ~deleted[p]
    /\ jstatus # "none"
    /\ Start(r, "reject", p, "draft")

Reject(r) ==
    /\ pc[r] = "reject"
    /\ pstatus' = [pstatus EXCEPT ![ctx[r].p] = "rejected"]
    /\ Goto(r, "idle")
    /\ UNCHANGED deleted
    /\ OnlyProposal

-----------------------------------------------------------------------------
(* createContract *)

CreateStart(r, p) ==
    /\ pstatus[p] = "accepted"
    /\ jstatus # "none"
    /\ Start(r, "claim", p, "draft")

\* One conditional update claims the job.
ClaimableByStatus == jstatus \in {"in-progress", "awaiting-contract"} \* mutant
Claimable ==
    contractId = "none" /\ jstatus \in {"in-progress", "awaiting-contract"}

Claim(r) ==
    /\ pc[r] = "claim"
    /\ \/ /\ Claimable
          /\ contractId' = "placeholder"
          /\ Goto(r, "check")
       \/ /\ ~Claimable
          /\ Goto(r, "idle")
          /\ UNCHANGED contractId
    /\ UNCHANGED <<jstatus, selected, count>>
    /\ OnlyJob

\* A contract of the same proposal releases the claim.
CheckProposal(r) ==
    /\ pc[r] = "check"
    /\ contractId' = IF ctx[r].p \in contracts
                     THEN OnJob("none", contractId) ELSE contractId
    /\ Goto(r, IF ctx[r].p \in contracts THEN "idle" ELSE "validate")
    /\ UNCHANGED <<jstatus, selected, count>>
    /\ OnlyJob

\* The dates and the milestones are judged after the job is claimed.
Validate(r) ==
    /\ pc[r] = "validate"
    /\ \E next \in {"save", "cleanup"} : Goto(r, next)
    /\ UNCHANGED jobVars
    /\ OnlyJob

\* The unique index admits one contract per job.
Save(r) ==
    /\ pc[r] = "save"
    /\ \/ /\ contracts = {}
          /\ contracts' = contracts \cup {ctx[r].p}
          /\ Goto(r, "milestones")
       \/ /\ contracts # {}
          /\ Goto(r, "cleanup")
          /\ UNCHANGED contracts
    /\ UNCHANGED <<jobVars, proposalVars, faults>>

Milestones(r) ==
    /\ pc[r] = "milestones"
    /\ Goto(r, "replace")
    /\ UNCHANGED jobVars
    /\ OnlyJob

Replace(r) ==
    /\ pc[r] = "replace"
    /\ contractId' = OnJob(ctx[r].p, contractId)
    /\ Goto(r, "idle")
    /\ UNCHANGED <<jstatus, selected, count>>
    /\ OnlyJob

\* The catch looks for the flag that marks a creation in progress.  The job's
\* schema does not declare the flag, so the update that claims the job never
\* stores it.
FlagDeclared == TRUE                                            \* mutant
FlagStored == FALSE

Cleanup(r) ==
    /\ pc[r] = "cleanup"
    /\ contractId' = IF FlagStored THEN OnJob("none", contractId)
                     ELSE contractId
    /\ Goto(r, "idle")
    /\ UNCHANGED <<jstatus, selected, count>>
    /\ OnlyJob

-----------------------------------------------------------------------------
(* Faults *)

Fault(r) ==
    /\ pc[r] # "idle"
    /\ faults < MaxFaults
    /\ faults' = faults + 1
    /\ UNCHANGED <<jobVars, proposalVars, contracts>>

\* A database error; createContract catches it and cleans up.
Error(r) ==
    /\ Fault(r)
    /\ Goto(r, IF pc[r] \in Creating \ {"cleanup"} THEN "cleanup" ELSE "idle")

Crash(r) == Fault(r) /\ Goto(r, "idle")

-----------------------------------------------------------------------------
Begin(r) ==
    \/ UpdateJobStart(r) \/ CloseJobStart(r) \/ ReopenJobStart(r)
    \/ RemoveJobStart(r)
    \/ \E p \in Proposals :
         \/ SubmitStart(r, p) \/ RemoveStart(r, p)
         \/ AcceptStart(r, p) \/ RejectStart(r, p)
         \/ CreateStart(r, p)

Step(r) ==
    \/ WriteJob(r) \/ RemoveJob(r)
    \/ Insert(r) \/ CountUp(r)
    \/ CheckContract(r) \/ Remove(r) \/ CountDown(r)
    \/ Accept(r) \/ RejectOthers(r) \/ SelectJob(r) \/ Reject(r)
    \/ Claim(r) \/ CheckProposal(r) \/ Validate(r) \/ Save(r)
    \/ Milestones(r) \/ Replace(r) \/ Cleanup(r)

Next ==
    \/ ExpireJob \/ AdvanceJob
    \/ \E r \in Requests : Begin(r) \/ Step(r) \/ Error(r) \/ Crash(r)

Spec == Init /\ [][Next]_vars

-----------------------------------------------------------------------------
(* Properties *)

\* Type invariant.
TypeOK ==
    /\ jstatus \in JobStatus \cup {"none"}
    /\ contractId \in Refs
    /\ selected \in Proposals \cup {"none"}
    /\ count \in Int
    /\ pstatus \in [Proposals -> ProposalStatus \cup {"none"}]
    /\ deleted \in [Proposals -> BOOLEAN]
    /\ contracts \subseteq Proposals
    /\ pc \in [Requests -> PCs]
    /\ ctx \in [Requests -> Locals]
    /\ overlapped \in BOOLEAN
    /\ faults \in Nat

\* The conditional update of createContract lets one request at a time create
\* a contract for the job, however many clients' requests race, and none once
\* the job refers to its contract.
OneCreator ==
    \A r, s \in Requests :
        pc[r] \in Creating =>
            /\ contractId = "placeholder"
            /\ pc[s] \in Creating => r = s

\* A job whose contract was saved is never free for another createContract,
\* not even when an error or a crash follows the save.
ContractedJobIsClaimed ==
    contracts # {} => contractId \in {"placeholder"} \cup contracts

\* As long as requests neither overlap nor fail, the contract is made from the
\* proposal the client selected last, although createContract never compares
\* the two.
ContractIsForSelected ==
    [][(contracts' # contracts /\ ~overlapped /\ faults = 0)
         => contracts' = contracts \cup {selected}]_contracts

\* As long as requests do not overlap, a proposal its freelancer has deleted
\* never becomes a contract.
DeletedIsNotContracted ==
    overlapped \/ \A p \in contracts : ~deleted[p]

-----------------------------------------------------------------------------
(* Expected, and false of the code: the README says where *)

\* A job that refers to a contract, when no request creates one, refers to a
\* contract that exists.
ReferenceExists ==
    (/\ jstatus # "none"
     /\ contractId # "none"
     /\ \A r \in Requests : pc[r] \notin Creating)
        => contractId \in contracts

\* A job that awaits its contract has an accepted proposal.
AwaitingIsAccepted ==
    (jstatus = "awaiting-contract" /\ Quiet)
        => \E p \in Proposals : pstatus[p] = "accepted"

=============================================================================
