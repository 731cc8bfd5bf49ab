------------------------------ MODULE Disputes ------------------------------
(***************************************************************************)
(* Disputes and the status of the contract they are about                  *)
(* (src/modules/disputes, and what admin and contracts write to either).   *)
(* Raising a dispute makes the contract DISPUTED, resolving or closing it  *)
(* makes it ACTIVE again; dispute and contract are two documents, written  *)
(* one after the other from what was read before.                          *)
(***************************************************************************)
EXTENDS Services, Statuses

CONSTANTS
    Contracts,
    DisputeIds

VARIABLES
    status,     \* the status of each contract
    dispute,    \* the dispute documents
    action,     \* the requests in flight
    abandoned   \* contracts with a dispute that ended beside the contract's status

disputeVars == <<status, dispute, action, abandoned, errors>>

\* What updateDisputeStatus accepts; admin and escalation write the same names.
DisputeStatus == {"open", "in_review", "escalated", "resolved", "closed"}
Contesting == {"open", "in_review", "escalated"}

Dispute == [contract : Contracts, status : DisputeStatus]

ASSUME DisputesAssumption == None \notin Contracts \cup DisputeIds \cup Dispute

\* A request, the dispute or contract it is about, and what it read or will write.
Action == [stage : {"idle", "raise", "contest", "resolve", "close", "restore", "escalate", "leave"},
           dispute : DisputeIds \cup {None}, contract : Contracts \cup {None},
           found : ContractStatus \cup {None}, to : ContractStatus \cup {None}]

NoAction == [stage |-> "idle", dispute |-> None, contract |-> None, found |-> None, to |-> None]

DisputesInit ==
    /\ status \in [Contracts -> ContractStatus \ {"disputed"}]
    /\ dispute = [d \in DisputeIds |-> None]
    /\ action = [r \in Slots |-> NoAction]
    /\ abandoned = {}
    /\ errors = 0

-----------------------------------------------------------------------------
Exists(d) == dispute[d] # None
Contested(k) == \E d \in DisputeIds : Exists(d) /\ dispute[d].contract = k /\ dispute[d].status \in Contesting

BeginAction(r, q) == action[r] = NoAction /\ action' = [action EXCEPT ![r] = q]
EndAction(r) == action' = [action EXCEPT ![r] = NoAction]
SetDispute(d, to) == dispute' = [dispute EXCEPT ![d].status = to]

\* The contract of a dispute whose raising has yet to write the contract.
Rising(d) == \E r \in Slots : action[r].stage = "contest" /\ action[r].dispute = d

-----------------------------------------------------------------------------
(* The disputes service *)

\* createDispute takes a contract of any status; no index keeps a second dispute out.
CreateDispute(r, k) ==
    /\ ~Contested(k)
    /\ BeginAction(r, [NoAction EXCEPT !.stage = "raise", !.contract = k])
    /\ UNCHANGED <<status, dispute, abandoned, errors>>

InsertDispute(r) ==
    /\ action[r].stage = "raise"
    /\ \E d \in DisputeIds :
          /\ ~Exists(d)
          /\ dispute' = [dispute EXCEPT ![d] = [contract |-> action[r].contract, status |-> "open"]]
          /\ action' = [action EXCEPT ![r].stage = "contest", ![r].dispute = d]
    /\ UNCHANGED <<status, abandoned, errors>>

ContestContract(r) ==
    /\ action[r].stage = "contest"
    /\ status' = [status EXCEPT ![action[r].contract] = "disputed"]
    /\ EndAction(r)
    /\ UNCHANGED <<dispute, abandoned, errors>>

\* resolveDispute, by an admin, loads the dispute together with its contract.
ResolveDispute(r, d) ==
    /\ Exists(d)
    /\ dispute[d].status \in Contesting
    /\ LET k == dispute[d].contract
       IN BeginAction(r, [stage |-> "resolve", dispute |-> d, contract |-> k, found |-> status[k], to |-> None])
    /\ UNCHANGED <<status, dispute, abandoned, errors>>

\* mutant: only a contract that is still active needs the write
RestoresActive(found) == found = "active"

\* The contract is set back only if it was DISPUTED when it was loaded.
RestoresContract(found) == found = "disputed"

WriteResolved(r) ==
    LET q == action[r]
    IN /\ q.stage = "resolve"
       /\ SetDispute(q.dispute, "resolved")
       /\ IF RestoresContract(q.found)
          THEN action' = [action EXCEPT ![r].stage = "restore"]
          ELSE EndAction(r)
       /\ abandoned' = IF q.found # "disputed" \/ Rising(q.dispute)
                       THEN abandoned \cup {q.contract} ELSE abandoned
       /\ UNCHANGED <<status, errors>>

\* closeDispute: the party that raised it closes an open one, an admin any.
CloseDispute(r, d, admin) ==
    /\ Exists(d)
    /\ admin \/ dispute[d].status = "open"
    /\ BeginAction(r, [NoAction EXCEPT !.stage = "close", !.dispute = d, !.contract = dispute[d].contract])
    /\ UNCHANGED <<status, dispute, abandoned, errors>>

WriteClosed(r) ==
    LET q == action[r]
    IN /\ q.stage = "close"
       /\ SetDispute(q.dispute, "closed")
       /\ action' = [action EXCEPT ![r].stage = "restore"]
       /\ abandoned' = IF Rising(q.dispute) THEN abandoned \cup {q.contract} ELSE abandoned
       /\ UNCHANGED <<status, errors>>

\* The last step of both; after closing, whatever the contract's status is.
RestoreContract(r) ==
    /\ action[r].stage = "restore"
    /\ status' = [status EXCEPT ![action[r].contract] = "active"]
    /\ EndAction(r)
    /\ UNCHANGED <<dispute, abandoned, errors>>

EscalateDispute(r, d) ==
    /\ Exists(d)
    /\ dispute[d].status = "open"
    /\ BeginAction(r, [NoAction EXCEPT !.stage = "escalate", !.dispute = d, !.contract = dispute[d].contract])
    /\ UNCHANGED <<status, dispute, abandoned, errors>>

WriteEscalated(r) ==
    /\ action[r].stage = "escalate"
    /\ SetDispute(action[r].dispute, "escalated")
    /\ EndAction(r)
    /\ UNCHANGED <<status, abandoned, errors>>

\* updateDisputeStatus writes the dispute alone, whatever its status was: a party
\* may set open or closed, an admin any; and the same by the admin's
\* resolveDispute and escalateDispute in module admin.
UpdateDisputeStatus(d, to, admin) ==
    /\ Exists(d)
    /\ admin \/ to \notin {"in_review", "resolved", "escalated"}
    /\ SetDispute(d, to)
    /\ abandoned' = IF to \in Contesting THEN abandoned ELSE abandoned \cup {dispute[d].contract}
    /\ UNCHANGED <<status, action, errors>>

-----------------------------------------------------------------------------
(* What else sets the status of a contract *)

\* The contracts service: a party cancels, the client completes, both from
\* what was loaded; cancelling waits for the refund in between.
LeaveContract(r, k, to) ==
    /\ IF to = "completed" THEN status[k] = "active"
       ELSE status[k] \notin {"completed", "cancelled", "disputed"}
    /\ BeginAction(r, [NoAction EXCEPT !.stage = "leave", !.contract = k, !.to = to])
    /\ UNCHANGED <<status, dispute, abandoned, errors>>

WriteLeft(r) ==
    /\ action[r].stage = "leave"
    /\ status' = [status EXCEPT ![action[r].contract] = action[r].to]
    /\ EndAction(r)
    /\ UNCHANGED <<dispute, abandoned, errors>>

\* startContract and the admin's cancelContract look at no status.
SetContract(k, to) ==
    /\ status' = [status EXCEPT ![k] = to]
    /\ UNCHANGED <<dispute, action, abandoned, errors>>

\* A database error or the end of the process, between two writes.
FailDispute(r) ==
    /\ action[r].stage # "idle"
    /\ AnError
    /\ abandoned' = IF action[r].stage = "restore" THEN abandoned \cup {action[r].contract} ELSE abandoned
    /\ EndAction(r)
    /\ UNCHANGED <<status, dispute>>

DisputesNext ==
    \/ \E r \in Slots, k \in Contracts :
          \/ CreateDispute(r, k)
          \/ \E to \in {"completed", "cancelled"} : LeaveContract(r, k, to)
    \/ \E r \in Slots, d \in DisputeIds :
          \/ ResolveDispute(r, d) \/ EscalateDispute(r, d)
          \/ \E admin \in BOOLEAN : CloseDispute(r, d, admin)
    \/ \E r \in Slots :
          \/ InsertDispute(r) \/ ContestContract(r) \/ WriteResolved(r) \/ WriteClosed(r)
          \/ RestoreContract(r) \/ WriteEscalated(r) \/ WriteLeft(r) \/ FailDispute(r)
    \/ \E d \in DisputeIds, to \in DisputeStatus, admin \in BOOLEAN : UpdateDisputeStatus(d, to, admin)
    \/ \E k \in Contracts, to \in {"active", "cancelled"} : SetContract(k, to)

DisputesSpec == DisputesInit /\ [][DisputesNext]_disputeVars

-----------------------------------------------------------------------------
\* Every variable has its type: contracts, disputes and requests.
DisputesTypeOK ==
    /\ status \in [Contracts -> ContractStatus]
    /\ dispute \in [DisputeIds -> Dispute \cup {None}]
    /\ action \in [Slots -> Action]
    /\ abandoned \subseteq Contracts

Restoring(k) == \E r \in Slots : action[r].stage = "restore" /\ action[r].contract = k

\* A DISPUTED contract, which nobody can complete or cancel, has a dispute that
\* can still be resolved or is being set back; except after a status set by
\* hand, a resolution that found the contract otherwise, a dispute ended while
\* it was being raised, or a failure between the two writes: the ways to leave
\* a contract DISPUTED for ever (disputes.service.ts, and the stale status that
\* resolveDispute decides by).
DisputedIsContested ==
    \A k \in Contracts :
        status[k] = "disputed" => k \in abandoned \/ Contested(k) \/ Restoring(k)

-----------------------------------------------------------------------------
\* Expected, and false of the code

\* A contract has one dispute at a time: false for two requests that both find none.
OneDispute ==
    \A d, e \in DisputeIds :
        (/\ Exists(d) /\ dispute[d].status \in Contesting
         /\ Exists(e) /\ dispute[e].status \in Contesting
         /\ dispute[d].contract = dispute[e].contract) => d = e

\* A finished contract stays so: false, closing a dispute makes any contract
\* ACTIVE, and so does a resolution that loaded it before it was cancelled.
FinishedStays ==
    [][\A k \in Contracts : status[k] \in {"completed", "cancelled"} => status'[k] # "active"]_disputeVars
=============================================================================
