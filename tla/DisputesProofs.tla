--------------------------- MODULE DisputesProofs ---------------------------
(***************************************************************************)
(* Proofs about disputes, for any number of contracts, disputes and        *)
(* requests in flight: every variable keeps its type, and a contract that  *)
(* is DISPUTED can still be set back, but for the cases abandoned records. *)
(***************************************************************************)
EXTENDS Disputes, TLAPS

(***************************************************************************)
(* DisputedIsContested is not inductive: the request that makes a contract *)
(* DISPUTED, or sets it back, does so by what it holds.  Grounded says     *)
(* what a request holds is true of the documents, and RisingIsContested    *)
(* that the dispute a request is raising can be resolved afterwards.       *)
(***************************************************************************)
Bound == {"contest", "resolve", "close", "restore", "escalate"}

GroundedAction(q) ==
    /\ q.stage = "raise" => q.contract \in Contracts
    /\ q.stage = "leave" => q.contract \in Contracts /\ q.to \in {"completed", "cancelled"}
    /\ q.stage \in Bound => /\ q.dispute \in DisputeIds /\ Exists(q.dispute)
                            /\ q.contract = dispute[q.dispute].contract

Grounded == \A r \in Slots : GroundedAction(action[r])

RisingIsContested ==
    \A r \in Slots :
        action[r].stage = "contest" =>
            action[r].contract \in abandoned \/ dispute[action[r].dispute].status \in Contesting

DisputesInv == DisputesTypeOK /\ Grounded /\ RisingIsContested /\ DisputedIsContested

USE DisputesAssumption

LEMMA DisputesInitially == DisputesInit => DisputesInv
<1> SUFFICES ASSUME DisputesInit PROVE DisputesInv
  OBVIOUS
<1>1. DisputesTypeOK
  BY DEF DisputesInit, DisputesTypeOK, NoAction, Action
<1>2. Grounded /\ RisingIsContested
  BY DEF DisputesInit, Grounded, GroundedAction, RisingIsContested, NoAction, Bound
<1>3. DisputedIsContested
  BY DEF DisputesInit, DisputedIsContested
<1> QED
  BY <1>1, <1>2, <1>3 DEF DisputesInv

(***************************************************************************)
(* What the steps share.                                                   *)
(***************************************************************************)

\* A request that begins holds what is true, and changes nothing else.
LEMMA Beginning ==
  ASSUME DisputesInv, NEW r \in Slots, NEW q \in Action, GroundedAction(q), q.stage \notin {"contest", "restore"},
         BeginAction(r, q), UNCHANGED <<status, dispute, abandoned>>
  PROVE  DisputesInv'
<1> USE DEF DisputesInv
<1>1. /\ \A t \in Slots : action'[t] = IF t = r THEN q ELSE action[t]
      /\ action[r].stage = "idle"
      /\ action' \in [Slots -> Action]
  BY DEF BeginAction, NoAction, DisputesTypeOK
<1>2. DisputesTypeOK'
  BY <1>1 DEF DisputesTypeOK
<1>3. Grounded' /\ RisingIsContested'
  BY <1>1 DEF Grounded, GroundedAction, RisingIsContested, Exists
<1>4. DisputedIsContested'
  BY <1>1 DEF DisputedIsContested, Contested, Restoring, Exists
<1> QED
  BY <1>2, <1>3, <1>4

\* A request that ends leaves the others as they are.
LEMMA Ending ==
  ASSUME action \in [Slots -> Action], NEW r \in Slots, EndAction(r)
  PROVE  /\ action' \in [Slots -> Action]
         /\ action'[r].stage = "idle"
         /\ \A t \in Slots \ {r} : action'[t] = action[t]
BY DEF EndAction, NoAction, Action

\* So does one that goes on to another stage, with what it holds.
LEMMA GoingOn ==
  ASSUME action \in [Slots -> Action], NEW r \in Slots, action' = [action EXCEPT ![r].stage = "restore"]
  PROVE  /\ action' \in [Slots -> Action]
         /\ action'[r] = [action[r] EXCEPT !.stage = "restore"]
         /\ \A t \in Slots \ {r} : action'[t] = action[t]
BY DEF Action

\* Writing the status of a dispute changes that alone.
LEMMA Setting ==
  ASSUME dispute \in [DisputeIds -> Dispute \cup {None}], NEW d \in DisputeIds, Exists(d),
         NEW to \in DisputeStatus, SetDispute(d, to)
  PROVE  /\ dispute' \in [DisputeIds -> Dispute \cup {None}]
         /\ dispute[d] \in Dispute /\ dispute'[d] \in Dispute
         /\ dispute'[d].status = to
         /\ dispute'[d].contract = dispute[d].contract
         /\ \A e \in DisputeIds \ {d} : dispute'[e] = dispute[e]
         /\ \A e \in DisputeIds : Exists(e)' <=> Exists(e)
         /\ \A e \in DisputeIds : Exists(e) => dispute'[e].contract = dispute[e].contract
<1>1. dispute[d] \in Dispute
  BY DEF Exists
<1>2. dispute' = [dispute EXCEPT ![d] = [dispute[d] EXCEPT !.status = to]]
  BY DEF SetDispute
<1>3. /\ [dispute[d] EXCEPT !.status = to] \in Dispute
      /\ [dispute[d] EXCEPT !.status = to].status = to
      /\ [dispute[d] EXCEPT !.status = to].contract = dispute[d].contract
  BY <1>1 DEF Dispute
<1>4. /\ dispute'[d] = [dispute[d] EXCEPT !.status = to]
      /\ \A e \in DisputeIds \ {d} : dispute'[e] = dispute[e]
      /\ dispute' \in [DisputeIds -> Dispute \cup {None}]
  BY <1>2, <1>3
<1> QED
  BY <1>1, <1>3, <1>4 DEF Exists

(***************************************************************************)
(* The steps, one lemma each for those that do more than begin or end.     *)
(***************************************************************************)
LEMMA InsertDisputeStep ==
  ASSUME DisputesInv, NEW r \in Slots, InsertDispute(r) PROVE DisputesInv'
<1> USE DEF DisputesInv
<1> DEFINE k == action[r].contract
<1>1. PICK d \in DisputeIds :
        /\ ~Exists(d)
        /\ dispute' = [dispute EXCEPT ![d] = [contract |-> k, status |-> "open"]]
        /\ action' = [action EXCEPT ![r].stage = "contest", ![r].dispute = d]
  BY DEF InsertDispute
<1>2. UNCHANGED <<status, abandoned>> /\ action[r].stage = "raise" /\ k \in Contracts
  BY DEF InsertDispute, Grounded, GroundedAction
<1>3. /\ dispute'[d] \in Dispute /\ dispute'[d] = [contract |-> k, status |-> "open"]
      /\ \A e \in DisputeIds \ {d} : dispute'[e] = dispute[e]
      /\ dispute' \in [DisputeIds -> Dispute \cup {None}]
  BY <1>1, <1>2 DEF Dispute, DisputeStatus, DisputesTypeOK
<1>4. /\ action' \in [Slots -> Action]
      /\ action'[r].stage = "contest" /\ action'[r].dispute = d /\ action'[r].contract = k
      /\ \A t \in Slots \ {r} : action'[t] = action[t]
  BY <1>1 DEF DisputesTypeOK, Action
<1>5. \A e \in DisputeIds : Exists(e) => e # d /\ Exists(e)' /\ dispute'[e] = dispute[e]
  BY <1>1, <1>3 DEF Exists
<1>6. DisputesTypeOK'
  BY <1>2, <1>3, <1>4 DEF DisputesTypeOK
<1>7. Grounded'
  <2>1. GroundedAction(action[r])'
    BY <1>3, <1>4 DEF GroundedAction, Bound, Exists
  <2>2. ASSUME NEW t \in Slots \ {r} PROVE GroundedAction(action[t])'
    BY <1>4, <1>5 DEF Grounded, GroundedAction
  <2> QED
    BY <2>1, <2>2 DEF Grounded
<1>8. RisingIsContested'
  <2> SUFFICES ASSUME NEW t \in Slots, action'[t].stage = "contest"
               PROVE  action'[t].contract \in abandoned' \/ dispute'[action'[t].dispute].status \in Contesting
    BY DEF RisingIsContested
  <2>1. CASE t = r
    BY <2>1, <1>3, <1>4 DEF Contesting
  <2>2. CASE t # r
    BY <2>2, <1>2, <1>4, <1>5 DEF RisingIsContested, Grounded, GroundedAction, Bound
  <2> QED
    BY <2>1, <2>2
<1>9. DisputedIsContested'
  <2> SUFFICES ASSUME NEW c \in Contracts, status'[c] = "disputed"
               PROVE  c \in abandoned' \/ Contested(c)' \/ Restoring(c)'
    BY DEF DisputedIsContested
  <2>1. Contested(c) => Contested(c)'
    BY <1>5 DEF Contested
  <2>2. Restoring(c) => Restoring(c)'
    BY <1>2, <1>4 DEF Restoring
  <2> QED
    BY <1>2, <2>1, <2>2 DEF DisputedIsContested
<1> QED
  BY <1>6, <1>7, <1>8, <1>9

\* A step that ends a request other than one that is setting a contract back,
\* or one whose contract is not DISPUTED any more, and writes at most a status.
LEMMA EndingStep ==
  ASSUME DisputesInv, NEW r \in Slots, EndAction(r), UNCHANGED dispute,
         status' \in [Contracts -> ContractStatus], abandoned \subseteq abandoned', abandoned' \subseteq Contracts,
         \A k \in Contracts : status'[k] = "disputed" => \/ status[k] = "disputed"
                                                         \/ k \in abandoned \/ Contested(k),
         \A k \in Contracts : action[r].stage = "restore" /\ action[r].contract = k =>
                                k \in abandoned' \/ status'[k] # "disputed"
  PROVE  DisputesInv'
<1> USE DEF DisputesInv
<1>1. /\ action' \in [Slots -> Action]
      /\ action'[r].stage = "idle"
      /\ \A t \in Slots \ {r} : action'[t] = action[t]
  BY Ending DEF DisputesTypeOK
<1>2. DisputesTypeOK'
  BY <1>1 DEF DisputesTypeOK
<1>3. Grounded' /\ RisingIsContested'
  BY <1>1 DEF Grounded, GroundedAction, RisingIsContested, Exists, Bound
<1>4. DisputedIsContested'
  <2> SUFFICES ASSUME NEW c \in Contracts, status'[c] = "disputed"
               PROVE  c \in abandoned' \/ Contested(c)' \/ Restoring(c)'
    BY DEF DisputedIsContested
  <2>1. Contested(c) => Contested(c)'
    BY DEF Contested, Exists
  <2>2. Restoring(c) => c \in abandoned' \/ Restoring(c)'
    BY <1>1 DEF Restoring
  <2> QED
    BY <2>1, <2>2 DEF DisputedIsContested
<1> QED
  BY <1>2, <1>3, <1>4

\* A step that writes the status of one dispute: its contract is then recorded
\* or set back, unless the dispute can still be resolved.
LEMMA WritingStep ==
  ASSUME DisputesInv, NEW d \in DisputeIds, Exists(d), NEW to \in DisputeStatus, SetDispute(d, to),
         UNCHANGED status, abandoned \subseteq abandoned', abandoned' \subseteq Contracts,
         action' \in [Slots -> Action],
         \A t \in Slots : \/ action'[t] = action[t]
                          \/ action'[t].stage = "idle" /\ action[t].stage # "restore"
                          \/ /\ action[t].stage \in {"resolve", "close"}
                             /\ action'[t] = [action[t] EXCEPT !.stage = "restore"],
         \/ to \in Contesting
         \/ dispute[d].contract \in abandoned'
         \/ /\ ~Rising(d)
            /\ \E t \in Slots : action'[t].stage = "restore" /\ action'[t].contract = dispute[d].contract
  PROVE  DisputesInv'
<1> USE DEF DisputesInv
<1>1. /\ dispute' \in [DisputeIds -> Dispute \cup {None}]
      /\ dispute'[d].status = to
      /\ dispute'[d].contract = dispute[d].contract
      /\ \A e \in DisputeIds \ {d} : dispute'[e] = dispute[e]
      /\ \A e \in DisputeIds : Exists(e)' <=> Exists(e)
      /\ \A e \in DisputeIds : Exists(e) => dispute'[e].contract = dispute[e].contract
  BY Setting DEF DisputesTypeOK
<1>2. ASSUME NEW t \in Slots, action[t].stage \in {"resolve", "close"},
             action'[t] = [action[t] EXCEPT !.stage = "restore"]
      PROVE  /\ action'[t].stage = "restore"
             /\ action'[t].dispute = action[t].dispute
             /\ action'[t].contract = action[t].contract
  BY <1>2 DEF DisputesTypeOK, Action
<1>3. DisputesTypeOK'
  BY <1>1 DEF DisputesTypeOK
<1>4. Grounded'
  <2> SUFFICES ASSUME NEW t \in Slots PROVE GroundedAction(action[t])'
    BY DEF Grounded
  <2>1. GroundedAction(action[t])
    BY DEF Grounded
  <2>2. CASE action'[t] = action[t]
    BY <2>1, <2>2, <1>1 DEF GroundedAction
  <2>3. CASE action'[t].stage = "idle"
    BY <2>3 DEF GroundedAction, Bound
  <2>4. CASE /\ action[t].stage \in {"resolve", "close"}
             /\ action'[t] = [action[t] EXCEPT !.stage = "restore"]
    BY <2>1, <2>4, <1>1, <1>2 DEF GroundedAction, Bound
  <2> QED
    BY <2>2, <2>3, <2>4
<1>5. RisingIsContested'
  <2> SUFFICES ASSUME NEW t \in Slots, action'[t].stage = "contest"
               PROVE  action'[t].contract \in abandoned' \/ dispute'[action'[t].dispute].status \in Contesting
    BY DEF RisingIsContested
  <2>1. action'[t] = action[t]
    BY <1>2
  <2>2. /\ action[t].dispute \in DisputeIds
        /\ action[t].contract = dispute[action[t].dispute].contract
    BY <2>1 DEF Grounded, GroundedAction, Bound
  <2>3. CASE action[t].dispute = d
    <3>1. Rising(d)
      BY <2>1, <2>3 DEF Rising
    <3> QED
      BY <1>1, <2>1, <2>2, <2>3, <3>1
  <2>4. CASE action[t].dispute # d
    BY <1>1, <2>1, <2>2, <2>4 DEF RisingIsContested
  <2> QED
    BY <2>3, <2>4
<1>6. DisputedIsContested'
  <2> SUFFICES ASSUME NEW c \in Contracts, status'[c] = "disputed"
               PROVE  c \in abandoned' \/ Contested(c)' \/ Restoring(c)'
    BY DEF DisputedIsContested
  <2>1. CASE Restoring(c)
    <3>1. PICK t \in Slots : action[t].stage = "restore" /\ action[t].contract = c
      BY <2>1 DEF Restoring
    <3>2. action'[t] = action[t]
      BY <3>1
    <3> QED
      BY <3>1, <3>2 DEF Restoring
  <2>2. CASE Contested(c)
    <3>1. PICK e \in DisputeIds : Exists(e) /\ dispute[e].contract = c /\ dispute[e].status \in Contesting
      BY <2>2 DEF Contested
    <3>2. CASE e # d
      BY <1>1, <3>1, <3>2 DEF Contested
    <3>3. CASE e = d /\ to \in Contesting
      BY <1>1, <3>1, <3>3 DEF Contested
    <3>4. CASE e = d /\ to \notin Contesting
      BY <3>1, <3>4 DEF Restoring
    <3> QED
      BY <3>2, <3>3, <3>4
  <2> QED
    BY <2>1, <2>2 DEF DisputedIsContested
<1> QED
  BY <1>3, <1>4, <1>5, <1>6

LEMMA WriteResolvedStep ==
  ASSUME DisputesInv, NEW r \in Slots, WriteResolved(r) PROVE DisputesInv'
<1> DEFINE d == action[r].dispute
<1>1. action[r].stage = "resolve" /\ SetDispute(d, "resolved") /\ UNCHANGED status
  BY DEF WriteResolved
<1>2. d \in DisputeIds /\ Exists(d) /\ action[r].contract = dispute[d].contract /\ action[r].contract \in Contracts
  <2>1. d \in DisputeIds /\ Exists(d) /\ action[r].contract = dispute[d].contract
    BY <1>1 DEF DisputesInv, Grounded, GroundedAction, Bound
  <2> QED
    BY <2>1 DEF DisputesInv, DisputesTypeOK, Exists, Dispute
<1>3. abandoned \subseteq abandoned' /\ abandoned' \subseteq Contracts
  BY <1>2 DEF WriteResolved, DisputesInv, DisputesTypeOK
<1>4. CASE action[r].found = "disputed"
  <2>1. action' = [action EXCEPT ![r].stage = "restore"]
    BY <1>4 DEF WriteResolved, RestoresContract
  <2>2. /\ action' \in [Slots -> Action]
        /\ action'[r] = [action[r] EXCEPT !.stage = "restore"]
        /\ \A t \in Slots \ {r} : action'[t] = action[t]
    BY <2>1, GoingOn DEF DisputesInv, DisputesTypeOK
  <2>3. action'[r].stage = "restore" /\ action'[r].contract = action[r].contract
    BY <2>2 DEF DisputesInv, DisputesTypeOK, Action
  <2>4. Rising(d) => action[r].contract \in abandoned'
    BY DEF WriteResolved
  <2>5. \E t \in Slots : action'[t].stage = "restore" /\ action'[t].contract = dispute[d].contract
    BY <1>2, <2>3
  <2>6. "resolved" \in DisputeStatus
    BY DEF DisputeStatus
  <2>7. \A t \in Slots : \/ action'[t] = action[t]
                         \/ action'[t].stage = "idle" /\ action[t].stage # "restore"
                         \/ /\ action[t].stage \in {"resolve", "close"}
                            /\ action'[t] = [action[t] EXCEPT !.stage = "restore"]
    BY <1>1, <2>2
  <2> HIDE DEF d
  <2> QED
    BY <1>1, <1>2, <1>3, <2>2, <2>4, <2>5, <2>6, <2>7, WritingStep
<1>5. CASE action[r].found # "disputed"
  <2>1. EndAction(r) /\ action[r].contract \in abandoned'
    BY <1>5 DEF WriteResolved, RestoresContract
  <2>2. /\ action' \in [Slots -> Action]
        /\ action'[r].stage = "idle"
        /\ \A t \in Slots \ {r} : action'[t] = action[t]
    BY <2>1, Ending DEF DisputesInv, DisputesTypeOK
  <2>3. "resolved" \in DisputeStatus
    BY DEF DisputeStatus
  <2> HIDE DEF d
  <2> QED
    BY <1>1, <1>2, <1>3, <2>1, <2>2, <2>3, WritingStep
<1> QED
  BY <1>4, <1>5

LEMMA WriteClosedStep ==
  ASSUME DisputesInv, NEW r \in Slots, WriteClosed(r) PROVE DisputesInv'
<1> DEFINE d == action[r].dispute
<1>1. action[r].stage = "close" /\ SetDispute(d, "closed") /\ UNCHANGED status
  BY DEF WriteClosed
<1>2. d \in DisputeIds /\ Exists(d) /\ action[r].contract = dispute[d].contract /\ action[r].contract \in Contracts
  <2>1. d \in DisputeIds /\ Exists(d) /\ action[r].contract = dispute[d].contract
    BY <1>1 DEF DisputesInv, Grounded, GroundedAction, Bound
  <2> QED
    BY <2>1 DEF DisputesInv, DisputesTypeOK, Exists, Dispute
<1>3. /\ abandoned \subseteq abandoned' /\ abandoned' \subseteq Contracts
      /\ Rising(d) => action[r].contract \in abandoned'
  BY <1>2 DEF WriteClosed, DisputesInv, DisputesTypeOK
<1>4. /\ action' \in [Slots -> Action]
      /\ action'[r] = [action[r] EXCEPT !.stage = "restore"]
      /\ \A t \in Slots \ {r} : action'[t] = action[t]
  BY GoingOn DEF WriteClosed, DisputesInv, DisputesTypeOK
<1>5. action'[r].stage = "restore" /\ action'[r].contract = action[r].contract
  BY <1>4 DEF DisputesInv, DisputesTypeOK, Action
<1>6. "closed" \in DisputeStatus
  BY DEF DisputeStatus
<1>7. \E t \in Slots : action'[t].stage = "restore" /\ action'[t].contract = dispute[d].contract
  BY <1>2, <1>5
<1>8. \A t \in Slots : \/ action'[t] = action[t]
                       \/ action'[t].stage = "idle" /\ action[t].stage # "restore"
                       \/ /\ action[t].stage \in {"resolve", "close"}
                          /\ action'[t] = [action[t] EXCEPT !.stage = "restore"]
  BY <1>1, <1>4
<1> HIDE DEF d
<1> QED
  BY <1>1, <1>2, <1>3, <1>4, <1>6, <1>7, <1>8, WritingStep

LEMMA WriteEscalatedStep ==
  ASSUME DisputesInv, NEW r \in Slots, WriteEscalated(r) PROVE DisputesInv'
<1> DEFINE d == action[r].dispute
<1>1. /\ action[r].stage = "escalate" /\ SetDispute(d, "escalated") /\ EndAction(r)
      /\ UNCHANGED <<status, abandoned>>
  BY DEF WriteEscalated
<1>2. d \in DisputeIds /\ Exists(d)
  BY <1>1 DEF DisputesInv, Grounded, GroundedAction, Bound
<1>3. /\ action' \in [Slots -> Action]
      /\ action'[r].stage = "idle"
      /\ \A t \in Slots \ {r} : action'[t] = action[t]
  BY <1>1, Ending DEF DisputesInv, DisputesTypeOK
<1>4. "escalated" \in DisputeStatus /\ "escalated" \in Contesting
  BY DEF DisputeStatus, Contesting
<1>5. abandoned \subseteq Contracts
  BY DEF DisputesInv, DisputesTypeOK
<1> HIDE DEF d
<1> QED
  BY <1>1, <1>2, <1>3, <1>4, <1>5, WritingStep

LEMMA UpdateDisputeStatusStep ==
  ASSUME DisputesInv, NEW d \in DisputeIds, NEW to \in DisputeStatus, NEW admin \in BOOLEAN,
         UpdateDisputeStatus(d, to, admin)
  PROVE  DisputesInv'
<1>1. Exists(d) /\ SetDispute(d, to) /\ UNCHANGED <<status, action>>
  BY DEF UpdateDisputeStatus
<1>2. dispute[d].contract \in Contracts
  BY <1>1 DEF DisputesInv, DisputesTypeOK, Exists, Dispute
<1>3. /\ abandoned \subseteq abandoned' /\ abandoned' \subseteq Contracts
      /\ to \in Contesting \/ dispute[d].contract \in abandoned'
  BY <1>2 DEF UpdateDisputeStatus, DisputesInv, DisputesTypeOK
<1>4. action' \in [Slots -> Action]
  BY <1>1 DEF DisputesInv, DisputesTypeOK
<1> QED
  BY <1>1, <1>3, <1>4, WritingStep

LEMMA DisputesStep == DisputesInv /\ [DisputesNext]_disputeVars => DisputesInv'
<1> SUFFICES ASSUME DisputesInv, [DisputesNext]_disputeVars PROVE DisputesInv'
  OBVIOUS
<1>1. ASSUME NEW r \in Slots, NEW k \in Contracts, CreateDispute(r, k) PROVE DisputesInv'
  <2> DEFINE q == [NoAction EXCEPT !.stage = "raise", !.contract = k]
  <2>1. q \in Action /\ GroundedAction(q) /\ q.stage = "raise"
    BY DEF Action, NoAction, GroundedAction, Bound
  <2> QED
    BY <1>1, <2>1, Beginning DEF CreateDispute
<1>2. ASSUME NEW r \in Slots, NEW k \in Contracts, NEW to \in {"completed", "cancelled"}, LeaveContract(r, k, to)
      PROVE  DisputesInv'
  <2> DEFINE q == [NoAction EXCEPT !.stage = "leave", !.contract = k, !.to = to]
  <2>1. q \in Action /\ GroundedAction(q) /\ q.stage = "leave"
    BY DEF Action, NoAction, GroundedAction, Bound, ContractStatus
  <2> QED
    BY <1>2, <2>1, Beginning DEF LeaveContract
<1>3. ASSUME NEW r \in Slots, NEW d \in DisputeIds, ResolveDispute(r, d) PROVE DisputesInv'
  <2> DEFINE k == dispute[d].contract
             q == [stage |-> "resolve", dispute |-> d, contract |-> k, found |-> status[k], to |-> None]
  <2>1. Exists(d) /\ k \in Contracts /\ status[k] \in ContractStatus
    BY <1>3 DEF ResolveDispute, DisputesInv, DisputesTypeOK, Exists, Dispute
  <2>2. q \in Action /\ GroundedAction(q) /\ q.stage = "resolve"
    BY <2>1 DEF Action, GroundedAction, Bound
  <2> QED
    BY <1>3, <2>2, Beginning DEF ResolveDispute
<1>4. ASSUME NEW r \in Slots, NEW d \in DisputeIds, EscalateDispute(r, d) PROVE DisputesInv'
  <2> DEFINE q == [NoAction EXCEPT !.stage = "escalate", !.dispute = d, !.contract = dispute[d].contract]
  <2>1. Exists(d) /\ dispute[d].contract \in Contracts
    BY <1>4 DEF EscalateDispute, DisputesInv, DisputesTypeOK, Exists, Dispute
  <2>2. q \in Action /\ GroundedAction(q) /\ q.stage = "escalate"
    BY <2>1 DEF Action, NoAction, GroundedAction, Bound
  <2> QED
    BY <1>4, <2>2, Beginning DEF EscalateDispute
<1>5. ASSUME NEW r \in Slots, NEW d \in DisputeIds, NEW admin \in BOOLEAN, CloseDispute(r, d, admin)
      PROVE  DisputesInv'
  <2> DEFINE q == [NoAction EXCEPT !.stage = "close", !.dispute = d, !.contract = dispute[d].contract]
  <2>1. Exists(d) /\ dispute[d].contract \in Contracts
    BY <1>5 DEF CloseDispute, DisputesInv, DisputesTypeOK, Exists, Dispute
  <2>2. q \in Action /\ GroundedAction(q) /\ q.stage = "close"
    BY <2>1 DEF Action, NoAction, GroundedAction, Bound
  <2> QED
    BY <1>5, <2>2, Beginning DEF CloseDispute
<1>6. ASSUME NEW r \in Slots, ContestContract(r) PROVE DisputesInv'
  <2>1. /\ action[r].stage = "contest" /\ EndAction(r) /\ UNCHANGED <<dispute, abandoned>>
        /\ status' = [status EXCEPT ![action[r].contract] = "disputed"]
    BY <1>6 DEF ContestContract
  <2>2. status' \in [Contracts -> ContractStatus] /\ abandoned \subseteq Contracts
    BY <2>1 DEF DisputesInv, DisputesTypeOK, ContractStatus
  <2>3. action[r].contract \in abandoned \/ Contested(action[r].contract)
    BY <2>1 DEF DisputesInv, RisingIsContested, Grounded, GroundedAction, Bound, Contested
  <2>4. \A k \in Contracts : status'[k] = "disputed" => status[k] = "disputed" \/ k \in abandoned \/ Contested(k)
    BY <2>1, <2>3 DEF DisputesInv, DisputesTypeOK
  <2> QED
    BY <2>1, <2>2, <2>4, EndingStep
<1>7. ASSUME NEW r \in Slots, RestoreContract(r) PROVE DisputesInv'
  <2>1. /\ action[r].stage = "restore" /\ EndAction(r) /\ UNCHANGED <<dispute, abandoned>>
        /\ status' = [status EXCEPT ![action[r].contract] = "active"]
    BY <1>7 DEF RestoreContract
  <2>2. /\ status' \in [Contracts -> ContractStatus] /\ abandoned \subseteq Contracts
        /\ \A k \in Contracts : status'[k] = IF k = action[r].contract THEN "active" ELSE status[k]
    BY <2>1 DEF DisputesInv, DisputesTypeOK, ContractStatus
  <2> QED
    BY <2>1, <2>2, EndingStep
<1>8. ASSUME NEW r \in Slots, WriteLeft(r) PROVE DisputesInv'
  <2>1. /\ action[r].stage = "leave" /\ EndAction(r) /\ UNCHANGED <<dispute, abandoned>>
        /\ status' = [status EXCEPT ![action[r].contract] = action[r].to]
    BY <1>8 DEF WriteLeft
  <2>2. action[r].to \in {"completed", "cancelled"}
    BY <2>1 DEF DisputesInv, Grounded, GroundedAction
  <2>3. /\ status' \in [Contracts -> ContractStatus] /\ abandoned \subseteq Contracts
        /\ \A k \in Contracts : status'[k] = "disputed" => status[k] = "disputed"
    BY <2>1, <2>2 DEF DisputesInv, DisputesTypeOK, ContractStatus
  <2> QED
    BY <2>1, <2>3, EndingStep
<1>9. ASSUME NEW r \in Slots, FailDispute(r) PROVE DisputesInv'
  <2>1. EndAction(r) /\ UNCHANGED <<status, dispute>>
    BY <1>9 DEF FailDispute
  <2>2. /\ abandoned \subseteq abandoned' /\ abandoned' \subseteq Contracts
        /\ action[r].stage = "restore" => action[r].contract \in abandoned'
    <3>1. CASE action[r].stage = "restore"
      <4>1. action[r].contract \in Contracts
        BY <3>1 DEF DisputesInv, DisputesTypeOK, Grounded, GroundedAction, Bound, Exists, Dispute
      <4> QED
        BY <1>9, <3>1, <4>1 DEF FailDispute, DisputesInv, DisputesTypeOK
    <3>2. CASE action[r].stage # "restore"
      BY <1>9, <3>2 DEF FailDispute, DisputesInv, DisputesTypeOK
    <3> QED
      BY <3>1, <3>2
  <2>3. status' \in [Contracts -> ContractStatus]
    BY <2>1 DEF DisputesInv, DisputesTypeOK
  <2> QED
    BY <2>1, <2>2, <2>3, EndingStep
<1>10. ASSUME NEW k \in Contracts, NEW to \in {"active", "cancelled"}, SetContract(k, to) PROVE DisputesInv'
  <2>1. UNCHANGED <<dispute, action, abandoned>> /\ status' = [status EXCEPT ![k] = to]
    BY <1>10 DEF SetContract
  <2>2. /\ status' \in [Contracts -> ContractStatus]
        /\ \A c \in Contracts : status'[c] = "disputed" => status[c] = "disputed"
    BY <2>1 DEF DisputesInv, DisputesTypeOK, ContractStatus
  <2>3. DisputesTypeOK' /\ Grounded' /\ RisingIsContested'
    BY <2>1, <2>2 DEF DisputesInv, DisputesTypeOK, Grounded, GroundedAction, RisingIsContested, Exists
  <2>4. DisputedIsContested'
    BY <2>1, <2>2 DEF DisputesInv, DisputedIsContested, Contested, Restoring, Exists
  <2> QED
    BY <2>3, <2>4 DEF DisputesInv
<1>11. CASE UNCHANGED disputeVars
  <2>1. UNCHANGED <<status, dispute, action, abandoned>>
    BY <1>11 DEF disputeVars
  <2>2. DisputesTypeOK' /\ Grounded' /\ RisingIsContested'
    BY <2>1 DEF DisputesInv, DisputesTypeOK, Grounded, GroundedAction, RisingIsContested, Exists
  <2>3. DisputedIsContested'
    BY <2>1 DEF DisputesInv, DisputedIsContested, Contested, Restoring, Exists
  <2> QED
    BY <2>2, <2>3 DEF DisputesInv
<1> QED
  BY <1>1, <1>2, <1>3, <1>4, <1>5, <1>6, <1>7, <1>8, <1>9, <1>10, <1>11,
     InsertDisputeStep, WriteResolvedStep, WriteClosedStep, WriteEscalatedStep, UpdateDisputeStatusStep
     DEF DisputesNext

LEMMA DisputesInvariant == DisputesSpec => []DisputesInv
BY DisputesInitially, DisputesStep, PTL DEF DisputesSpec

\* Contracts, disputes and requests keep their types.
THEOREM DisputesTypeCorrect == DisputesSpec => []DisputesTypeOK
BY DisputesInvariant, PTL DEF DisputesInv

\* However requests raise, resolve, close and escalate disputes beside each
\* other, a DISPUTED contract has a dispute that can be resolved or is being set
\* back, but for the cases that abandoned records.
THEOREM DisputedStaysContested == DisputesSpec => []DisputedIsContested
BY DisputesInvariant, PTL DEF DisputesInv
=============================================================================
