-------------------------- MODULE FreelancerAccounts --------------------------
(***************************************************************************)
(* What the two balances of a freelancer promise, whoever moves them: the  *)
(* money of paid contracts is deposited in pendingBalance, leaves it only  *)
(* towards availableBalance, and leaves that only for a withdrawal, which  *)
(* may give back, once, exactly what it took.  MilestoneEscrow and         *)
(* Withdrawals implement this specification.                               *)
(***************************************************************************)
EXTENDS Integers

CONSTANTS Freelancers, Withdrawals

VARIABLES
    pending,    \* pendingBalance of every freelancer
    available,  \* availableBalance of every freelancer
    request,    \* whose money each withdrawal is to take, and how much
    taken       \* what became of it

vars == <<pending, available, request, taken>>

Init ==
    /\ pending = [f \in Freelancers |-> 0]
    /\ available \in [Freelancers -> Nat]
    /\ request \in [Withdrawals -> [owner : Freelancers, amount : Nat]]
    /\ taken = [w \in Withdrawals |-> "no"]

\* A payment is completed.
Deposit(f) ==
    LET sum == pending'[f] - pending[f] IN
    /\ sum > 0
    /\ pending' = [pending EXCEPT ![f] = @ + sum]
    /\ UNCHANGED <<available, request, taken>>

\* A milestone is released.
Release(f) ==
    LET sum == pending[f] - pending'[f] IN
    /\ sum \in 1..pending[f]
    /\ pending' = [pending EXCEPT ![f] = @ - sum]
    /\ available' = [available EXCEPT ![f] = @ + sum]
    /\ UNCHANGED <<request, taken>>

\* A withdrawal is requested,
Withdraw(w) ==
    LET f == request[w].owner IN
    /\ taken[w] = "no"
    /\ request[w].amount <= available[f]
    /\ available' = [available EXCEPT ![f] = @ - request[w].amount]
    /\ taken' = [taken EXCEPT ![w] = "yes"]
    /\ UNCHANGED <<pending, request>>

\* and cannot be carried out.
Return(w) ==
    LET f == request[w].owner IN
    /\ taken[w] = "yes"
    /\ available' = [available EXCEPT ![f] = @ + request[w].amount]
    /\ taken' = [taken EXCEPT ![w] = "returned"]
    /\ UNCHANGED <<pending, request>>

Next ==
    \/ \E f \in Freelancers : Deposit(f) \/ Release(f)
    \/ \E w \in Withdrawals : Withdraw(w) \/ Return(w)

Spec == Init /\ [][Next]_vars

=============================================================================
