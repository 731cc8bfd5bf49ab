------------------------------ MODULE Services ------------------------------
(***************************************************************************)
(* What the services around the marketplace's money share: one server      *)
(* process with a number of requests in flight, the users and sockets that *)
(* reach it, and the errors that may strike it.                            *)
(***************************************************************************)
EXTENDS Naturals

CONSTANTS
    Users,      \* who can call the server; strangers included
    Sockets,    \* sockets opened to it, each used once
    Slots,      \* bound: requests in flight at one time
    MaxErrors,  \* bound: errors of the database and ends of the process
    None

ASSUME ServicesAssumption ==
    /\ None \notin Users \cup Sockets
    /\ MaxErrors \in Nat

VARIABLE errors

\* An error is still to be expected.
AnError == errors < MaxErrors /\ errors' = errors + 1

ErrorsOK == errors \in 0 .. MaxErrors
=============================================================================
