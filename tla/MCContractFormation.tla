------------------------- MODULE MCContractFormation -------------------------
(***************************************************************************)
(* Small instances of ContractFormation for TLC.                           *)
(***************************************************************************)
EXTENDS ContractFormation, TLC

CONSTANTS p1, p2, f1, f2

\* Two freelancers, one proposal each.
TwoOwners == (p1 :> f1) @@ (p2 :> f2)

\* Requests are interchangeable.
RequestSymmetry == Permutations(Requests)

=============================================================================
