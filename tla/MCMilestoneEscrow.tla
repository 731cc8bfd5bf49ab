------------------------- MODULE MCMilestoneEscrow -------------------------
(***************************************************************************)
(* Small instances of MilestoneEscrow for TLC.                             *)
(***************************************************************************)
EXTENDS MilestoneEscrow, TLC

CONSTANTS c1, c2, m1, m2, m3

\* One contract worth 2 with milestones of 1 or 2: they may exceed the total.
OneContract == (m1 :> c1) @@ (m2 :> c1)
OneTotal == c1 :> 2

\* Two contracts of one freelancer, who share the pending balance.  With
\* milestones of 1, those of c1 exceed its total, and m3 takes half of its.
TwoContracts == (m1 :> c1) @@ (m2 :> c1) @@ (m3 :> c2)
TwoTotals == (c1 :> 1) @@ (c2 :> 2)

SmallAmounts == {1, 2}

\* Requests are interchangeable, and so are the milestones of one contract.
OneContractSymmetry == Permutations(Requests) \cup Permutations(Milestones)

=============================================================================
