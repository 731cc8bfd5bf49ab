------------------------- MODULE MCPaymentSettlement -------------------------
(***************************************************************************)
(* Small instances of PaymentSettlement for TLC.                           *)
(***************************************************************************)
EXTENDS PaymentSettlement, TLC

\* Concurrent webhook requests are interchangeable.
WebhookSymmetry == Permutations(Webhooks)

=============================================================================
