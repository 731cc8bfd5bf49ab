--------------------------- MODULE MCWithdrawals ---------------------------
(***************************************************************************)
(* Small instances of Withdrawals for TLC: everyone asks for the same      *)
(* amount, and the balance holds one of them but not two.                  *)
(***************************************************************************)
EXTENDS Withdrawals

=============================================================================
