------------------------------ MODULE Statuses ------------------------------
(***************************************************************************)
(* The status enumerations every document of the marketplace is built      *)
(* from.  One set per enum file of src/src/common/enums; the values are    *)
(* the strings the database stores.                                        *)
(***************************************************************************)

PaymentStatus ==
    {"pending", "processing", "completed", "failed", "cancelled", "refunded"}

ContractStatus ==
    {"pending", "pending_payment", "active", "completed", "cancelled",
     "disputed"}

MilestoneStatus ==
    {"pending", "in-progress", "submitted", "approved", "rejected", "paid"}

WithdrawalStatus ==
    {"pending", "processing", "completed", "failed", "cancelled"}

JobStatus ==
    {"draft", "open", "awaiting-contract", "contracted", "in-progress",
     "under-review", "completed", "closed", "cancelled"}

ProposalStatus == {"pending", "accepted", "rejected", "withdrawn"}

=============================================================================
