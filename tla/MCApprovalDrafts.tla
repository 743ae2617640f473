-------------------------- MODULE MCApprovalDrafts --------------------------
(***************************************************************************)
(* Drafts of January's invoice, with or without February's beside it.  The *)
(* opening credit covers half of one invoice.                              *)
(***************************************************************************)
EXTENDS BillingRuns, TLC

CONSTANTS jan, feb

MCMonths == {1, 2}
MCCovers == [k \in Keys |-> IF k = jan THEN {1} ELSE {2}]
MCPeriodEnd == [k \in Keys |-> IF k = jan THEN 1 ELSE 2]
MCGross == [k \in Keys |-> 2]
MCGrant == [k \in Keys |-> 0]
MCPeriod == [d \in Drafts |-> jan]
=============================================================================
