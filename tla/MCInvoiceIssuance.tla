------------------------- MODULE MCInvoiceIssuance -------------------------
(***************************************************************************)
(* Instances of InvoiceIssuance for model checking: a January invoice, the *)
(* invoice of the first quarter, which overlaps it, one for February, and  *)
(* an annual true-up that banks credit.  The opening credit covers one of  *)
(* the ordinary invoices and part of the next.                             *)
(***************************************************************************)
EXTENDS InvoiceIssuance, TLC

CONSTANTS jan, feb, q1, settlement

MCMonths == {1, 2, 3}
MCCovers ==
  [k \in Keys |-> CASE k = jan -> {1} [] k = feb -> {2} [] k = q1 -> {1, 2, 3} [] OTHER -> {}]
MCPeriodEnd == [k \in Keys |-> CASE k = jan -> 1 [] k = feb -> 2 [] OTHER -> 3]
MCGross == [k \in Keys |-> IF k = settlement THEN 0 ELSE 2]
MCGrant == [k \in Keys |-> IF k = settlement THEN 2 ELSE 0]

Symmetry == Permutations(Workers)
=============================================================================
