----------------------------- MODULE MCPayLink -----------------------------
(***************************************************************************)
(* Instances of PayLink for model checking.  An August invoice and the     *)
(* annual true-up whose window ends in August have the same period key:    *)
(* payments._period_key knows a period by its last day alone.  They differ *)
(* in what they ask for, so that one retires the other's payment row.      *)
(***************************************************************************)
EXTENDS PayLink, TLC

CONSTANTS aug, trueup

MCPeriodKey == [i \in Invoices |-> "08-31"]
MCAmount == [i \in Invoices |-> IF i = aug THEN 2 ELSE 1]

Symmetry == Permutations(Workers)
=============================================================================
