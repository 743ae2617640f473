--------------------------- MODULE BillingLedger ---------------------------
(***************************************************************************)
(* What the issuance of a subscription's invoices promises the customer: a *)
(* month is billed by one obligation, an obligation is billed once and     *)
(* before it is mailed, its credit is debited once and never below zero,   *)
(* and the credit of a settlement is banked once, after it was mailed.     *)
(***************************************************************************)
EXTENDS Naturals

CONSTANTS Keys,           \* obligations
          Trueups,        \* those that are annual settlements
          Covers,         \* the months each one bills
          Gross,          \* its amount before credit
          Grant,          \* the credit it banks
          InitialCredit   \* the balance at the start

VARIABLES balance,  \* the customer's credit
          billed,   \* the obligations that have their final amount
          debit,    \* the credit each of them used
          mailed,   \* those that reached the customer
          settled   \* those whose acceptance was applied

vars == <<balance, billed, debit, mailed, settled>>

TypeOK ==
  /\ balance \in Nat
  /\ billed \subseteq Keys
  /\ debit \in [Keys -> Nat]
  /\ mailed \subseteq billed
  /\ settled \subseteq mailed

Init ==
  /\ balance = InitialCredit
  /\ billed = {}
  /\ debit = [k \in Keys |-> 0]
  /\ mailed = {}
  /\ settled = {}

Bill(k) ==
  /\ k \notin billed
  /\ k \notin Trueups => \A j \in billed \ Trueups : Covers[j] \cap Covers[k] = {}
  /\ billed' = billed \cup {k}
  /\ \E c \in 0 .. balance :
       /\ c <= Gross[k]
       /\ k \in Trueups => c = 0
       /\ debit' = [debit EXCEPT ![k] = c]
       /\ balance' = balance - c
  /\ UNCHANGED <<mailed, settled>>

Mail(k) ==
  /\ k \in billed \ mailed
  /\ mailed' = mailed \cup {k}
  /\ UNCHANGED <<balance, billed, debit, settled>>

Settle(k) ==
  /\ k \in mailed \ settled
  /\ settled' = settled \cup {k}
  /\ balance' = balance + IF k \in Trueups THEN Grant[k] ELSE 0
  /\ UNCHANGED <<billed, debit, mailed>>

Next == \E k \in Keys : Bill(k) \/ Mail(k) \/ Settle(k)

Spec == Init /\ [][Next]_vars
=============================================================================
