------------------------------ MODULE PaidOnce ------------------------------
(***************************************************************************)
(* What the pay links promise of each invoice: it is paid once, either by  *)
(* the card or bank debit that Stripe takes or by receipts the operator    *)
(* records, which never exceed the amount; what Stripe took and gave back  *)
(* is booked, and nothing else is.  Refunds are 1 (partial) or 2 (full);   *)
(* <<i, n>> stands for a refund of n, or more, on invoice i.               *)
(***************************************************************************)
EXTENDS Naturals

CONSTANTS Invoices,
          Amount   \* what each of them asks for

VARIABLES cash,    \* the offline receipts of each invoice
          taken,   \* the invoices whose money Stripe took
          given,   \* the refunds Stripe made
          booked,  \* the invoices the books have as paid online
          noted    \* the refunds the books have

vars == <<cash, taken, given, booked, noted>>

TypeOK ==
  /\ cash \in [Invoices -> Nat]
  /\ booked \subseteq taken /\ taken \subseteq Invoices
  /\ noted \subseteq given /\ given \subseteq taken \X {1, 2}

Init ==
  /\ cash = [i \in Invoices |-> 0]
  /\ taken = {}
  /\ given = {}
  /\ booked = {}
  /\ noted = {}

\* The operator records a receipt of n.
Receive(i, n) ==
  /\ i \notin taken
  /\ cash[i] + n <= Amount[i]
  /\ cash' = [cash EXCEPT ![i] = @ + n]
  /\ UNCHANGED <<taken, given, booked, noted>>

\* The customer's payment goes through at Stripe.
Take(i) ==
  /\ i \notin taken
  /\ cash[i] = 0
  /\ taken' = taken \cup {i}
  /\ UNCHANGED <<cash, given, booked, noted>>

\* Refunds add up to n.
Return(i, n) ==
  /\ i \in taken
  /\ <<i, n>> \notin given
  /\ given' = given \cup ({i} \X (1 .. n))
  /\ UNCHANGED <<cash, taken, booked, noted>>

\* The books learn of the payment ...
Book(i) ==
  /\ i \in taken \ booked
  /\ booked' = booked \cup {i}
  /\ UNCHANGED <<cash, taken, given, noted>>

\* ... or of a refund, and with it of the payment.
Note(i, n) ==
  /\ <<i, n>> \in given \ noted
  /\ noted' = noted \cup ({i} \X (1 .. n))
  /\ booked' = booked \cup {i}
  /\ UNCHANGED <<cash, taken, given>>

Next ==
  \E i \in Invoices :
    \/ Take(i) \/ Book(i)
    \/ \E n \in 1 .. Amount[i] : Receive(i, n)
    \/ \E n \in 1 .. 2 : Return(i, n) \/ Note(i, n)

Spec == Init /\ [][Next]_vars
=============================================================================
