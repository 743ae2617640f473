----------------------------- MODULE OnceEmail -----------------------------
(***************************************************************************)
(* What the billing email outbox promises its callers: an email whose fate *)
(* is not known is never transmitted again, and so each key reaches the    *)
(* customer at most once.  A key is "unsent" while every transmission so   *)
(* far was provably refused, "unknown" from the moment one may be leaving, *)
(* and "accepted" once there is a receipt.                                 *)
(***************************************************************************)
CONSTANTS Keys,           \* the dedup keys, e.g. invoice:<id>
          Transmissions   \* names for the provider's receipts of one key

VARIABLES known,   \* what the outbox knows of each key
          sent     \* the transmissions of each key that reached the customer

vars == <<known, sent>>

TypeOK ==
  /\ known \in [Keys -> {"unsent", "unknown", "accepted"}]
  /\ sent \in [Keys -> SUBSET Transmissions]

Init ==
  /\ known = [k \in Keys |-> "unsent"]
  /\ sent = [k \in Keys |-> {}]

\* A transmission starts; from here on it may have happened.
Attempt(k) ==
  /\ known[k] = "unsent"
  /\ known' = [known EXCEPT ![k] = "unknown"]
  /\ UNCHANGED sent

\* The provider takes the email, the first time only.
Deliver(k, t) ==
  /\ known[k] = "unknown"
  /\ sent[k] = {}
  /\ sent' = [sent EXCEPT ![k] = {t}]
  /\ UNCHANGED known

\* A receipt arrives, from the provider's answer or from an operator.
Confirm(k) ==
  /\ sent[k] # {}
  /\ known' = [known EXCEPT ![k] = "accepted"]
  /\ UNCHANGED sent

\* The provider proved that it did not take the email: it may be retried.
Refuse(k) ==
  /\ known[k] = "unknown"
  /\ sent[k] = {}
  /\ known' = [known EXCEPT ![k] = "unsent"]
  /\ UNCHANGED sent

\* A late worker that lost the answer overwrites a reconciled receipt.
Doubt(k) ==
  /\ known[k] = "accepted"
  /\ known' = [known EXCEPT ![k] = "unknown"]
  /\ UNCHANGED sent

Next ==
  \E k \in Keys :
    \/ Attempt(k) \/ Confirm(k) \/ Refuse(k) \/ Doubt(k)
    \/ \E t \in Transmissions : Deliver(k, t)

Spec == Init /\ [][Next]_vars
=============================================================================
