----------------------- MODULE MCOperatorSubscription -----------------------
(***************************************************************************)
(* One operator with two cards, two subscriptions, and two processes.      *)
(***************************************************************************)
EXTENDS OperatorSubscription, TLC

Alike == Permutations(Cards) \cup Permutations(Subs) \cup Permutations(Workers)

\* What happens after a mishap is of no concern to the invariants.
BeforeMishap == ~mishap

\* The trial can be forgotten once it is over with, and leaving is a history
\* that only CancelledIsFree reads.
OnTrial == status = "trialing" \/ \E w \in Workers : pc[w] = "finalize"

View == <<status, active, IF OnTrial THEN <<trial, extended>> ELSE <<>>, card, subId,
          stripeVars, sessionVars, workerVars, mishap, faults>>
=============================================================================
