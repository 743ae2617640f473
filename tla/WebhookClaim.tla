---------------------------- MODULE WebhookClaim ----------------------------
(***************************************************************************)
(* The endpoint that receives Stripe's events, api/stripe_webhook.py, and  *)
(* the two handlers with an effect outside their own transaction: the      *)
(* payment of a customer's invoice, which also owes two receipt emails,    *)
(* and its refund.  All events are about one payment; events of different  *)
(* payments share nothing.                                                 *)
(*                                                                         *)
(* A worker is one of the web processes (start.sh starts two): it serves   *)
(* one webhook at a time, and may die at any step.  Stripe delivers an     *)
(* event until it gets a 2xx answer and may deliver it again after that.   *)
(* The receipt emails go through send_email_once, of which this module     *)
(* uses only the promise, OnceEmail.                                       *)
(***************************************************************************)
EXTENDS Naturals

CONSTANTS PaidEvents,      \* a Checkout Session was paid, now or by a debit
          RefundEvents,    \* the charge was given back in full
          PartialEvents,   \* the charge was given back in part
          OtherEvents,     \* types without a handler
          Workers,
          Audiences,       \* who is owed a receipt: the offtaker, the owner
          Transmissions,
          None,
          MaxFaults        \* bound on deaths, errors and refused emails

Events == PaidEvents \cup RefundEvents \cup PartialEvents \cup OtherEvents

ASSUME WebhookAssumption ==
  /\ PaidEvents \cap (RefundEvents \cup PartialEvents \cup OtherEvents) = {}
  /\ RefundEvents \cap (PartialEvents \cup OtherEvents) = {}
  /\ PartialEvents \cap OtherEvents = {}
  /\ None \notin Events \cup Workers
  /\ MaxFaults \in Nat

VARIABLES
  row,       \* StripeEvent.status of each event, "absent" without a row
  claimant,  \* whose claim StripeEvent.processed_at dates
  stale,     \* that claim is more than five minutes old
  payment,   \* OfftakerPayment.status
  payload,   \* receipt_payload is stored on the payment
  known,     \* what the email outbox knows of each receipt
  sent,      \* the receipts that reached their audience
  pc,        \* where each worker is
  event,     \* the event it serves
  todo,      \* the receipts its handler has still to ask for
  missed,    \* a receipt it asked for was not confirmed
  acked,     \* the events whose 2xx answer Stripe got
  overdue,   \* history: workers at work on a claim that grew stale
  faults     \* how much has gone wrong so far

rowVars == <<row, claimant, stale>>
bookVars == <<payment, payload>>
mailVars == <<known, sent>>
workerVars == <<pc, event, todo, missed>>
vars == <<rowVars, bookVars, mailVars, workerVars, acked, overdue, faults>>

Mail == INSTANCE OnceEmail WITH Keys <- Audiences

RowStatuses == {"absent", "received", "processing", "processed", "ignored", "error"}

\* The places of a worker that has claimed its event.
AtWork == {"dispatch", "handle", "notify", "finish", "fail"}

TypeOK ==
  /\ row \in [Events -> RowStatuses]
  /\ claimant \in [Events -> Workers \cup {None}]
  /\ stale \in [Events -> BOOLEAN]
  /\ payment \in {"unpaid", "paid", "refunded"}
  /\ payload \in BOOLEAN
  /\ Mail!TypeOK
  /\ pc \in [Workers -> {"idle", "insert", "read", "claim"} \cup AtWork]
  /\ event \in [Workers -> Events \cup {None}]
  /\ todo \in [Workers -> SUBSET Audiences]
  /\ missed \in [Workers -> BOOLEAN]
  /\ acked \in SUBSET Events
  /\ overdue \in SUBSET Workers
  /\ faults \in 0 .. MaxFaults

Init ==
  /\ row = [e \in Events |-> "absent"]
  /\ claimant = [e \in Events |-> None]
  /\ stale = [e \in Events |-> FALSE]
  /\ payment = "unpaid"
  /\ payload = FALSE
  /\ Mail!Init
  /\ pc = [w \in Workers |-> "idle"]
  /\ event = [w \in Workers |-> None]
  /\ todo = [w \in Workers |-> {}]
  /\ missed = [w \in Workers |-> FALSE]
  /\ acked = {}
  /\ overdue = {}
  /\ faults = 0

-----------------------------------------------------------------------------
(* The route, up to the claim                                              *)

Goto(w, place) == pc' = [pc EXCEPT ![w] = place]

\* The request ends, with a 2xx answer or not.
EndRequest(w, answered) ==
  /\ Goto(w, "idle")
  /\ event' = [event EXCEPT ![w] = None]
  /\ todo' = [todo EXCEPT ![w] = {}]
  /\ missed' = [missed EXCEPT ![w] = FALSE]
  /\ overdue' = overdue \ {w}
  /\ acked' = IF answered THEN acked \cup {event[w]} ELSE acked

\* Stripe delivers an event, the first time or again; the worker looks for
\* its row.
Deliver(w, e) ==
  /\ pc[w] = "idle"
  /\ event' = [event EXCEPT ![w] = e]
  /\ Goto(w, IF row[e] = "absent" THEN "insert" ELSE "read")
  /\ UNCHANGED <<rowVars, bookVars, mailVars, todo, missed, acked, overdue, faults>>

\* The insert, or the IntegrityError of a worker that came second.
Insert(w) ==
  LET e == event[w] IN
  /\ pc[w] = "insert"
  /\ row' = IF row[e] = "absent" THEN [row EXCEPT ![e] = "received"] ELSE row
  /\ Goto(w, "read")
  /\ UNCHANGED <<claimant, stale, bookVars, mailVars, event, todo, missed, acked,
                 overdue, faults>>

\* Mutation of Done: an event in progress counts as a duplicate.
DoneOrInFlight(e) == row[e] \in {"processing", "processed", "ignored"}

\* The statuses answered as a duplicate.
Done(e) == row[e] \in {"processed", "ignored"}

ReadRow(w) ==
  LET e == event[w] IN
  /\ pc[w] = "read"
  /\ IF Done(e)
     THEN EndRequest(w, TRUE)
     ELSE Goto(w, "claim") /\ UNCHANGED <<event, todo, missed, acked, overdue>>
  /\ UNCHANGED <<rowVars, bookVars, mailVars, faults>>

\* Mutation of Eligible: a claim may be taken over at any age.
EligibleAtAnyAge(e) == row[e] \in {"received", "error", "processing"}

\* Another one: a claim is never taken over.
EligibleUnclaimed(e) == row[e] \in {"received", "error"}

\* The WHERE clause of the claim.
Eligible(e) ==
  \/ row[e] \in {"received", "error"}
  \/ row[e] = "processing" /\ stale[e]

\* The claim, or 503 for an event that somebody else has.
Claim(w) ==
  LET e == event[w] IN
  /\ pc[w] = "claim"
  /\ IF Eligible(e)
     THEN /\ row' = [row EXCEPT ![e] = "processing"]
          /\ claimant' = [claimant EXCEPT ![e] = w]
          /\ stale' = [stale EXCEPT ![e] = FALSE]
          /\ Goto(w, "dispatch")
          /\ UNCHANGED <<event, todo, missed, acked, overdue>>
     ELSE EndRequest(w, FALSE) /\ UNCHANGED rowVars
  /\ UNCHANGED <<bookVars, mailVars, faults>>

\* An event without a handler is marked and answered; any other goes to its
\* handler.
Dispatch(w) ==
  LET e == event[w] IN
  /\ pc[w] = "dispatch"
  /\ IF e \in OtherEvents
     THEN row' = [row EXCEPT ![e] = "ignored"] /\ EndRequest(w, TRUE)
     ELSE Goto(w, "handle") /\ UNCHANGED <<row, event, todo, missed, acked, overdue>>
  /\ UNCHANGED <<claimant, stale, bookVars, mailVars, faults>>

-----------------------------------------------------------------------------
(* The handlers                                                            *)

\* Mutation of Owes: a payment that is already booked owes no receipt.
OwesFirstTime == payment = "unpaid"

\* mark_payment_paid hands out a notification: when it books the payment, and
\* again as long as the payment stands and its receipt_payload is stored.
Owes == payment # "refunded"

\* mark_payment_paid, one transaction under the lock of the payment's row.
BookPayment(w) ==
  /\ pc[w] = "handle"
  /\ event[w] \in PaidEvents
  /\ IF payment = "refunded"
     THEN UNCHANGED bookVars
     ELSE payment' = "paid" /\ payload' = TRUE
  /\ IF Owes
     THEN Goto(w, "notify") /\ todo' = [todo EXCEPT ![w] = Audiences]
     ELSE Goto(w, "finish") /\ UNCHANGED todo
  /\ UNCHANGED <<rowVars, mailVars, event, missed, acked, overdue, faults>>

\* Mutation of RefundedStatus: the first refund has a status of its own.
RefundedStatusPartial(e) == IF payment = "refunded" THEN "refunded" ELSE "partial"

\* The status mark_payment_refunded writes: refunds only add up.
RefundedStatus(e) ==
  IF e \in RefundEvents \/ payment = "refunded" THEN "refunded" ELSE "paid"

\* mark_payment_refunded: a refund may come before the event of the payment,
\* which it then stands for; only an alert follows it.
BookRefund(w) ==
  /\ pc[w] = "handle"
  /\ event[w] \in RefundEvents \cup PartialEvents
  /\ payment' = RefundedStatus(event[w])
  /\ Goto(w, "finish")
  /\ UNCHANGED <<rowVars, payload, mailVars, event, todo, missed, acked, overdue, faults>>

\* send_email_once transmits a receipt that nobody sent yet ...
SendReceipt(w, a) ==
  /\ pc[w] = "notify"
  /\ a \in todo[w]
  /\ Mail!Attempt(a)
  /\ UNCHANGED <<rowVars, bookVars, workerVars, acked, overdue, faults>>

\* ... and answers what the outbox knows by then, which another worker, the
\* retry job or an operator may have changed meanwhile.
ReceiptAnswered(w, a) ==
  /\ pc[w] = "notify"
  /\ a \in todo[w]
  /\ todo' = [todo EXCEPT ![w] = @ \ {a}]
  /\ missed' = [missed EXCEPT ![w] = @ \/ known[a] # "accepted"]
  /\ UNCHANGED <<rowVars, bookVars, mailVars, pc, event, acked, overdue, faults>>

\* A receipt that is not confirmed raises, so that Stripe retries the event.
Notified(w) ==
  /\ pc[w] = "notify"
  /\ todo[w] = {}
  /\ Goto(w, IF missed[w] THEN "fail" ELSE "finish")
  /\ UNCHANGED <<rowVars, bookVars, mailVars, event, todo, missed, acked, overdue, faults>>

\* Any other exception of the handler, or of the commit after it.
Raise(w) ==
  /\ pc[w] \in {"handle", "notify", "finish"}
  /\ faults < MaxFaults
  /\ faults' = faults + 1
  /\ Goto(w, "fail")
  /\ UNCHANGED <<rowVars, bookVars, mailVars, event, todo, missed, acked, overdue>>

-----------------------------------------------------------------------------
(* The route, after the handler                                            *)

\* Mutation of OwnClaim: a worker takes the claim for its own for ever.
AnyClaim(w) == pc[w] \in AtWork

\* The worker's claim is still the row's: processed_at is its claimed_at.
OwnClaim(w) == row[event[w]] = "processing" /\ claimant[event[w]] = w

\* The event is finished, by a worker that has not lost its claim; the
\* answer is 200 either way.
Finish(w) ==
  LET e == event[w] IN
  /\ pc[w] = "finish"
  /\ row' = IF OwnClaim(w) THEN [row EXCEPT ![e] = "processed"] ELSE row
  /\ EndRequest(w, TRUE)
  /\ UNCHANGED <<claimant, stale, bookVars, mailVars, faults>>

\* The failure is recorded the same way, and the answer is 500.
RecordFailure(w) ==
  LET e == event[w] IN
  /\ pc[w] = "fail"
  /\ row' = IF OwnClaim(w) THEN [row EXCEPT ![e] = "error"] ELSE row
  /\ EndRequest(w, FALSE)
  /\ UNCHANGED <<claimant, stale, bookVars, mailVars, faults>>

-----------------------------------------------------------------------------
(* What goes on around the endpoint                                        *)

\* A web process dies, or its answer is lost: Stripe hears nothing.
Die(w) ==
  /\ pc[w] # "idle"
  /\ faults < MaxFaults
  /\ faults' = faults + 1
  /\ EndRequest(w, FALSE)
  /\ UNCHANGED <<rowVars, bookVars, mailVars>>

\* Five minutes pass since the claim of an event.
GrowStale(e) ==
  /\ row[e] = "processing"
  /\ ~stale[e]
  /\ stale' = [stale EXCEPT ![e] = TRUE]
  /\ overdue' = overdue \cup {w \in Workers : /\ claimant[e] = w
                                              /\ event[w] = e
                                              /\ pc[w] \in AtWork}
  /\ UNCHANGED <<row, claimant, bookVars, mailVars, workerVars, acked, faults>>

\* A click on the pay link finds the Session paid and books the payment
\* before its event comes (resolve_pay_link); it sends no receipt.
ClickBooks ==
  /\ payment = "unpaid"
  /\ payment' = "paid"
  /\ payload' = TRUE
  /\ UNCHANGED <<rowVars, mailVars, workerVars, acked, overdue, faults>>

\* The provider and the outbox settle a receipt, as OnceEmail allows.
ReceiptSettles(a) ==
  /\ Mail!Confirm(a) \/ \E t \in Transmissions : Mail!Deliver(a, t)
  /\ UNCHANGED <<rowVars, bookVars, workerVars, acked, overdue, faults>>

\* A receipt is refused, or a late worker loses track of it.
ReceiptDoubted(a) ==
  /\ Mail!Refuse(a) \/ Mail!Doubt(a)
  /\ faults < MaxFaults
  /\ faults' = faults + 1
  /\ UNCHANGED <<rowVars, bookVars, workerVars, acked, overdue>>

Work(w) ==
  \/ Insert(w) \/ ReadRow(w) \/ Claim(w) \/ Dispatch(w)
  \/ BookPayment(w) \/ BookRefund(w)
  \/ \E a \in Audiences : ReceiptAnswered(w, a)
  \/ Notified(w) \/ Finish(w) \/ RecordFailure(w)

Next ==
  \/ \E w \in Workers :
       \/ \E e \in Events : Deliver(w, e)
       \/ \E a \in Audiences : SendReceipt(w, a)
       \/ Work(w) \/ Raise(w) \/ Die(w)
  \/ \E e \in Events : GrowStale(e)
  \/ \E a \in Audiences : ReceiptSettles(a) \/ ReceiptDoubted(a)
  \/ ClickBooks

Spec == Init /\ [][Next]_vars

\* A request goes on unless its process dies, time passes, and Stripe keeps
\* delivering an event that has no 2xx answer.  A call for an unsent receipt
\* transmits it in the end (the limit on attempts is above the number of
\* faults), and an uncertain one is reconciled while Stripe still retries.
Fairness ==
  /\ \A w \in Workers : WF_vars(Work(w))
  /\ \A e \in Events : /\ WF_vars(GrowStale(e))
                       /\ SF_vars(e \notin acked /\ \E w \in Workers : Deliver(w, e))
  /\ \A a \in Audiences : /\ SF_vars(\E w \in Workers : SendReceipt(w, a))
                          /\ WF_vars(ReceiptSettles(a))

FairSpec == Spec /\ Fairness

-----------------------------------------------------------------------------
(* Properties                                                              *)

\* What an event asks for has been done: the money is on the books, and a
\* payment that was not given back in full has both receipts out.
Settled(e) ==
  \/ e \in OtherEvents
  \/ e \in RefundEvents /\ payment = "refunded"
  \/ e \in PartialEvents /\ payment # "unpaid"
  \/ /\ e \in PaidEvents
     /\ payment # "unpaid"
     /\ payment = "paid" => \A a \in Audiences : sent[a] # {}

\* Stripe hears that an event is done, and the row says so, only when it is:
\* neither a duplicate of an event in progress nor a failed receipt is
\* acknowledged, since nobody would ever come back to it.
AckedIsSettled ==
  \A e \in Events : e \in acked \/ row[e] \in {"processed", "ignored"} => Settled(e)

\* Two workers run the handler of one event at a time only if one of them has
\* been at it for more than five minutes.
NoOverlap ==
  \A v, w \in Workers \ overdue :
    event[v] = event[w] /\ pc[v] \in AtWork /\ pc[w] \in AtWork => v = w

\* The failure of a worker that was taken over does not reopen an event which
\* its successor finished.
DoneForever ==
  [][\A e \in Events : Done(e) => row'[e] = row[e]]_vars

\* Every event is acknowledged in the end, with what it asks for done, even if
\* every handler is so slow that another worker takes its event over.
EveryEventSettles == \A e \in Events : <>[](e \in acked /\ Settled(e))
=============================================================================
