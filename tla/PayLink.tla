------------------------------ MODULE PayLink ------------------------------
(***************************************************************************)
(* The durable pay links of one billing subscription and the Stripe        *)
(* Checkout Sessions behind them: api/billing/payments.py, with its        *)
(* callers in delivery.py, routes.py and stripe_webhook.py.                *)
(*                                                                         *)
(* A payment row carries the link; a Session lives for a day, so a click   *)
(* on the link replaces the Session behind it, on the same row.  The row   *)
(* is locked for the length of each transaction.  A step that holds the    *)
(* lock across calls to Stripe is one action here, at the call that        *)
(* decides; a call that fails changes nothing but what Stripe did.         *)
(*                                                                         *)
(* The idempotency key of a Session is its row and generation.  Stripe     *)
(* replays the key for a day and then forgets it: the same key makes a     *)
(* second copy.  Refunds are 1 (partial) or 2 (full).                      *)
(***************************************************************************)
EXTENDS Naturals

CONSTANTS Invoices,     \* the obligations of the subscription
          PeriodKey,    \* what _period_key calls the period of each one
          Amount,       \* amount_owed of each one
          MaxRows,      \* bound: payment rows
          MaxGen,       \* bound: checkout_generation
          Workers,      \* processes that deliver invoices or serve clicks
          None          \* null

ASSUME PayLinkAssumption ==
  /\ Amount \in [Invoices -> Nat \ {0}]
  /\ MaxRows \in Nat /\ MaxGen \in Nat
  /\ None \notin Invoices \cup Workers \cup Nat

VARIABLES madeFor,    \* the invoice whose period and amount a row has
          rowStatus,  \* offtaker_payments.status
          generation, \* .checkout_generation
          requested,  \* .checkout_request is persisted
          aged,       \* .checkout_requested_at is 23 hours ago
          tracked,    \* .stripe_checkout_session_id: which copy, 0 for null
          refunded,   \* .refunded_cents
          lock,       \* the process that holds the row's lock between actions
          session,    \* the Checkout Sessions at Stripe
          returned,   \* what Stripe refunded of each
          payment,    \* offtaker_invoices.payment_id
          accepted,   \* .status is "accepted"
          offline,    \* the offline receipts of each invoice
          pc,         \* where each process is
          row,        \* the row it works on
          serves      \* the invoice it delivers, None for a click

rowVars == <<madeFor, rowStatus, generation, requested, aged, tracked, refunded>>
stripeVars == <<session, returned>>
invoiceVars == <<payment, accepted, offline>>
callVars == <<pc, row, serves>>
vars == <<rowVars, lock, stripeVars, invoiceVars, callVars>>

Rows == 1 .. MaxRows
Sessions == Rows \X (0 .. MaxGen) \X {1, 2}

RowStatuses == {"absent", "open", "expired", "failed", "paid", "refunded", "superseded"}

\* "open": created, its url with the server; "offered": the customer has the
\* url; "processing": checked out, the bank debit on its way.
SessionStates == {"none", "open", "offered", "processing", "paid", "failed", "expired"}

TypeOK ==
  /\ madeFor \in [Rows -> Invoices \cup {None}]
  /\ rowStatus \in [Rows -> RowStatuses]
  /\ generation \in [Rows -> 0 .. MaxGen]
  /\ requested \in [Rows -> BOOLEAN]
  /\ aged \in [Rows -> BOOLEAN]
  /\ tracked \in [Rows -> 0 .. 2]
  /\ refunded \in [Rows -> 0 .. 2]
  /\ lock \in [Rows -> Workers \cup {None}]
  /\ session \in [Sessions -> SessionStates]
  /\ returned \in [Sessions -> 0 .. 2]
  /\ payment \in [Invoices -> Rows \cup {None}]
  /\ accepted \in [Invoices -> BOOLEAN]
  /\ offline \in [Invoices -> Nat]
  /\ \A i \in Invoices : offline[i] <= Amount[i]
  /\ pc \in [Workers -> {"idle", "create", "request", "session", "store", "attach", "send"}]
  /\ row \in [Workers -> Rows \cup {None}]
  /\ serves \in [Workers -> Invoices \cup {None}]

Init ==
  /\ madeFor = [r \in Rows |-> None]
  /\ rowStatus = [r \in Rows |-> "absent"]
  /\ generation = [r \in Rows |-> 0]
  /\ requested = [r \in Rows |-> FALSE]
  /\ aged = [r \in Rows |-> FALSE]
  /\ tracked = [r \in Rows |-> 0]
  /\ refunded = [r \in Rows |-> 0]
  /\ lock = [r \in Rows |-> None]
  /\ session = [s \in Sessions |-> "none"]
  /\ returned = [s \in Sessions |-> 0]
  /\ payment = [i \in Invoices |-> None]
  /\ accepted = [i \in Invoices |-> FALSE]
  /\ offline = [i \in Invoices |-> 0]
  /\ pc = [w \in Workers |-> "idle"]
  /\ row = [w \in Workers |-> None]
  /\ serves = [w \in Workers |-> None]

\* The Session row r tracks, if tracked[r] # 0.
Current(r) == <<r, generation[r], tracked[r]>>

Live == {"open", "offered"}

Settled(r) == rowStatus[r] \in {"paid", "refunded"}

\* Creation was requested of Stripe and its outcome was not recorded.
Uncertain(r) == requested[r] /\ tracked[r] = 0

\* A call by process w moves to a step, with row r.
Goto(w, step, r) ==
  /\ pc' = [pc EXCEPT ![w] = step]
  /\ row' = [row EXCEPT ![w] = r]
  /\ UNCHANGED serves

EndCall(w) ==
  /\ pc' = [pc EXCEPT ![w] = "idle"]
  /\ row' = [row EXCEPT ![w] = None]
  /\ serves' = [serves EXCEPT ![w] = None]

-----------------------------------------------------------------------------
(* create_offtaker_payment, in a delivery                                  *)

\* A delivery of an invoice that is not accepted reaches its pay link.
Deliver(w, i) ==
  /\ pc[w] = "idle"
  /\ ~accepted[i]
  /\ pc' = [pc EXCEPT ![w] = "create"]
  /\ serves' = [serves EXCEPT ![w] = i]
  /\ UNCHANGED <<rowVars, lock, stripeVars, invoiceVars, row>>

\* The rows of the period of invoice i that were not retired.
Existing(i) ==
  {r \in Rows : /\ rowStatus[r] \notin {"absent", "superseded"}
                /\ PeriodKey[madeFor[r]] = PeriodKey[i]}

\* A row of the same period and amount is used again, paid ones included,
\* unless its Session may exist unrecorded for so long that Stripe forgot it.
ReusePayment(w) ==
  /\ pc[w] = "create"
  /\ \E r \in Existing(serves[w]) :
       /\ Amount[madeFor[r]] = Amount[serves[w]]
       /\ ~(Uncertain(r) /\ aged[r])
       /\ Goto(w, "attach", r)
  /\ UNCHANGED <<rowVars, lock, stripeVars, invoiceVars>>

\* Mutation of Retirable: a checkout that completed is not told from an expired one.
RetirableUnproven(r) ==
  /\ lock[r] = None
  /\ ~Settled(r)
  /\ ~Uncertain(r)

\* _retire_payment raises unless Stripe proves that no payment is in flight.
Retirable(r) ==
  /\ lock[r] = None
  /\ ~Settled(r)
  /\ ~Uncertain(r)
  /\ tracked[r] # 0 => session[Current(r)] \in Live \cup {"expired"}

\* Row r is retired and its open Session expired.
Retire(r, status) ==
  /\ Retirable(r)
  /\ rowStatus' = [status EXCEPT ![r] = "superseded"]
  /\ session' = [s \in Sessions |->
       IF tracked[r] # 0 /\ s = Current(r) /\ session[s] \in Live THEN "expired" ELSE session[s]]

\* A row not used so far.
NewRow == CHOOSE r \in Rows : madeFor[r] = None

\* Under the lock of the subscription, a row is made for the period; one of
\* another amount is retired in the same transaction.
MakePayment(w) ==
  /\ pc[w] = "create"
  /\ \E r \in Rows : madeFor[r] = None
  /\ LET i == serves[w]
         made == [rowStatus EXCEPT ![NewRow] = "open"]
     IN /\ \/ /\ Existing(i) = {}
              /\ rowStatus' = made
              /\ UNCHANGED session
           \/ \E r \in Existing(i) :
                Amount[madeFor[r]] # Amount[i] /\ Retire(r, made)
        /\ madeFor' = [madeFor EXCEPT ![NewRow] = i]
        /\ Goto(w, "request", NewRow)
  /\ UNCHANGED <<generation, requested, aged, tracked, refunded, lock, returned, invoiceVars>>

-----------------------------------------------------------------------------
(* _mint_checkout_session, and its callers' record of the Session          *)

Collectible(r) == rowStatus[r] \notin {"superseded", "paid", "refunded"}

\* The request is persisted, which commits and gives up the lock.
RequestSession(w) ==
  /\ pc[w] = "request"
  /\ lock[row[w]] = None
  /\ Collectible(row[w])
  /\ ~requested[row[w]]
  /\ requested' = [requested EXCEPT ![row[w]] = TRUE]
  /\ aged' = [aged EXCEPT ![row[w]] = FALSE]
  /\ Goto(w, "session", row[w])
  /\ UNCHANGED <<madeFor, rowStatus, generation, tracked, refunded, lock, stripeVars, invoiceVars>>

\* The Session that creation with the key of row r returns.
Answer(r) ==
  IF session[<<r, generation[r], 1>>] # "none" /\ aged[r]
  THEN <<r, generation[r], 2>> ELSE <<r, generation[r], 1>>

\* Mutation of CreateSession: the age of the request is not looked at.
CreateSessionLate(w) ==
  LET r == row[w] IN
  /\ pc[w] \in {"request", "session"}
  /\ lock[r] = None
  /\ Collectible(r)
  /\ requested[r]
  /\ session' = IF tracked[r] = 0 /\ session[Answer(r)] = "none"
                THEN [session EXCEPT ![Answer(r)] = "open"] ELSE session
  /\ lock' = [lock EXCEPT ![r] = w]
  /\ Goto(w, "store", r)
  /\ UNCHANGED <<rowVars, returned, invoiceVars>>

\* With the lock taken again, a tracked Session is retrieved; otherwise Stripe
\* creates or replays one, within 23 hours of the request.
CreateSession(w) ==
  LET r == row[w] IN
  /\ pc[w] \in {"request", "session"}
  /\ lock[r] = None
  /\ Collectible(r)
  /\ requested[r]
  /\ \/ tracked[r] # 0 /\ UNCHANGED session
     \/ /\ tracked[r] = 0
        /\ ~aged[r]
        /\ session' = IF session[Answer(r)] = "none"
                      THEN [session EXCEPT ![Answer(r)] = "open"] ELSE session
  /\ lock' = [lock EXCEPT ![r] = w]
  /\ Goto(w, "store", r)
  /\ UNCHANGED <<rowVars, returned, invoiceVars>>

\* Copy 2 exists only if the key was used after Stripe forgot it.
Newest(r) == IF session[<<r, generation[r], 2>>] = "none" THEN 1 ELSE 2

\* The caller records the Session and commits.  A click also reopens the row
\* and sends the customer to the Session; a delivery goes on with the link.
StoreSession(w) ==
  LET r == row[w] IN
  /\ pc[w] = "store"
  /\ tracked' = [tracked EXCEPT ![r] = IF @ = 0 THEN Newest(r) ELSE @]
  /\ lock' = [lock EXCEPT ![r] = None]
  /\ \/ /\ serves[w] = None
        /\ rowStatus' = [rowStatus EXCEPT ![r] = "open"]
        /\ LET s == <<r, generation[r], tracked'[r]>>
           IN session' = [session EXCEPT ![s] = IF @ = "open" THEN "offered" ELSE @]
        /\ EndCall(w)
     \/ /\ serves[w] # None
        /\ Goto(w, "attach", r)
        /\ UNCHANGED <<rowStatus, session>>
  /\ UNCHANGED <<madeFor, generation, requested, aged, refunded, returned, invoiceVars>>

\* attach_payment: the invoice has this payment for good.
Attach(w) ==
  /\ pc[w] = "attach"
  /\ payment[serves[w]] \in {None, row[w]}
  /\ payment' = [payment EXCEPT ![serves[w]] = row[w]]
  /\ Goto(w, "send", row[w])
  /\ UNCHANGED <<rowVars, lock, stripeVars, accepted, offline>>

\* The email with the link is accepted, as InvoiceIssuance has it.
Issue(w) ==
  /\ pc[w] = "send"
  /\ accepted' = [accepted EXCEPT ![serves[w]] = TRUE]
  /\ EndCall(w)
  /\ UNCHANGED <<rowVars, lock, stripeVars, payment, offline>>

\* The process dies, Stripe does not answer, or a check raises: the open
\* transaction is rolled back, what Stripe did stays.
GiveUp(w) ==
  /\ pc[w] # "idle"
  /\ lock' = [r \in Rows |-> IF lock[r] = w THEN None ELSE lock[r]]
  /\ EndCall(w)
  /\ UNCHANGED <<rowVars, stripeVars, invoiceVars>>

-----------------------------------------------------------------------------
(* resolve_pay_link: a click on the link of an invoice's email             *)

\* The row a customer can reach: its link was attached to an invoice, so the
\* email may be out, and it was not retired, which takes its token away.
Clickable(r) ==
  /\ \E i \in Invoices : payment[i] = r
  /\ lock[r] = None
  /\ rowStatus[r] \in {"open", "expired", "failed"}

\* The Session turns out to be paid, and the row is settled on the spot.
ClickPaid(r) ==
  /\ Clickable(r)
  /\ tracked[r] # 0 /\ session[Current(r)] = "paid"
  /\ rowStatus' = [rowStatus EXCEPT ![r] = "paid"]
  /\ UNCHANGED <<madeFor, generation, requested, aged, tracked, refunded, lock,
                 stripeVars, invoiceVars, callVars>>

\* The Session is open and far from its end.
ClickRedirect(r) ==
  /\ Clickable(r)
  /\ tracked[r] # 0 /\ session[Current(r)] \in Live
  /\ session' = [session EXCEPT ![Current(r)] = "offered"]
  /\ UNCHANGED <<rowVars, lock, returned, invoiceVars, callVars>>

\* Mutation of Replaceable: a completed checkout that is not paid is replaced.
ReplaceableUnpaid(r) == session[Current(r)] # "paid"

\* The Session is open but near its end, and expires when asked to; or it is
\* expired; or it is complete and its bank debit is known to have failed.
Replaceable(r) ==
  \/ session[Current(r)] \in Live \cup {"expired"}
  \/ session[Current(r)] \in {"processing", "failed"} /\ rowStatus[r] = "failed"

\* The row leaves its Session for a new generation, and the click mints.
ClickRenew(w, r) ==
  /\ pc[w] = "idle"
  /\ Clickable(r)
  /\ tracked[r] # 0
  /\ Replaceable(r)
  /\ generation[r] < MaxGen
  /\ session' = [session EXCEPT ![Current(r)] = IF @ \in Live THEN "expired" ELSE @]
  /\ tracked' = [tracked EXCEPT ![r] = 0]
  /\ generation' = [generation EXCEPT ![r] = @ + 1]
  /\ requested' = [requested EXCEPT ![r] = FALSE]
  /\ aged' = [aged EXCEPT ![r] = FALSE]
  /\ Goto(w, "request", r)
  /\ UNCHANGED <<madeFor, rowStatus, refunded, lock, returned, invoiceVars>>

\* No Session is recorded: the click mints one.
ClickMint(w, r) ==
  /\ pc[w] = "idle"
  /\ Clickable(r)
  /\ tracked[r] = 0
  /\ Goto(w, "request", r)
  /\ UNCHANGED <<rowVars, lock, stripeVars, invoiceVars>>

-----------------------------------------------------------------------------
(* Stripe, the bank and the clock                                          *)

Become(s, from, to) ==
  /\ session[s] \in from
  /\ session' = [session EXCEPT ![s] = to]
  /\ UNCHANGED <<rowVars, lock, returned, invoiceVars, callVars>>

\* A card pays at once; a bank debit is settled or returned days later, when
\* no request that was running at the checkout still runs.
Stripe(s) ==
  \/ Become(s, {"offered"}, "processing")
  \/ Become(s, {"offered", "processing"}, "paid")
  \/ (\A w \in Workers : pc[w] = "idle") /\ Become(s, {"processing"}, "failed")
  \/ Become(s, Live, "expired")

\* The owner refunds a payment, in part or in full.
GiveBack(s) ==
  /\ session[s] = "paid"
  /\ \E n \in returned[s] + 1 .. 2 : returned' = [returned EXCEPT ![s] = n]
  /\ UNCHANGED <<rowVars, lock, session, invoiceVars, callVars>>

\* Twenty-three hours pass after a request for a Session.
Age(r) ==
  /\ requested[r] /\ ~aged[r]
  /\ aged' = [aged EXCEPT ![r] = TRUE]
  /\ UNCHANGED <<madeFor, rowStatus, generation, requested, tracked, refunded, lock,
                 stripeVars, invoiceVars, callVars>>

-----------------------------------------------------------------------------
(* Webhooks.  Stripe delivers an event late, out of order, and repeatedly: *)
(* it may arrive whenever the state that it reports has been reached.      *)

\* Mutation of PaidEvent: a checkout that completed counts as paid.
PaidEventCompleted(s) ==
  LET r == s[1] IN
  /\ session[s] \in {"processing", "paid"}
  /\ lock[r] = None
  /\ rowStatus[r] \notin {"refunded", "superseded"}
  /\ s = Current(r)
  /\ rowStatus' = [rowStatus EXCEPT ![r] = "paid"]
  /\ UNCHANGED <<madeFor, generation, requested, aged, tracked, refunded, lock,
                 stripeVars, invoiceVars, callVars>>

\* Mutation of PaidEvent: only an open row is settled.
PaidEventOpenOnly(s) ==
  LET r == s[1] IN
  /\ session[s] = "paid"
  /\ lock[r] = None
  /\ rowStatus[r] = "open"
  /\ s = Current(r)
  /\ rowStatus' = [rowStatus EXCEPT ![r] = "paid"]
  /\ UNCHANGED <<madeFor, generation, requested, aged, tracked, refunded, lock,
                 stripeVars, invoiceVars, callVars>>

\* mark_payment_paid.  A row that requested a Session and lost the answer
\* asks Stripe for it again; the event must be of the Session the row tracks.
PaidEvent(s) ==
  LET r == s[1] IN
  /\ session[s] = "paid"
  /\ lock[r] = None
  /\ rowStatus[r] \notin {"refunded", "superseded"}
  /\ s = IF Uncertain(r) THEN Answer(r) ELSE Current(r)
  /\ Uncertain(r) => Collectible(r) /\ ~aged[r]
  /\ rowStatus' = [rowStatus EXCEPT ![r] = "paid"]
  /\ tracked' = [tracked EXCEPT ![r] = s[3]]
  /\ UNCHANGED <<madeFor, generation, requested, aged, refunded, lock,
                 stripeVars, invoiceVars, callVars>>

\* mark_payment_expired: only of the current Session, only on an open row.
ExpiredEvent(s) ==
  LET r == s[1] IN
  /\ session[s] = "expired"
  /\ lock[r] = None
  /\ s = Current(r)
  /\ rowStatus[r] = "open"
  /\ rowStatus' = [rowStatus EXCEPT ![r] = "expired"]
  /\ UNCHANGED <<madeFor, generation, requested, aged, tracked, refunded, lock,
                 stripeVars, invoiceVars, callVars>>

\* mark_payment_async_failed: only of the current Session.
FailedEvent(s) ==
  LET r == s[1] IN
  /\ session[s] = "failed"
  /\ lock[r] = None
  /\ s = Current(r)
  /\ Collectible(r)
  /\ rowStatus' = [rowStatus EXCEPT ![r] = "failed"]
  /\ UNCHANGED <<madeFor, generation, requested, aged, tracked, refunded, lock,
                 stripeVars, invoiceVars, callVars>>

Greater(m, n) == IF m >= n THEN m ELSE n

\* Mutation of RefundEvent: the last report wins.
RefundEventLast(s, n) ==
  LET r == s[1] IN
  /\ n <= returned[s]
  /\ lock[r] = None
  /\ s = Current(r)
  /\ refunded' = [refunded EXCEPT ![r] = n]
  /\ rowStatus' = [rowStatus EXCEPT ![r] = IF n = 2 THEN "refunded" ELSE "paid"]
  /\ UNCHANGED <<madeFor, generation, requested, aged, tracked, lock,
                 stripeVars, invoiceVars, callVars>>

\* mark_payment_refunded, with a report of n refunded at some time.  It may
\* come before the event of the payment; an older report lowers nothing.
RefundEvent(s, n) ==
  LET r == s[1]
      total == Greater(refunded[r], n) IN
  /\ n <= returned[s]
  /\ lock[r] = None
  /\ s = Current(r)
  /\ refunded' = [refunded EXCEPT ![r] = total]
  /\ rowStatus' = [rowStatus EXCEPT ![r] = IF total = 2 THEN "refunded" ELSE "paid"]
  /\ UNCHANGED <<madeFor, generation, requested, aged, tracked, lock,
                 stripeVars, invoiceVars, callVars>>

-----------------------------------------------------------------------------
(* record_offline_payment                                                  *)

\* Mutation of RecordOffline: the online link is left as it is.
RecordOfflineBeside(i, n) ==
  /\ accepted[i]
  /\ offline[i] + n <= Amount[i]
  /\ offline' = [offline EXCEPT ![i] = @ + n]
  /\ UNCHANGED <<rowVars, lock, stripeVars, payment, accepted, callVars>>

\* Mutation of RecordOffline: earlier receipts are not counted.
RecordOfflineUnbounded(i, n) ==
  /\ accepted[i]
  /\ offline' = [offline EXCEPT ![i] = @ + n]
  /\ IF rowStatus[payment[i]] = "superseded"
     THEN UNCHANGED <<rowStatus, session>>
     ELSE Retire(payment[i], rowStatus)
  /\ UNCHANGED <<madeFor, generation, requested, aged, tracked, refunded, lock,
                 returned, payment, accepted, callVars>>

\* A receipt of n on an issued invoice, within its balance; the online link
\* is retired in the same transaction, or the receipt is refused.
RecordOffline(i, n) ==
  /\ accepted[i]
  /\ offline[i] + n <= Amount[i]
  /\ offline' = [offline EXCEPT ![i] = @ + n]
  /\ IF rowStatus[payment[i]] = "superseded"
     THEN UNCHANGED <<rowStatus, session>>
     ELSE Retire(payment[i], rowStatus)
  /\ UNCHANGED <<madeFor, generation, requested, aged, tracked, refunded, lock,
                 returned, payment, accepted, callVars>>

-----------------------------------------------------------------------------
Call(w) ==
  \/ ReusePayment(w) \/ MakePayment(w)
  \/ RequestSession(w) \/ CreateSession(w) \/ StoreSession(w)
  \/ Attach(w) \/ Issue(w)

Next ==
  \/ \E w \in Workers :
       \/ Call(w) \/ GiveUp(w)
       \/ \E i \in Invoices : Deliver(w, i)
       \/ \E r \in Rows : ClickRenew(w, r) \/ ClickMint(w, r)
  \/ \E r \in Rows : ClickPaid(r) \/ ClickRedirect(r) \/ Age(r)
  \/ \E s \in Sessions :
       \/ Stripe(s) \/ GiveBack(s)
       \/ PaidEvent(s) \/ ExpiredEvent(s) \/ FailedEvent(s)
       \/ \E n \in 1 .. 2 : RefundEvent(s, n)
  \/ \E i \in Invoices : \E n \in 1 .. Amount[i] : RecordOffline(i, n)

Spec == Init /\ [][Next]_vars

\* Stripe repeats the event of a payment until it is taken, and a request
\* goes on or is given up, so that no row stays locked.
Fairness ==
  /\ \A s \in Sessions : SF_vars(PaidEvent(s))
  /\ \A w \in Workers : WF_vars(Call(w) \/ GiveUp(w))

FairSpec == Spec /\ Fairness

-----------------------------------------------------------------------------
(* Properties                                                              *)

\* At most one Session of a billing period can take or has taken the
\* customer's money, over all rows, retries and generations.
OneCollectible ==
  \A s, t \in {u \in Sessions : session[u] \in Live \cup {"processing", "paid"}} :
    PeriodKey[madeFor[s[1]]] = PeriodKey[madeFor[t[1]]] => s = t

\* A Session in the customer's hands, a debit on its way and a payment are
\* always of the Session that a row which was not retired tracks, so that
\* their events are not ignored.
MoneyIsTracked ==
  \A s \in Sessions :
    session[s] \in {"offered", "processing", "paid"}
      => s = Current(s[1]) /\ rowStatus[s[1]] # "superseded"

\* The row says paid or refunded only of money that Stripe took or gave back.
BooksMatchStripe ==
  \A r \in Rows :
    /\ Settled(r) => tracked[r] # 0 /\ session[Current(r)] = "paid"
    /\ tracked[r] # 0 => refunded[r] <= returned[Current(r)]
    /\ rowStatus[r] = "refunded" => refunded[r] = 2

\* What becomes of the money of an invoice, over all rows made for it.
takenBar == {madeFor[s[1]] : s \in {u \in Sessions : session[u] = "paid"}}
givenBar == UNION {{madeFor[s[1]]} \X (1 .. returned[s]) : s \in Sessions}
bookedBar == {madeFor[r] : r \in {q \in Rows : Settled(q)}}
notedBar == UNION {{madeFor[r]} \X (1 .. refunded[r]) : r \in Rows}

Ledger == INSTANCE PaidOnce
            WITH cash <- offline, taken <- takenBar, given <- givenBar,
                 booked <- bookedBar, noted <- notedBar

\* The links keep the promise of PaidOnce where invoices that end on one day
\* differ in their amount: an invoice is paid once, online or by receipts,
\* and the books follow Stripe, one refund after the other.
PaidOnceSpec == Ledger!Spec

\* Once an offline receipt is on an invoice, its link takes no money.
NoParallelCollection ==
  \A i \in Invoices : \A s \in Sessions :
    offline[i] > 0 /\ s[1] = payment[i]
      => session[s] \notin {"offered", "processing", "paid"}

\* A settled row is never reopened, a full refund never becomes a payment
\* again, a retired row stays retired, and refunds only grow.
SettledForever ==
  [][\A r \in Rows :
       /\ rowStatus[r] = "paid" => rowStatus'[r] \in {"paid", "refunded"}
       /\ rowStatus[r] \in {"refunded", "superseded"} => rowStatus'[r] = rowStatus[r]
       /\ refunded'[r] >= refunded[r]]_vars

\* Money that Stripe took is booked in the end.
PaidIsBooked == \A s \in Sessions : session[s] = "paid" ~> Settled(s[1])

\* The single link of an issued invoice keeps working for as long as the
\* invoice is open: it is retired only by an offline receipt.
LinkKeepsWorking ==
  \A i \in Invoices :
    accepted[i] /\ offline[i] = 0 => rowStatus[payment[i]] # "superseded"
=============================================================================
