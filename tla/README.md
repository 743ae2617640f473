# A verification project for the billing core of Solar Operator

Solar Operator (`src/`) runs the paperwork of small solar operators: it captures
utility bills and inverter telemetry, bills the *offtakers* who buy net-metering
credits, collects their payments through Stripe, and files NEPOOL reports. This
directory holds TLA+ modules that model the parts of it where a mistake costs
somebody money and a test hardly reaches: how an invoice is approved, frozen,
mailed once, accounted for and paid, how Stripe's events are handled, how an
operator's own subscription begins and ends, and how the harvester keeps from
locking an owner out of a portal, while several processes work and each of them
may die between any two steps.

    tlc -workers 2 -config MCEmailOutbox.cfg MCEmailOutbox    # check a run
    tlapm EmailOutboxProofs.tla                               # check the proofs

## 1. Inventory

The server is one FastAPI application (`src/api`) on one relational database. It
runs as several web processes and one background process (APScheduler and the
job worker). No component talks to another by messages: they meet in database
rows, and they talk to three services that keep state of their own, Resend
(mail), Stripe (Checkout, Connect, webhooks) and the utility portals.

| Component | State it keeps | Operations | Interaction | What is hard | What makes it correct |
|---|---|---|---|---|---|
| Email outbox, `billing/dispatch.py` | `billing_email_dispatches`: status, attempts, retry_at, receipt | `send_email_once`, `retry_due_dispatches`, `reconcile_provider_receipt` | called by deliveries, drafts, the retry job; calls Resend | crash between claim and record, late answers, four transactions per call | at most one email per key; an unknown outcome is never retried; a refused one is, in the end, unless its tenant or subscription is paused, disabled or deleted |
| Mail transport, `notify.py` | none | `_send_via_resend` | Resend | classification of an outcome as proven or not | only a proven refusal is "failed" |
| Issuance, `billing/issuance.py` | `offtaker_invoices`, the credit, number and latest-send fields of `billing_report_subscriptions` | `freeze`, `finish`, `reconcile`, `attach_payment`, `hold`, `repair_accepted_invoice` | called by delivery, backlog, audit; reads the outbox | overlapping periods, credit taken twice, acceptance applied late or twice | a month is billed once, credit is conserved, a frozen amount never changes, an acceptance is applied in the end, while the billing runs take the subscription |
| Delivery, `billing/delivery.py` | none of its own | `deliver_subscription`, `draft_subscription`, `deliver_trueup_subscription` | scheduler, approvals and manual sends call it | one obligation delivered by two callers; death between email and bookkeeping | as above |
| Backlog, `billing/backlog.py` | rows of missing periods | `queue_closed_periods`, `record_hold` | each billing run | reads that are stale when it acts | no second obligation for a month |
| Pay links, `billing/payments.py` | `offtaker_payments`, `offtaker_settlements`; Checkout Sessions at Stripe | create, mint, click, retire, five webhook effects, offline receipts | deliveries, the public link, Stripe webhooks, the operator | a crash between Stripe and the commit, idempotency keys that expire, slow bank debits, late and repeated events | one Session can take the money of a period; what Stripe took is booked; a link works while its invoice is open |
| Stripe webhook, `stripe_webhook.py` | `stripe_events`: status and `processed_at`, which dates the claim | insert, claim, dispatch, the handlers, finish or record the failure | Stripe, pay links, the outbox, operator subscriptions | events repeated, reordered, taken over after five minutes; a receipt that fails after the payment is booked | what Stripe is told is done is done; a finished event stays finished; every event is settled in the end |
| Drafts, `billing/routes.py` | `report_drafts`: status, figure | generate, edit, approve, dismiss | an operator; calls the delivery | a double click; status written over a dismissal; other deliveries of the period between the comparison of the figure and its freeze | a draft is approved by one process at a time; one marked sent was mailed and booked; the approved figure is the one sent |
| Billing scheduler, `scheduler.py` | timestamps of runs | `deliver_billing_reports`, retry job | calls the delivery and the sweep | the repetition that recovery depends on, and the subscriptions it leaves out | every due obligation of a subscription that it takes is attempted again |
| Mailroom audit, `billing/mailroom*.py` | none | findings, `repair_accepted_dispatches` | issuance | acts on an audit that is minutes old | repairs only what is proven |
| True-up, reports, reconciliation | none | arithmetic over bills | delivery | rounding, windows | agrees with its definition |
| Ledger and QuickBooks export | projections | export | reads rows | - | recomputable |
| Operator subscriptions, `onboarding.py`, `stripe_helpers.py`, `stripe_webhook.py`, `account.py` | plan, card and trial fields of `tenants`; cards and subscriptions at Stripe | trial, its hourly finalizer, add and store a card, resume, cancel, reactivate, delete; the card and subscription events | Stripe, operator's requests | no transaction spans Stripe and the row; late events; declined first charges; a job that works from old rows | one subscription; who pays has access, and loses it when payment ends; a cancelled trial costs nothing |
| Harvester, `harvester/` | credential rows: `harvest_fails`, `last_harvest_ok`, `last_harvest_at`; stored sessions; `harvest_runs`; lockout incidents | tick, harvest, record, re-arm, lockout watchdog | portals, ingest, alerts | rows of several tenants share one portal login and start together; outcomes recorded after the password was typed, or never | no row types too many wrong passwords; none is given up for ever; a pause is alerted |
| Job queue, `worker.py` | `jobs` | `run_job` | scheduler | one runner only; no recovery when it dies | a job runs once |
| Ingest and capture debt | bills, generation | upserts | extension, harvester | the same bill twice | idempotence |
| Vault, fleet and alerts, repair operations, Energy Agent, NEPOOL reports, extension and web apps | various | request handlers over single rows | - | - | not part of this plan, except alert deduplication |

`PROJECT.json` lists each component with its files, and under `hazards` every
place of this code that is hard to test, with the properties that cover it.

## 2. Modules

    OnceEmail                 what the outbox promises
      ^ implements
    EmailOutbox               dispatch.py, notify._send_via_resend, Resend
      ^    ^ EXTENDS                             proofs: EmailOutboxProofs
      |    |
      |  OutboxRetry          the retry job, and the rows it passes over
      | EXTENDS
    InvoiceIssuance           issuance.py, delivery.py, backlog.py, repair
      |    ^ EXTENDS                             proofs: InvoiceIssuanceProofs,
      |    |                                             CreditSums
      |  ApprovalDrafts       the approval inbox of routes.py
      |    ^ EXTENDS                             proofs: ApprovalDraftsProofs
      |  BillingRuns          the daily runs, and whether they take the subscription
      | implements
      v
    BillingLedger             what issuance promises the customer

    PayLink                   payments.py, its callers, Stripe Checkout
      | implements                               proofs: PayLinkProofs
      v
    PaidOnce                  what the pay links promise the customer

    WebhookClaim              stripe_webhook.py: the route, payments, refunds
      | INSTANCE                                 proofs: WebhookClaimProofs
      v
    OnceEmail                 (for the receipts)

    OperatorSubscription      onboarding.py, stripe_helpers.py, its webhooks
                                                 proofs: OperatorSubscriptionProofs

    HarvestLockout            harvester/scheduler.py, runner.py, watchdog
                                                 proofs: HarvestLockoutProofs

Each component has one MC module, which fixes the calendar, amounts or symmetry of
its instances, and one configuration for each run.

### EmailOutbox

A dispatch row is the four functions `status`, `attempts`, `due`, `receipt` of its
key; `absent` is no row. A process's place in `send_email_once` is `pc`, with
`job`, `attempt` and `result` for its local variables. One action is one
transaction or one side of the HTTP call:

| Action | Code |
|---|---|
| `Enqueue` | insert-or-ignore, read, and the early answer for a handled key (53-74) |
| `Claim`, `ClaimLost`, `ReadWinner` | after the rate gate, the conditional UPDATE; if it matched nothing, commit, refresh and answer (75-92) |
| `Transmit`, `NotTransmitted`, `Answered`, `GiveUp` | `notify._send_via_resend`: request out, no key or SDK, an answer, a timeout or a 5xx |
| `Record`, `Return` | the last transaction, unconditional (105-114) |
| `Crash` | the process dies; committed rows stay |
| `Provider`, `BecomeDue` | Resend takes or refuses a request, however late; `retry_at` passes |
| `ReconcileReceipt` | `reconcile_provider_receipt`, with the provider's confirmation as the fact that the attempt was delivered |

`fate` is the truth nobody in the system sees: what became of each transmission.
The idempotency key given to Resend is not relied on, since it expires in a day;
a second transmission counts as a second email. The rate gate appears in the fairness only.

### OutboxRetry

`retry_due_dispatches` is `Enqueue` called for a row that is due (`RetryDue`), unless
the job passes it over (dispatch.py:128-136): the tenant is missing, paused, or neither
active nor comped nor on trial; or the row is an invoice's and its subscription is missing,
deleted or disabled. `skipped` is the set of keys it passes over, and `ChangeScope`
changes it at any time. Such rows rest unsent, prepared or failed; `mailroom.py`
shows them as "Sending paused" or "Off-taker disabled; no automatic retry" (546-548).
Every step is one of EmailOutbox or changes `skipped` alone, so what is proved of
EmailOutbox holds here; the module is for liveness.

`OnceEmail` is the abstract promise: a key is unsent, unknown or accepted, and is
transmitted only when unsent. `Doubt` is in it because the code does that: a call
that lost its answer overwrites, with "uncertain", a receipt an operator
reconciled while the call ran. It never makes the key sendable again, so nothing
is lost but the operator's work.

### InvoiceIssuance and BillingLedger

One subscription; a key of the outbox is an obligation (`invoice:<id>`). Each
transaction of `issuance.py` is an action: `Freeze`/`Resume` (the lock of the
subscription row makes it atomic), `Recover` (`reconcile`), `HoldRead` and
`HoldWrite` (`hold` reads without a lock and writes by primary key: two actions),
`SendCall`, `OutboxStep` and `Finish` (the call of `send_email_once`, whose steps
are those of EmailOutbox), `Accept`, `Sweep`, `RetryDispatch`, `OperatorReceipt`,
`Repair`, `QueuePeriod`, `Die`. `task` and `target` say where each process is.
An exception out of a delivery, at any point, is `Die`: both leave committed rows
and nothing else.

`FinishLocked` is the whole of `_finish_locked`: the early return of a settled row,
the status, the bank of a true-up's credit, and the latest-send state with its two
guards. `overtaken` stands for the comparison with `last_sent_at`: a delivery that
finishes now is never overtaken by an earlier stamp; the repair stamps an old time
and may be, once something else was sent.

`BillingLedger` is the promise to the customer: bill a month once, debit credit
within the balance and once, mail what was billed, bank a settlement once after it
was mailed.

### PayLink

The payment rows of one subscription and the Checkout Sessions at Stripe. A Session
is named by its row, its generation and a copy number: the idempotency key is row
and generation, Stripe replays it for a day, and after that the same key makes a
second copy. The row lock is held between actions only in the mint, from the call
of Stripe to the commit, because there a death loses what Stripe did; every other
locked transaction is one action, at the call to Stripe that decides its outcome.
A failed call or a death is `GiveUp`: the transaction rolls back and what happened
at Stripe stays.

Webhook events are actions enabled whenever the state they report has been reached:
they may come late, again and in any order. `RefundEvent(s, n)` reports a refund
total that was true at some time.

`PaidOnce` is the promise to the customer: an invoice is paid by one payment at Stripe or
by receipts within its amount, never by both, and the books learn only of what Stripe took
and gave back. Rows, Sessions, generations and links do not occur in it.

One assumption of timing: a bank debit fails (days after its checkout) only when
no request (minutes) is in the middle of its work. Without it, a request that
sleeps for days could mint on a row whose debit failed meanwhile.

### ApprovalDrafts

`ApprovalDrafts` EXTENDS the issuance with the rows of `report_drafts` (`draft`,
`shown`) and the approvals in progress (`approves`, `phase`).

| Action | Code |
|---|---|
| `MakeDraft` | `generate_draft`, `draft_subscription`, the review of a new bill: refresh the pending draft of the period or make one, dismissing others as the caller does |
| `Dismiss` | `dismiss_draft`, of anything but a sent draft |
| `Approve` | the conditional UPDATE to "sending" |
| `Check` | the start of `deliver_subscription`: figure, then "already sent this period" |
| `FreezeDraft` | `Freeze` or `Resume` of the issuance, or the refusal by `expected_amount` |
| `DeliverDraft` | the issuance's steps from the freeze to `finish`, with what they answer |
| `Raise`, `Answer`, `Perish` | an exception, the last write of the handler, a death |
| `Elsewhere`, `SweepBy`, `Around` | everything else the issuance does, by processes that approve nothing |

`Answer` is unconditional, as the code's is: it writes over a dismissal. Several
pending drafts of one period can exist, because a claim that is released returns to
"pending" whatever was made meanwhile. The read and the write of `generate_draft`
are one step.

### BillingRuns

`deliver_billing_reports` runs daily for each cadence, and takes the subscriptions that are
enabled, not deleted and of that cadence, whose operator is active, comped or on trial
and has not paused sending (scheduler.py:556-584); of these `queue_closed_periods` sweeps
those with a creation date (backlog.py:41-43). `taken` says whether all of that is so, and
`Change` changes it at any time. A sweep may still come after a change, since a run selects
before it works. While the subscription is not taken, an acceptance that was mailed and not
booked waits for what an operator starts: a manual send, an audit's repair, a receipt.

### WebhookClaim

The row of each event (`row`, `claimant`, `stale`), the payment they are all about,
and the requests of the web processes. `Deliver`, `Insert`, `ReadRow`, `Claim`,
`Dispatch` are the route up to the handler; `BookPayment`, `BookRefund`,
`SendReceipt`, `ReceiptAnswered`, `Notified`, `Raise` are the two handlers with an
effect outside their own transaction; `Finish` and `RecordFailure` write the row only
where the claim is still their own. Around them: `Die`, `GrowStale` (five minutes
pass), and `ClickBooks` (a click on the pay link books the payment first). The
receipts use the promise of the outbox, `OnceEmail`, and none of its steps: the
outbox is proved to keep it.

### OperatorSubscription

The tenant's row, and beside it what is true at Stripe: subscriptions, cards, events
not yet handled. A call of Stripe and the commit after it are two actions (`Make` and
`Commit`; `Charge` and `Record`; `CancelTrial` and `CancelWrite`), and so are a
read and the write that rests on it (`Resume`, `CreateRead`; `Select`, and what the
hourly job does with rows it selected earlier). `SetupEvent`, `DetachEvent` and
`FeedEvent` are the webhooks.

Stripe's default is to make a subscription even if its first charge is declined: `MakeAt`
makes an "active" or an "incomplete" one. The code looks at neither the status nor the
invoice (stripe_helpers.py:398-421, scheduler.py:843-854) and records "active", with access in
the case of `Commit`. Stripe has the charge succeed later, or lets the subscription expire
after a day (`Becomes`); either is reported by an `updated` event, not by a
`deleted` one.

`mishap` is a history variable: it becomes true when a subscription was made and not
recorded, or another step overtook one being made, or the job worked from an old row.
The properties of `operator_safety` are stated for behaviours without a mishap, because
nothing in the code protects them afterwards; section 4 lists what happens there. They do not
cover those races, and `CancelledIsFree` covers only the ones with a cancellation.

### HarvestLockout

The rows of several tenants that hold the same portal login. `IsDue`, `Excused`,
`CountFor` are `_is_due` and `coordinate_account_fails`; `RunTick` takes all due rows;
`Resumes`, `LetsIn`, `Refuses`, `FindsNoForm`, `Errs` are what a harvest may meet, and
`Persist` is `_persist` with `record_health`, some time later. `Refresh` and
`SavePassword` re-arm a row; `Watchdog` opens and clears the incident; `Die` loses
what was to be recorded. `burst` counts what the portal saw: wrong passwords typed for
a row with no accepted one, re-arming or long rest between.

## 3. Runs

| Run | Question | Bounds |
|---|---|---|
| `outbox` | at most one email, retries only of proven refusals, OnceEmail is implemented, no row waits for ever that the retry job does not pass over | 2 keys, each passed over or not, 2 processes, 2 attempts |
| `invoice_safety` | months, books, a balance that is never overdrawn; frozen amounts never change, latest-send state only moves forward | January, February and the quarter that overlaps both; 2 processes, 1 attempt, credit 3 |
| `invoice_retries` | credit is conserved, BillingLedger is implemented, the latest-send state is real, where emails are refused and tried again | one invoice, one true-up; 2 processes, 2 attempts, credit 1 |
| `approval` | drafts are approved by one process at a time; a sent draft is on the books; an acceptance is applied in the end if the daily runs take the subscription from some day on | two drafts of one period, 2 processes, 1 attempt |
| `approval_figure` | finding: a figure nobody approved is sent | January and February, 1 draft, 2 processes, 1 attempt, credit 1 |
| `paylink_safety` | one collectible Session per period; money is tracked; an invoice is paid once and PaidOnce is implemented | an invoice and a true-up with one period key; 2 rows, generations 0 and 1, 2 processes |
| `paylink_live` | money Stripe took is booked | one invoice with one row, generations 0 and 1, 2 processes |
| `paylink_collision` | finding: a link dies while its invoice is open | as `paylink_safety` |
| `webhook` | acknowledged events had their effect; handlers overlap only when one is late; finished is final; every event settles | a payment and its full refund, 2 web processes, 1 receipt, 1 fault |
| `operator_safety` | one subscription; who pays has access; access ends with payment | 2 cards, 2 subscriptions, 2 processes, 1 event under way, 1 fault, until the first mishap |
| `operator_cancel` | finding: a cancelled trial is charged | 1 card, 1 subscription, 2 processes, no fault |
| `harvest_lockout` | attempts within the budget, no row given up, every pause alerted | 2 rows, limit 2, half an hour as the unit, 1 fault, 2 changes |

Why the bounds are enough to meet the interesting cases.

- The outbox treats keys independently, so two show interference where one of them is
  another process's; two processes are the most that can be on two sides of a claim,
  the second attempt is both the first retry and the last one allowed. `MaxAttempts` is 8
  in the code, and the theorems hold for any.
- In issuance the overlap of a month and a quarter, and the second period that competes
  for the credit, are in `invoice_safety` (a credit of 3 covers one invoice of 2 and
  part of the next); `invoice_retries` has the settlement that banks more credit.
- `approval` gives one process the approval and the other a second approval, a sweep,
  or a delivery of the same invoice; its two drafts are the pending and the released
  one. Credit 0 loses nothing there: the refusals that a changed figure causes are
  also what `Raise` does. `approval_figure` has the credit and the second month.
- In PayLink the two invoices have one period key and different amounts, the case in which
  a delivery retires the row of another invoice. Two rows are an obligation and what retires it; the generation bound stops
  renewal after one, which already gives a stale Session, its late event and a new one.
- In `webhook` two processes are what start.sh starts; a payment and a refund are the
  two events that meet on a payment; one fault is one death, error or refused email at
  any step. Partial refunds, events without a handler and the second receipt are covered
  by the proofs, which hold for any sets of them.
- `operator_safety`: two cards let one be removed while the other is stored, two
  subscriptions let a second one exist. Subscription events are handled in order
  (`Ordered`); an event of another subscription that overwrites the row's is a mishap.
- `harvest_lockout`: `MaxFails` is 3 in the code and 2 here, the least at which backing
  off and pausing differ; the theorems hold for any limits and cadences.

Deadlock is checked in the outbox, issuance and approval runs. In the others the system
may come to rest when everything is settled and the bounds are used up.

### Fairness

- `OutboxRetry!Fairness`. The retry job runs every minute over the due rows, oldest
  first; rows it passes over take no place among the 100 of a run. So if it has stopped
  passing over a row for good, and the row keeps being due, the row is picked up (strong
  fairness of `RetryDue`, under the condition `<>[](k \notin skipped)`). Of other
  rows nothing is assumed and nothing is shown: `EventuallyAtRest` has the same condition,
  and fails without it. Strong fairness of `Claim` stands for the rate gate, which lets
  every waiter through in turn. A process that is alive goes on, and a back-off ends. Crashes
  are not bounded, but they do not hit every attempt to claim for ever.
- `BillingRuns!RunsFairness`. If the daily runs take the subscription from some day on
  (`<>[]taken`), they sweep each of its unaccepted invoices again and again (strong
  fairness of `SweepOf`, since a process may be busy now and then; it includes that no
  other invoice's reconciliation raises in every run, which would end the sweep there).
  `AcceptanceApplied` has the same condition, and fails without it. A process that is
  about to apply an acceptance is not killed there each time; a process in an approval or
  a delivery goes on or dies.
- `PayLink!Fairness`. Stripe repeats an event until it is acknowledged as processed
  (strong fairness of `PaidEvent`, since the row may be locked now and then); a request
  goes on or is given up. Nothing is assumed of the customer, the bank, or expiry.
- `WebhookClaim!Fairness`. A request goes on unless its process dies, five minutes pass,
  and Stripe redelivers an event until it gets a 2xx answer (strong fairness of
  `Deliver` while the event is not acknowledged: a process may be busy now and then). A
  call for an unsent receipt transmits it in the end, the limit on attempts being above
  the number of faults, and an uncertain one is reconciled while Stripe still retries.
  Stripe in fact gives up some day; the run shows that the endpoint is never what keeps
  an event from settling.
- `HarvestLockout!Fairness`. `run_forever` ticks, waits for the harvests of the tick, and
  ticks again; the watchdog is a scheduled job; time passes (strong fairness, since a
  harvest may be under way now and then).

## 4. What the checks show

The runs that pass hold every property listed, and the recovery paths are live. Points
they make clear that the code does not say:

- `hold` writes by primary key over what it read earlier, so an invoice that was
  accepted meanwhile reads "held" although its acceptance was applied. It heals: the
  sweep of a subscription that the daily runs take looks at every invoice not accepted, and
  `_finish_locked` of an applied row only sets the status. `AcceptanceApplied` depends on that, and the
  mutant `SweepSkipsHeld` shows it. `CreditConserved` depends on `applied_at` rather
  than the status for the same reason.
- The approval of a draft needs no lock but its claim: whatever two approvals, a sweep
  and a manual send do to one period, `freeze` and the outbox keep it to one email, and
  "sent" is written only over an invoice that is on the books.
- A webhook that lost its claim may still finish its work and answer 200. That is sound
  because every handler's effect is repeatable and an acknowledgement follows the
  effect; `AckedIsSettled` is proved without assuming that handlers exclude each other.
- The lockout guard bounds what one row types, not what the account sees (below).

### Findings

**`paylink_collision`.** `payments._period_key` (payments.py:504-514) names a period by its last day alone.
An annual true-up whose window ends on the last day of a month therefore shares a
payment period with the invoice that ends that day. When the true-up is delivered,
`create_offtaker_payment` takes the invoice's open row for an older version of the
true-up and retires it (801-803): the customer's link of an issued, unpaid invoice
answers "not found". `resolve_pay_link` promises that "the invoice's single link keeps
working for as long as the invoice is open" (994-995).
The shared key is the only cause: `LinkKeepsWorkingApart` proves the promise, for everything
else the model does, where no two invoices have one period key. If the two ask for the same
amount they share one row instead, and one payment stands for both; that is the case which the
hypothesis of `PaidOnlyOnce` leaves out.

**`operator_cancel`.** `cancel_trial` promises "Free, one-click" (onboarding.py:895), and a
card added in a trial is to be stored only. The handler of `setup_intent.succeeded` decides
by the row's status when it runs. An operator who adds a card and cancels before that event
is handled is taken for one who reactivates (stripe_webhook.py:653), and billed. No fault is
needed. If that is repaired, the same invariant shows what else a cancellation meets: the
hourly job or a "resume" that is making a subscription while the trial is cancelled.
`QuietCancelIsFree` proves that nothing but such calls under way can charge them.

**`approval_figure`.** "The figure the operator approved is the figure that sends"
(routes.py:4457) and a difference "must refuse" (delivery.py:2461-2463). The comparison reads
outside the transaction that fixes the figure, and `freeze` returns an existing snapshot
(issuance.py:48-51) before it looks at `expected_amount` (74-75). Another delivery of the
period that freezes in between, after another month took the credit, makes the approval send
and record a figure nobody reviewed. `UndisturbedFigureSends` proves that nothing but a freeze
of that period in between does.

### Disagreements seen, without a run of their own

These were met while modelling; the models contain them, and the properties are stated so
that they do not depend on them.

- Operator subscriptions, after a `mishap`. The event of an added card and the operator's
  "resume" may each create a subscription, and a process that dies between Stripe and the
  commit leaves one that the retry creates again, although the docstring says a re-delivery
  is a no-op (stripe_webhook.py:632-633). A late `updated` event restores the id that
  `deleted` had cleared (521-523). The hourly finalizer may pause an operator who just paid,
  or charge one who deleted the account, from rows it selected earlier. The event of a
  deleted account's subscription writes "canceled" over "deleted", after which a late card
  event subscribes it again.
- `active` is to be true only if a cancellation at period end is not pending
  (stripe_webhook.py:443); `cancel_at_period_end` is not read. The finalizer's charge records
  the row as active without setting `Tenant.active`.
- "Active iff Stripe says so" (stripe_webhook.py:443) does not hold of a declined first charge.
  Both places that make a subscription take Stripe's `incomplete` answer for a success: the
  operator gets access, the alert says "resumed", and the trial's end sends an email about a charge
  (scheduler.py:871-874). `AccessIsBacked` therefore allows access on an `incomplete`
  subscription until Stripe's next report, and on no other that is unpaid.
- If that subscription then expires, the report is an `updated` event. Its handler ends the access
  but keeps the id of the dead subscription, where the handler of `deleted` clears it "so a later
  reactivation creates a fresh subscription instead of short-circuiting on `already_active`"
  (stripe_webhook.py:521-523). From then on `create_subscription_for_tenant` answers "Already has a
  live subscription" (stripe_helpers.py:323-326) to everything the operator tries.
- The harvester folds an account's counts by the worst row, "instead of each burning its own
  MAX_LOGIN_FAILS attempts" (harvester/scheduler.py:193). Rows in lockstep fail together
  each round, so N of them make N times as many attempts before the pause; only the
  budget of a row is a theorem. A wrong password followed by an error of the page is not
  counted, which is the `+ faults` of `RowBudget`.
- "Only one pending draft per subscription/period" (models.py:2112): a draft released by a
  failed approval is pending again beside one made meanwhile. A draft dismissed ("without
  sending", routes.py:4507) while it is being sent is sent, and reads "sent". A draft whose
  process died stays "sending" until it is dismissed.

## 5. Theorems

`EmailOutboxProofs` proves of `EmailOutbox`, for all keys, processes and attempt
limits: `TypeCorrect`, `ExactlyOnceEmail` (`AtMostOneDelivery`), `RetriesAreSafe`,
`AcceptanceIsEvidenced`, `ClaimsAreExclusive` (`OneHolder`, `OkMeansDelivered`),
`NoBlindRetry`, and `OutboxImplementsOnceEmail`. Assumed are only that the limit is a
positive number and that the null key is no key.

The properties are not inductive. That a retryable row is unsent says nothing of a
process that still holds the row; the invariant adds what connects the two sides:

- `Busy`: a process in a call has a key;
- `History`: attempts before a row's last were refused, those after it never started,
  so at most the last can be delivered;
- `Recorded`: the row's columns tell the truth about its last attempt;
- `Held`: a process that holds a claim holds the row's last attempt, the row is "sending"
  or was reconciled to "accepted" meanwhile, and what the process knows of the attempt is
  true;

with `OneHolder` and `OkMeansDelivered`, which belong to the induction. Each action has a
lemma of its own. The refinement maps a row to what the outbox knows of it and to the
set of its delivered transmissions; each step is a step of `OnceEmail` or a stutter.

`InvoiceIssuanceProofs` proves of `InvoiceIssuance`, for all sets of obligations and
processes, any calendar of overlapping periods, any amounts, grants and opening credit
that are natural numbers: `IssuanceTypeCorrect`, `IssuanceUsesOutbox` (every behaviour is
one of the outbox, so the theorems above hold of the invoices' emails),
`BooksFollowTheMail`, `LatestSendIsRecorded`, `NoMonthMailedTwice`, `FrozenForGood`,
`LatestSendOnlyAdvances`, and `IssuanceImplementsLedger`. The invariant adds to the
outbox's:

- `Coupled`: a process is inside `send_email_once` exactly while its task is "sending",
  on its task's obligation; an idle call holds nothing, so that a death outside the call
  is no step of the outbox;
- `Frozen`: a dispatch row, and a process at work, have a frozen obligation;
- `Disjoint`: frozen ordinary obligations bill disjoint months;
- `Evidenced`: what is accepted, applied or about to be was delivered.

`CreditIsConserved` (`CreditConserved`) adds that nothing is reserved by an obligation that is
not frozen (`CreditInv`). Its sum is a recursive function over sets of obligations, which the
provers cannot unfold to the end; `CreditSums` shows, by taking a smallest counterexample, that
a function with that recurrence over a finite set is the size of the area under the summand,
and sizes of finite sets are what the library's theorems speak of. Hence
`FiniteAssumption`: the obligations of one subscription are finitely many. `NumbersAreGapless`
(`NumbersInOrder`): the frozen invoices carry the numbers below the running one, each once and
without a gap; it speaks of a subscription whose running number nobody resets, as the model
does. `InvoicesAreMailedOnce` composes the issuance with the outbox's refinement of `OnceEmail`.

`NoMonthMailedTwice` follows from the invariant: two delivered emails with a month in common have rows,
so frozen obligations, so they are of one obligation; and the outbox delivers one attempt
of it. The lemma `FourWays` says what a step may do to the obligations (freeze, apply an
outcome, hold, nothing), and each later proof goes by its cases. The refinement maps
freezing to `Bill`, a delivery at the provider to `Mail`, and the first applied outcome to
`Settle`.

`ApprovalDraftsProofs` proves of `ApprovalDrafts`, for all drafts besides: `InboxUsesIssuance`
(every behaviour is one of the issuance, so all of the above holds with the inbox in front of
it), `InboxKeepsPromises` (so credit, months, numbers and the ledger are as above),
`ApprovalTypeCorrect`, `ApprovalsAreExclusive`, `SentDraftsAreBooked`. The invariant adds
to that of the issuance:

- `Within`: what is reserved never exceeds an invoice's gross, so a figure is not negative;
- `InHand`: a draft claimed by a process is "sending" or was dismissed, never pending, while
  the process is at it; with the condition of the claim this gives exclusion, since nothing
  but the process itself can release its draft;
- `Truthful`: a process whose delivery answered "ok" has a delivered and applied invoice that
  ends with its draft's period, by its own hand or by the guard of the latest send, which
  `LatestSendIsRecorded` ties to an applied invoice.

`UndisturbedFigureSends` (`ApprovedFigureSends`) has two hypotheses: `PeriodsEndApart`, since a
period is known to the guard of the latest send by its last day; and, as a condition on steps,
`Undisturbed`: nobody else freezes the period while the approval is between its comparison and
its own freeze. The invariant `Reviewed` carries the figure from there: a process that is past
the freeze has an invoice of the draft's figure, and what is frozen keeps it (`BilledStays`).

`WebhookClaimProofs` proves of `WebhookClaim`, for all events of all four kinds, processes,
audiences and faults: `WebhookTypeCorrect`, `NothingIsDropped` (`AckedIsSettled`),
`HandlersAreExclusive` (`NoOverlap`), `FinishedIsFinal` (`DoneForever`),
`ReceiptsUseThePromise` (the receipts behave as `OnceEmail`) and `ReceiptsFollowTheMoney` (a
receipt leaves only for money on the books, and once). What an event asks for
stays done once done (`SettledStays`); a handler is past its work only after doing it
(`Earned`); a receipt known as accepted was delivered (`Evidenced`); and a process that is not
overdue is the one whose claim the row dates (`Fresh`).

`HarvestLockoutProofs` proves of `HarvestLockout`, for all rows, limits, cadences and faults:
`LockoutTypeCorrect`, `LockoutBudget` (`RowBudget`), `PauseIsAlerted` (`PausedIsLoud`). A
budget is not inductive: the invariant adds that every wrong password is counted, about to be
counted, or lost to a fault (`Accounted`); that a row which may be about to type has room for
one more (`Spare`); and that an accepted password ends the streak (`Cleared`). The assumption
`HarvestAssumption` says that no wait between failures is longer than the pause.

`PayLinkProofs` proves of `PayLink`, for any invoices, period keys, amounts and processes and
any bounds on rows and generations, every safety property that its runs check:
`PayTypeCorrect`, `OneSessionCollects` (`OneCollectible`), `MoneyAlwaysTracked`
(`MoneyIsTracked`), `NoSecondCollection` (`NoParallelCollection`), `SettledStays`
(`SettledForever`), and beyond them `BooksAreStripes` (`BooksMatchStripe`). `PayLinkAssumption` asks only that
amounts are positive and that null is not an invoice, a process or a number. None of the
properties is inductive: that one Session can collect says nothing of the one about to be
created. The invariant says where Sessions can be:

- `Kept`: a row has no second copy of a Session (the 23 hours after which a key is not used
  again, before Stripe forgets it), nothing ahead of its generation, and nothing that could
  take money behind it or on a retired row;
- `Tracking`: a Session that the row does not track has not been given to the customer, and
  there is none that was not requested before, so a row without a request has nothing to lose;
- `OneRow`: a period has one row that was not retired, as a new one is made in the
  transaction that retires the old;
- `Locked`: only a process between Stripe's answer and its record holds a lock, of a row that
  is still to be paid, so that nothing settles or retires the row in between;
- `Books`, `GivenBack`: what the row says of payments and refunds is what Stripe has;
- `Failures`: a debit that is known to have failed is of the Session the row tracks, or of one
  it has left, so that a click never leaves a checkout whose debit is on its way;
- `Receipts`: an invoice with an offline receipt has a retired row.

`PaidOnlyOnce` is the refinement: the pay links implement `PaidOnce`, and `CustomersPayOnce`
draws from it that online and offline payments together never exceed an invoice. Both assume
`LinksApart`, that invoices of one period key differ in their amount, which the instance of
`paylink_safety` satisfies. The invariant adds that an invoice's link leads to a row made for it
(`OwnLink`), and that a Session gets out only through a link (`Clicked`, `Handed`); so money that
can still arrive is of a row that is the link of its invoice, which an offline receipt would have
retired. Every step takes, returns, books or notes money of one invoice, records a receipt, or
leaves all of that alone (`LedgerStands`). `LinkKeepsWorkingApart` assumes `PeriodsApart`
instead, and adds that a row is retired only over a receipt of its own invoice (`OwnRetired`).

`Ended` and `RowsReplaced` say once what retiring does; `MakePayment` and `RecordOffline` both
use them. In the model a new row is any unused one, not the next number, which no property
tells apart.

`OperatorSubscriptionProofs` proves of `OperatorSubscription`, for any cards, subscriptions,
processes, faults and reports under way: `OperatorTypeCorrect`, `BilledOnce`
(`OneSubscription`) and, if reports are handled in Stripe's order (`Ordered`),
`AccessStaysBacked` (`AccessIsBacked`) and `PayersHaveAccess`. The order is a hypothesis because Stripe does not
promise it; `mishap` is the other one, and belongs to the properties. The invariant adds:

- `Single`: without a mishap one process at most holds a subscription that is not recorded,
  and then the row names none, so that nothing is billed, or may yet be, but it;
- `Reported`: a subscription that is reported as ended has ended, so that handling the report
  cannot take a living one off the row;
- `LastIsTrue`: the last report of a subscription under way tells what Stripe has;
- `Agrees`: a row with no report of its subscription under way is right about it, but for
  a declined first charge that was not reported on since.

`QuietCancelIsFree` (`CancelledIsFree`) is about trials that are cancelled while no completed
Checkout waits for its event and no process is at the subscription (`Quiet`, a condition on the
step of the cancellation). From there on nothing is under way that could bill (`Gone`), until
the operator completes a Checkout or resumes.

The properties of the three runs that expect a violation are thus theorems as well, each under
a hypothesis that excludes the cause its finding names and nothing else. Those hypotheses are
met by ordinary behaviours: invoices that end on different days, approvals and cancellations
that nothing overlaps. Model checking the restricted specifications found no violation either.

Only model-checked: liveness, under fairness, throughout (`EventuallyAtRest`,
`AcceptanceApplied`, `PaidIsBooked`, `EveryEventSettles`, `NeverGivesUp`), which the prover
cannot treat. Every invariant, action property and refinement of a passing run is a theorem.
`OkMeansDelivered` (the caller that is told ok has a delivered email) is proved with
`ClaimsAreExclusive`, and `BooksMatchStripe`, `NumbersInOrder`, `NobodyPaysTwice` and
`ReceiptsAreHonest` with the theorems above; they have no run of their own.

## 6. What is not modelled, and why

- Data: rendering, attachments, amounts computed from bills, evidence snapshots.
  A snapshot is whether it exists; an amount is a constant of its obligation,
  because the code computes it before `freeze` and `freeze` fixes it.
- `EMAIL_DRY_RUN` and the staging sink of `notify.py`: not in production.
- Clock skew between processes; `retry_at` has passed or has not, a claim is five
  minutes old or is not.
- `invoice_number_next` of null, where the number is derived from the period, and the
  write of `invoice_number_start` outside the lock (a hazard without a property).
- The checks of `freeze` that only refuse (held bills, legacy evidence): the model lets
  `Freeze` happen in more states than the code.
- Rows from before the durable links (no token, no dispatch row).
- In PayLink: Connect onboarding, the platform fee, application-fee refunds,
  receipt emails, the retry with `payment_method_types`, tenants who collect offline
  (they have no payment row; `PayLinkReady` covers them in issuance).
- In ApprovalDrafts: drafts of true-ups, the edits of a pending draft (note, letter,
  attachment), test sends, dismissal with a deleted subscription.
- In WebhookClaim: signature checks, which precede any state; the handlers of accounts,
  disputes and internal alerts.
- In OperatorSubscription: prices and quantities, comped tenants, the first paid signup
  through Checkout, the AI add-on; each has one writer.
- In HarvestLockout: how a portal is logged into and scraped, what is captured, rows
  without a password or a module, the stall watchdog.
- The order in which transactions take database locks, and so deadlocks among them:
  a locked transaction is one action here, or holds one row's lock (PayLink's mint).
- The request handlers over single rows that make up most of the source (account API,
  array owners, repair operations, fleet, NEPOOL reports), its language-model assistant,
  and its user interfaces: they keep no protocol of several steps, or their behaviour is
  that of a model or a page. The share of all lines the project covers is therefore small.

## 7. Plan

Done, with proofs: EmailOutbox, OnceEmail, InvoiceIssuance, BillingLedger, PayLink, PaidOnce,
ApprovalDrafts, WebhookClaim, OperatorSubscription and HarvestLockout; for liveness OutboxRetry and BillingRuns.

1. A run of its own for the subscription that expired unpaid (section 4).
2. Operators checked against a reference: the calendar of backlog.py, the window and
   rounding of trueup.py.
3. The running invoice number with changes of `invoice_number_start` (routes.py:1462).
4. `PayLink` extended with the platform fee's refunds.
