-------------------------- MODULE InvoiceIssuance --------------------------
(***************************************************************************)
(* The issuance of the invoices of one billing subscription:               *)
(* api/billing/issuance.py, its callers in delivery.py, backlog.py and     *)
(* dispatch.py, over the email outbox of EmailOutbox.                      *)
(*                                                                         *)
(* A key is an obligation (a billing period or an annual true-up) and also *)
(* the dispatch key invoice:<id> of its email.  freeze fixes the amount of *)
(* an obligation, takes its invoice number and reserves the customer's     *)
(* credit; the email goes through the outbox; finish applies the outcome.  *)
(* These are separate transactions of processes that may die between any   *)
(* two of them, and the scheduler, an operator's approval, the outbox's    *)
(* retry, the sweep and the repair may all work on one obligation at once. *)
(*                                                                         *)
(* Amounts are in cents.  A worker whose task is "idle" runs none of this; *)
(* while it is "sending" it is inside send_email_once.                     *)
(***************************************************************************)
EXTENDS EmailOutbox, FiniteSetsExt

CONSTANTS Trueups,        \* the obligations that are annual settlements
          Months,         \* logical billing months
          Covers,         \* the months each obligation's period key names
          PeriodEnd,      \* its period_end, as a positive number
          Gross,          \* its amount before credit
          Grant,          \* the credit a true-up banks when it is accepted
          InitialCredit   \* pending_credit_usd before the first invoice

ASSUME ObligationsAssumption ==
  /\ Trueups \subseteq Keys
  /\ Covers \in [Keys -> SUBSET Months]
  /\ PeriodEnd \in [Keys -> Nat \ {0}]
ASSUME FiniteAssumption == IsFiniteSet(Keys)
ASSUME AmountsAssumption ==
  /\ Gross \in [Keys -> Nat]
  /\ Grant \in [Keys -> Nat]
  /\ InitialCredit \in Nat

VARIABLES invoice,        \* offtaker_invoices.status, "absent" without a row
          frozen,         \* .snapshot is not empty
          reserved,       \* .credit_applied_cents
          number,         \* .invoice_number, 0 before it is frozen
          applied,        \* .applied_at is set
          pendingCredit,  \* subscription.pending_credit_usd
          nextNumber,     \* .invoice_number_next
          latest,         \* the invoice last_invoice_number and amount are of
          lastPeriod,     \* .last_sent_period_end, 0 for null
          lastTrueup,     \* .last_trueup_window_end, 0 for null
          task,           \* where each process is in a delivery
          target          \* the obligation it works on

obligationVars == <<invoice, frozen, reserved, number, applied>>
subscriptionVars == <<pendingCredit, nextNumber, latest, lastPeriod, lastTrueup>>
taskVars == <<task, target>>
issuanceVars == <<obligationVars, subscriptionVars, taskVars, outboxVars>>

Ordinary == Keys \ Trueups

InvoiceStatuses == {"absent", "held", "prepared", "accepted", "uncertain", "failed"}

Tasks == {"idle", "recover", "pay", "hold", "send", "sending", "accept"}

IssuanceTypeOK ==
  /\ TypeOK
  /\ invoice \in [Keys -> InvoiceStatuses]
  /\ frozen \in [Keys -> BOOLEAN]
  /\ reserved \in [Keys -> Nat]
  /\ number \in [Keys -> Nat]
  /\ applied \in [Keys -> BOOLEAN]
  /\ pendingCredit \in Nat
  /\ nextNumber \in Nat \ {0}
  /\ latest \in Keys \cup {NoKey}
  /\ lastPeriod \in Nat
  /\ lastTrueup \in Nat
  /\ task \in [Workers -> Tasks]
  /\ target \in [Workers -> Keys \cup {NoKey}]

IssuanceInit ==
  /\ Init
  /\ invoice = [k \in Keys |-> "absent"]
  /\ frozen = [k \in Keys |-> FALSE]
  /\ reserved = [k \in Keys |-> 0]
  /\ number = [k \in Keys |-> 0]
  /\ applied = [k \in Keys |-> FALSE]
  /\ pendingCredit = InitialCredit
  /\ nextNumber = 1
  /\ latest = NoKey
  /\ lastPeriod = 0
  /\ lastTrueup = 0
  /\ task = [w \in Workers |-> "idle"]
  /\ target = [w \in Workers |-> NoKey]

Lesser(m, n) == IF m <= n THEN m ELSE n

\* Process w, idle so far, goes to a step of the delivery of k.
Begin(w, t, k) ==
  /\ task[w] = "idle"
  /\ task' = [task EXCEPT ![w] = t]
  /\ target' = [target EXCEPT ![w] = k]

Goto(w, t) ==
  /\ task' = [task EXCEPT ![w] = t]
  /\ UNCHANGED target

End(w) ==
  /\ task' = [task EXCEPT ![w] = "idle"]
  /\ target' = [target EXCEPT ![w] = NoKey]

-----------------------------------------------------------------------------
(* Freezing an obligation                                                  *)

\* The sweep finds a closed period without an invoice and queues it, without
\* a snapshot.  It looked for rows that overlap at its start, and they may
\* have appeared since, so nothing of that look is left to rely on here.
QueuePeriod(k) ==
  /\ k \in Ordinary
  /\ invoice[k] = "absent"
  /\ invoice' = [invoice EXCEPT ![k] = "held"]
  /\ UNCHANGED <<frozen, reserved, number, applied, subscriptionVars, taskVars, outboxVars>>

\* No frozen obligation bills a month of the ordinary obligation k.
Unbilled(k) ==
  k \in Ordinary => \A j \in Ordinary \ {k} : frozen[j] => Covers[j] \cap Covers[k] = {}

\* Mutation of Credit: the reservation may exceed what is pending.
CreditUnbounded(k) == IF k \in Trueups THEN 0 ELSE Gross[k]

\* The credit the obligation takes when it is frozen.
Credit(k) == IF k \in Trueups THEN 0 ELSE Lesser(Gross[k], pendingCredit)

\* The amount, the number and the credit of an obligation settled together.
FreezeRow(k) ==
  /\ invoice' = [invoice EXCEPT ![k] = "prepared"]
  /\ frozen' = [frozen EXCEPT ![k] = TRUE]
  /\ reserved' = [reserved EXCEPT ![k] = Credit(k)]
  /\ number' = [number EXCEPT ![k] = nextNumber]
  /\ pendingCredit' = pendingCredit - Credit(k)
  /\ nextNumber' = nextNumber + 1
  /\ UNCHANGED <<applied, latest, lastPeriod, lastTrueup, outboxVars>>

\* Mutation of Freeze: the months of other invoices are not compared.
FreezeOverlapping(w, k) ==
  /\ Begin(w, "recover", k)
  /\ ~frozen[k]
  /\ FreezeRow(k)

\* Mutation of Freeze: a snapshot that exists is computed and frozen again.
FreezeAgain(w, k) ==
  /\ Begin(w, "recover", k)
  /\ Unbilled(k)
  /\ FreezeRow(k)

\* freeze, under the lock of the subscription's row.  On an overlap it raises
\* and changes nothing.
Freeze(w, k) ==
  /\ Begin(w, "recover", k)
  /\ ~frozen[k]
  /\ Unbilled(k)
  /\ FreezeRow(k)

\* freeze of an obligation that has its snapshot returns what is there.
Resume(w, k) ==
  /\ Begin(w, "recover", k)
  /\ frozen[k]
  /\ UNCHANGED <<obligationVars, subscriptionVars, outboxVars>>

-----------------------------------------------------------------------------
(* Applying an outcome                                                     *)

\* Mutation of FinishLocked: a settled row is applied once more.
FinishTwice(k, r, overtaken) ==
  /\ invoice' = [invoice EXCEPT ![k] = IF r = "ok" THEN "accepted" ELSE r]
  /\ applied' = [applied EXCEPT ![k] = @ \/ r = "ok"]
  /\ pendingCredit' = pendingCredit + IF r = "ok" /\ k \in Trueups THEN Grant[k] ELSE 0
  /\ UNCHANGED <<latest, lastPeriod, lastTrueup>>

\* Mutation of FinishLocked: a recovered invoice becomes the latest send.
FinishRollsBack(k, r, overtaken) ==
  IF invoice[k] = "accepted" /\ applied[k]
  THEN UNCHANGED <<invoice, applied, pendingCredit, latest, lastPeriod, lastTrueup>>
  ELSE /\ invoice' = [invoice EXCEPT ![k] = IF r = "ok" THEN "accepted" ELSE r]
       /\ applied' = [applied EXCEPT ![k] = @ \/ r = "ok"]
       /\ pendingCredit' = pendingCredit + IF r = "ok" /\ ~applied[k] /\ k \in Trueups THEN Grant[k] ELSE 0
       /\ latest' = IF r = "ok" THEN k ELSE latest
       /\ lastPeriod' = IF r = "ok" /\ k \in Ordinary THEN PeriodEnd[k] ELSE lastPeriod
       /\ UNCHANGED lastTrueup

\* Mutation of MarkLatest: a true-up writes the monthly guard, as it once did.
MarkTrueupAsPeriod(k, overtaken) ==
  IF overtaken \/ PeriodEnd[k] < lastPeriod
  THEN UNCHANGED <<latest, lastPeriod, lastTrueup>>
  ELSE /\ latest' = k
       /\ lastPeriod' = PeriodEnd[k]
       /\ UNCHANGED lastTrueup

\* The subscription's latest-send state moves to k unless a send stamped
\* later or a later period already holds it.
MarkLatest(k, overtaken) ==
  IF overtaken \/ PeriodEnd[k] < lastPeriod
  THEN UNCHANGED <<latest, lastPeriod, lastTrueup>>
  ELSE /\ latest' = k
       /\ IF k \in Trueups
          THEN /\ lastTrueup' = IF lastTrueup < PeriodEnd[k] THEN PeriodEnd[k] ELSE lastTrueup
               /\ UNCHANGED lastPeriod
          ELSE /\ lastPeriod' = PeriodEnd[k]
               /\ UNCHANGED lastTrueup

\* _finish_locked with outcome r; "overtaken" says that last_sent_at is later
\* than the stamp of this acceptance.
FinishLocked(k, r, overtaken) ==
  IF invoice[k] = "accepted" /\ applied[k]
  THEN UNCHANGED <<invoice, applied, pendingCredit, latest, lastPeriod, lastTrueup>>
  ELSE /\ invoice' = [invoice EXCEPT ![k] = IF r = "ok" THEN "accepted" ELSE r]
       /\ IF r = "ok" /\ ~applied[k]
          THEN /\ applied' = [applied EXCEPT ![k] = TRUE]
               /\ pendingCredit' = pendingCredit + IF k \in Trueups THEN Grant[k] ELSE 0
               /\ MarkLatest(k, overtaken)
          ELSE UNCHANGED <<applied, pendingCredit, latest, lastPeriod, lastTrueup>>

\* What FinishLocked leaves alone of the invoice and the subscription.
finishFrame == <<frozen, reserved, number, nextNumber>>

-----------------------------------------------------------------------------
(* A delivery after the freeze                                             *)

\* reconcile reads the dispatch: a sent email is applied and never resent, an
\* unknown one ends the delivery, anything else goes on to the pay link.
Recover(w) ==
  /\ task[w] = "recover"
  /\ \/ status[target[w]] = "accepted" /\ Goto(w, "accept")
     \/ status[target[w]] \in {"sending", "uncertain"} /\ End(w)
     \/ status[target[w]] \in {"absent", "prepared", "failed"} /\ Goto(w, "pay")
  /\ UNCHANGED <<obligationVars, subscriptionVars, outboxVars>>

\* A pay link is minted and attached, or none is needed (no amount is owed or
\* the tenant collects offline).
PayLinkReady(w) ==
  /\ task[w] = "pay"
  /\ Goto(w, "send")
  /\ UNCHANGED <<obligationVars, subscriptionVars, outboxVars>>

\* There is an amount to collect and no link: hold reads the invoice, without
\* a lock, and writes unless it is settled or held already.
HoldRead(w) ==
  LET k == target[w] IN
  /\ task[w] = "pay"
  /\ Gross[k] > reserved[k]
  /\ IF invoice[k] \in {"accepted", "uncertain", "held"} THEN End(w) ELSE Goto(w, "hold")
  /\ UNCHANGED <<obligationVars, subscriptionVars, outboxVars>>

\* The write of hold, by primary key, over whatever the row became meanwhile.
HoldWrite(w) ==
  /\ task[w] = "hold"
  /\ invoice' = [invoice EXCEPT ![target[w]] = "held"]
  /\ End(w)
  /\ UNCHANGED <<frozen, reserved, number, applied, subscriptionVars, outboxVars>>

\* send_email_once is entered; then its steps; then finish takes its result.
SendCall(w) ==
  /\ task[w] = "send"
  /\ Enqueue(w, target[w])
  /\ Goto(w, "sending")
  /\ UNCHANGED <<obligationVars, subscriptionVars>>

OutboxStep(w) ==
  /\ task[w] = "sending"
  /\ Step(w)
  /\ UNCHANGED <<obligationVars, subscriptionVars, taskVars>>

Finish(w) ==
  /\ task[w] = "sending"
  /\ Return(w)
  /\ FinishLocked(target[w], result[w], FALSE)
  /\ End(w)
  /\ UNCHANGED finishFrame

\* finish, for a process that saw the dispatch accepted: in reconcile, or
\* after it recorded an operator's receipt.
Accept(w) ==
  /\ task[w] = "accept"
  /\ FinishLocked(target[w], "ok", FALSE)
  /\ End(w)
  /\ UNCHANGED <<finishFrame, outboxVars>>

-----------------------------------------------------------------------------
(* The other ways into an obligation                                       *)

\* retry_due_dispatches reads a batch of due rows and sends them one by one,
\* so the row may be in any state when its turn comes.
RetryDispatch(w, k) ==
  /\ status[k] # "absent"
  /\ Begin(w, "sending", k)
  /\ Enqueue(w, k)
  /\ UNCHANGED <<obligationVars, subscriptionVars>>

\* Mutation of Sweep: held invoices wait for the operator.
SweepSkipsHeld(w, k) ==
  /\ invoice[k] \notin {"absent", "accepted", "held"}
  /\ status[k] = "accepted"
  /\ Begin(w, "accept", k)
  /\ UNCHANGED <<obligationVars, subscriptionVars, outboxVars>>

\* queue_closed_periods reconciles every invoice that is not accepted.
Sweep(w, k) ==
  /\ invoice[k] \notin {"absent", "accepted"}
  /\ status[k] = "accepted"
  /\ Begin(w, "accept", k)
  /\ UNCHANGED <<obligationVars, subscriptionVars, outboxVars>>

\* reconcile_provider_receipt, up to its call of finish.
OperatorReceipt(w, k) ==
  /\ Begin(w, "accept", k)
  /\ \E a \in Attempts : ReconcileReceipt(k, a)
  /\ UNCHANGED <<obligationVars, subscriptionVars>>

\* Mutation of Repair: the outcome of the dispatch is not looked at.
RepairUnproven(k) ==
  /\ ~(invoice[k] = "accepted" /\ applied[k])
  /\ k \in Ordinary
  /\ frozen[k]
  /\ \E overtaken \in BOOLEAN : FinishLocked(k, "ok", overtaken)
  /\ UNCHANGED <<finishFrame, taskVars, outboxVars>>

\* repair_accepted_invoice: one transaction, of ordinary invoices only.  It
\* stamps the acceptance with the time the row or the dispatch was written,
\* and other invoices may have been sent since.
Repair(k) ==
  /\ status[k] = "accepted"
  /\ ~(invoice[k] = "accepted" /\ applied[k])
  /\ k \in Ordinary
  /\ frozen[k]
  /\ \E overtaken \in BOOLEAN :
       /\ overtaken => latest # NoKey
       /\ FinishLocked(k, "ok", overtaken)
  /\ UNCHANGED <<finishFrame, taskVars, outboxVars>>

\* Mutation of Die: the claim of a delivery that fails is released.
DieReleasing(w) ==
  /\ task[w] # "idle"
  /\ status' = [status EXCEPT ![target[w]] = IF @ = "sending" THEN "prepared" ELSE @]
  /\ End(w)
  /\ Forget(w)
  /\ UNCHANGED <<attempts, due, receipt, fate, obligationVars, subscriptionVars>>

\* The process dies, or an exception ends the delivery.
Die(w) ==
  /\ task[w] # "idle"
  /\ End(w)
  /\ Forget(w)
  /\ UNCHANGED <<rowVars, fate, obligationVars, subscriptionVars>>

-----------------------------------------------------------------------------
\* One step of process w; Deliver is what the scheduler, an approval and a
\* manual send have in common.
Deliver(w) == \E k \in Keys : Freeze(w, k) \/ Resume(w, k)

Work(w) ==
  \/ Recover(w) \/ PayLinkReady(w) \/ HoldRead(w) \/ HoldWrite(w)
  \/ SendCall(w) \/ OutboxStep(w) \/ Finish(w) \/ Accept(w)

\* The provider takes or refuses an email, or a back-off ends.
Outside ==
  /\ \E k \in Keys : BecomeDue(k) \/ \E a \in Attempts : Provider(k, a)
  /\ UNCHANGED <<obligationVars, subscriptionVars, taskVars>>

IssuanceNext ==
  \/ \E w \in Workers :
       \/ Deliver(w) \/ Work(w) \/ Die(w)
       \/ \E k \in Keys : RetryDispatch(w, k) \/ Sweep(w, k) \/ OperatorReceipt(w, k)
  \/ \E k \in Keys : QueuePeriod(k) \/ Repair(k)
  \/ Outside

IssuanceSpec == IssuanceInit /\ [][IssuanceNext]_issuanceVars

-----------------------------------------------------------------------------
(* Properties                                                              *)

\* Credit is neither lost nor spent twice: what is pending and what invoices
\* reserved add up to the opening balance and the banked settlements, however
\* deliveries, recoveries and repairs of several periods interleave.
CreditConserved ==
  pendingCredit + SumFunction(reserved)
    = InitialCredit + SumFunction([k \in Keys |-> IF applied[k] /\ k \in Trueups THEN Grant[k] ELSE 0])

\* No month reaches the customer on two emails, not even when the cadence
\* changes between monthly and quarterly invoices.
MonthsMailedOnce ==
  \A m \in Months :
    Cardinality({ka \in Ordinary \X Attempts :
                   m \in Covers[ka[1]] /\ fate[ka[1]][ka[2]] = "delivered"}) <= 1

\* An invoice is recorded as accepted, and its acceptance applied, only if
\* the customer's email was delivered.
AcceptedWasMailed ==
  \A k \in Keys :
    invoice[k] = "accepted" \/ applied[k]
      => \E a \in Attempts : fate[k][a] = "delivered"

\* The guard of the next period names a period that was really sent, and the
\* figures the subscription shows are of an invoice that was applied.
LatestSendIsReal ==
  /\ lastPeriod # 0 => \E k \in Ordinary : applied[k] /\ PeriodEnd[k] = lastPeriod
  /\ latest # NoKey => applied[latest]

\* Once an email may exist the obligation is frozen, and a frozen obligation
\* never changes its amount or its number.
ObligationImmutable ==
  [][\A k \in Keys :
       frozen[k] \/ status'[k] # "absent"
         => /\ frozen'[k]
            /\ frozen[k] => reserved'[k] = reserved[k] /\ number'[k] = number[k]]_issuanceVars

\* The recovery of an older invoice never rolls the latest-send state back,
\* and an applied acceptance stays applied.
NeverRolledBack ==
  [][/\ lastPeriod' >= lastPeriod
     /\ lastTrueup' >= lastTrueup
     /\ \A k \in Keys : applied[k] => applied'[k]]_issuanceVars

\* To the outbox, the issuance is one more set of callers.
OutboxSpec == Spec

\* The issuance implements the promise of BillingLedger.
billedBar == {k \in Keys : frozen[k]}
mailedBar == {k \in Keys : \E a \in Attempts : fate[k][a] = "delivered"}
settledBar == {k \in Keys : applied[k]}

Ledger == INSTANCE BillingLedger
            WITH balance <- pendingCredit, billed <- billedBar, debit <- reserved,
                 mailed <- mailedBar, settled <- settledBar

LedgerSpec == Ledger!Spec
=============================================================================
