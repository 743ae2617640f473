------------------------- MODULE WebhookClaimProofs -------------------------
(***************************************************************************)
(* Proofs about WebhookClaim for any events, processes and audiences.      *)
(*                                                                         *)
(* The argument: what an event asks for, once done, stays done (lemma      *)
(* SettledStays); a handler reaches its end only after doing it (Earned);  *)
(* and a process whose claim has not grown stale is the one the row names  *)
(* (Fresh), so only a claim in time is ever taken for one's own.  Receipts *)
(* are asked for by handlers past their booking, which is also why no      *)
(* receipt is sent for money that is not on the books.                     *)
(***************************************************************************)
EXTENDS WebhookClaim, TLAPS

\* A process in a request has an event, with a handler once it is in one.
Serving ==
  \A w \in Workers :
    /\ pc[w] # "idle" => event[w] \in Events
    /\ pc[w] \in {"handle", "notify", "finish", "fail"} => event[w] \notin OtherEvents
    /\ pc[w] = "notify" => event[w] \in PaidEvents

\* What a process has done by the place it is at.
EarnedBy(w) ==
  /\ pc[w] = "finish" => Settled(event[w])
  /\ pc[w] = "notify" =>
       /\ payment # "unpaid"
       /\ ~missed[w] => \A a \in Audiences \ todo[w] : sent[a] # {}

Earned == \A w \in Workers : EarnedBy(w)

\* A receipt known to be accepted reached its audience.
Evidenced == \A a \in Audiences : known[a] = "accepted" => sent[a] # {}

\* An event without a handler is never processed.
NeverHandled == \A e \in OtherEvents : row[e] # "processed"

\* A process in time is the one whose claim the row dates.
InTime(w) ==
  /\ claimant[event[w]] = w
  /\ \/ row[event[w]] = "processing" /\ ~stale[event[w]]
     \/ row[event[w]] = "ignored"

Fresh == \A w \in Workers : w \notin overdue /\ pc[w] \in AtWork => InTime(w)

Inv ==
  /\ Earned
  /\ Evidenced
  /\ AckedIsSettled
  /\ NeverHandled
  /\ Fresh

-----------------------------------------------------------------------------
(* Type correctness                                                        *)

LEMMA TypingInit == Init => TypeOK /\ Serving
<1> SUFFICES ASSUME Init PROVE TypeOK /\ Serving
  OBVIOUS
<1>1. Mail!TypeOK
  BY DEF Init, Mail!Init, Mail!TypeOK
<1>2. Serving
  BY DEF Init, Serving
<1>3. /\ stale \in [Events -> BOOLEAN]
      /\ payload \in BOOLEAN
      /\ missed \in [Workers -> BOOLEAN]
  BY Zenon DEF Init
<1>4. /\ row \in [Events -> RowStatuses]
      /\ claimant \in [Events -> Workers \cup {None}]
      /\ payment \in {"unpaid", "paid", "refunded"}
      /\ pc \in [Workers -> {"idle", "insert", "read", "claim"} \cup AtWork]
      /\ event \in [Workers -> Events \cup {None}]
      /\ todo \in [Workers -> SUBSET Audiences]
      /\ acked \in SUBSET Events
      /\ overdue \in SUBSET Workers
      /\ faults \in 0 .. MaxFaults
  BY WebhookAssumption DEF Init, RowStatuses
<1>5. QED
  BY <1>1, <1>2, <1>3, <1>4 DEF TypeOK

\* The end of a request leaves the requests well-formed.
LEMMA RequestTyping ==
  ASSUME TypeOK, Serving, NEW w \in Workers, NEW answered \in BOOLEAN,
         pc[w] # "idle", EndRequest(w, answered)
  PROVE  /\ pc' \in [Workers -> {"idle", "insert", "read", "claim"} \cup AtWork]
         /\ event' \in [Workers -> Events \cup {None}]
         /\ todo' \in [Workers -> SUBSET Audiences]
         /\ missed' \in [Workers -> BOOLEAN]
         /\ acked' \in SUBSET Events
         /\ overdue' \in SUBSET Workers
         /\ Serving'
<1> USE DEF TypeOK, Serving, EndRequest, Goto, AtWork
<1>1. event[w] \in Events
  OBVIOUS
<1>2. acked' \in SUBSET Events
  BY <1>1
<1>3. /\ pc' \in [Workers -> {"idle", "insert", "read", "claim"} \cup AtWork]
      /\ event' \in [Workers -> Events \cup {None}]
      /\ Serving'
  OBVIOUS
<1>4. /\ todo' \in [Workers -> SUBSET Audiences]
      /\ missed' \in [Workers -> BOOLEAN]
      /\ overdue' \in SUBSET Workers
  OBVIOUS
<1>5. QED
  BY <1>2, <1>3, <1>4

\* Every step keeps the rows, the books and the requests well-formed.
LEMMA TypingStep == TypeOK /\ Serving /\ [Next]_vars => TypeOK' /\ Serving'
<1> SUFFICES ASSUME TypeOK, Serving, [Next]_vars
             PROVE  TypeOK' /\ Serving'
  OBVIOUS
<1> USE WebhookAssumption
    DEF TypeOK, Serving, RowStatuses, AtWork, rowVars, bookVars, mailVars, workerVars,
        Goto, Mail!TypeOK
<1>1. ASSUME NEW w \in Workers, NEW e \in Events, Deliver(w, e)
      PROVE  TypeOK' /\ Serving'
  BY <1>1 DEF Deliver
<1>2. ASSUME NEW w \in Workers, NEW a \in Audiences, SendReceipt(w, a)
      PROVE  TypeOK' /\ Serving'
  BY <1>2 DEF SendReceipt, Mail!Attempt
<1>3. ASSUME NEW w \in Workers, Insert(w)
      PROVE  TypeOK' /\ Serving'
  BY <1>3 DEF Insert
<1>4. ASSUME NEW w \in Workers, ReadRow(w)
      PROVE  TypeOK' /\ Serving'
  <2>1. CASE Done(event[w])
    BY <1>4, <2>1, RequestTyping DEF ReadRow
  <2>2. CASE ~Done(event[w])
    BY <1>4, <2>2 DEF ReadRow
  <2>3. QED
    BY <2>1, <2>2
<1>5. ASSUME NEW w \in Workers, Claim(w)
      PROVE  TypeOK' /\ Serving'
  <2>1. CASE Eligible(event[w])
    <3>1. /\ row' \in [Events -> RowStatuses]
          /\ claimant' \in [Events -> Workers \cup {None}]
      BY <1>5, <2>1 DEF Claim
    <3>2. stale' = [stale EXCEPT ![event[w]] = FALSE]
      BY <1>5, <2>1 DEF Claim
    <3>3. stale' \in [Events -> BOOLEAN]
      BY <3>2, Zenon
    <3>4. /\ pc' \in [Workers -> {"idle", "insert", "read", "claim"} \cup AtWork]
          /\ Serving'
      BY <1>5, <2>1 DEF Claim
    <3>5. QED
      BY <1>5, <2>1, <3>1, <3>3, <3>4 DEF Claim
  <2>2. CASE ~Eligible(event[w])
    BY <1>5, <2>2, RequestTyping DEF Claim
  <2>3. QED
    BY <2>1, <2>2
<1>6. ASSUME NEW w \in Workers, Dispatch(w)
      PROVE  TypeOK' /\ Serving'
  <2>1. CASE event[w] \in OtherEvents
    BY <1>6, <2>1, RequestTyping DEF Dispatch
  <2>2. CASE event[w] \notin OtherEvents
    BY <1>6, <2>2 DEF Dispatch
  <2>3. QED
    BY <2>1, <2>2
<1>7. ASSUME NEW w \in Workers, BookPayment(w)
      PROVE  TypeOK' /\ Serving'
  <2>1. /\ payment' \in {"unpaid", "paid", "refunded"}
        /\ payload' \in BOOLEAN
    BY <1>7 DEF BookPayment
  <2>2. /\ pc' \in [Workers -> {"idle", "insert", "read", "claim"} \cup AtWork]
        /\ todo' \in [Workers -> SUBSET Audiences]
        /\ Serving'
    BY <1>7 DEF BookPayment, Events
  <2>3. QED
    BY <1>7, <2>1, <2>2 DEF BookPayment
<1>8. ASSUME NEW w \in Workers, BookRefund(w)
      PROVE  TypeOK' /\ Serving'
  BY <1>8 DEF BookRefund, RefundedStatus
<1>9. ASSUME NEW w \in Workers, NEW a \in Audiences, ReceiptAnswered(w, a)
      PROVE  TypeOK' /\ Serving'
  BY <1>9 DEF ReceiptAnswered
<1>10. ASSUME NEW w \in Workers, Notified(w)
       PROVE  TypeOK' /\ Serving'
  BY <1>10 DEF Notified
<1>11. ASSUME NEW w \in Workers, Finish(w)
       PROVE  TypeOK' /\ Serving'
  BY <1>11, RequestTyping DEF Finish
<1>12. ASSUME NEW w \in Workers, RecordFailure(w)
       PROVE  TypeOK' /\ Serving'
  BY <1>12, RequestTyping DEF RecordFailure
<1>13. ASSUME NEW w \in Workers, Raise(w)
       PROVE  TypeOK' /\ Serving'
  BY <1>13 DEF Raise
<1>14. ASSUME NEW w \in Workers, Die(w)
       PROVE  TypeOK' /\ Serving'
  <2>1. faults' \in 0 .. MaxFaults
    BY <1>14 DEF Die
  <2>2. pc[w] # "idle" /\ EndRequest(w, FALSE)
    BY <1>14 DEF Die
  <2>3. QED
    BY <1>14, <2>1, <2>2, RequestTyping DEF Die
<1>15. ASSUME NEW e \in Events, GrowStale(e)
       PROVE  TypeOK' /\ Serving'
  BY <1>15 DEF GrowStale
<1>16. ASSUME NEW a \in Audiences, ReceiptSettles(a) \/ ReceiptDoubted(a)
       PROVE  TypeOK' /\ Serving'
  BY <1>16 DEF ReceiptSettles, ReceiptDoubted, Mail!Confirm, Mail!Deliver, Mail!Refuse,
               Mail!Doubt
<1>17. CASE ClickBooks
  BY <1>17 DEF ClickBooks
<1>18. CASE UNCHANGED vars
  BY <1>18 DEF vars
<1>19. QED
  BY <1>1, <1>2, <1>3, <1>4, <1>5, <1>6, <1>7, <1>8, <1>9, <1>10, <1>11, <1>12,
     <1>13, <1>14, <1>15, <1>16, <1>17, <1>18 DEF Next, Work

\* The rows, the books, the receipts and the requests are always well-formed.
THEOREM WebhookTypeCorrect == Spec => []TypeOK
<1>1. Spec => [](TypeOK /\ Serving)
  BY TypingInit, TypingStep, PTL DEF Spec
<1>2. QED
  BY <1>1, PTL

-----------------------------------------------------------------------------
(* What is done stays done                                                 *)

\* The books only move forward, and a receipt that is out stays out.
LEMMA BooksAdvance ==
  ASSUME TypeOK, Serving, [Next]_vars
  PROVE  /\ payment # "unpaid" => payment' # "unpaid"
         /\ payment = "refunded" => payment' = "refunded"
         /\ \A a \in Audiences : sent[a] # {} => sent'[a] # {}
<1> USE DEF TypeOK, Mail!TypeOK, rowVars, bookVars, mailVars, workerVars
<1>1. ASSUME NEW w \in Workers, BookPayment(w)
      PROVE  payment' # "unpaid" /\ (payment = "refunded" => payment' = "refunded") /\ sent' = sent
  BY <1>1 DEF BookPayment
<1>2. ASSUME NEW w \in Workers, BookRefund(w)
      PROVE  payment' # "unpaid" /\ (payment = "refunded" => payment' = "refunded") /\ sent' = sent
  BY <1>2 DEF BookRefund, RefundedStatus
<1>3. ASSUME NEW a \in Audiences, ReceiptSettles(a)
      PROVE  payment' = payment /\ \A b \in Audiences : sent[b] # {} => sent'[b] # {}
  BY <1>3 DEF ReceiptSettles, Mail!Confirm, Mail!Deliver
<1>4. CASE ClickBooks
  BY <1>4 DEF ClickBooks
<1>5. ASSUME NEW w \in Workers,
             \/ \E e \in Events : Deliver(w, e)
             \/ \E a \in Audiences : SendReceipt(w, a) \/ ReceiptAnswered(w, a)
             \/ Insert(w) \/ ReadRow(w) \/ Claim(w) \/ Dispatch(w) \/ Notified(w)
             \/ Finish(w) \/ RecordFailure(w) \/ Raise(w) \/ Die(w)
      PROVE  payment' = payment /\ sent' = sent
  BY <1>5 DEF Deliver, SendReceipt, Mail!Attempt, ReceiptAnswered, Insert, ReadRow, Claim,
              Dispatch, Notified, Finish, RecordFailure, Raise, Die
<1>6. ASSUME \/ \E e \in Events : GrowStale(e)
             \/ \E a \in Audiences : ReceiptDoubted(a)
             \/ UNCHANGED vars
      PROVE  payment' = payment /\ sent' = sent
  BY <1>6 DEF GrowStale, ReceiptDoubted, Mail!Refuse, Mail!Doubt, vars
<1>7. QED
  BY <1>1, <1>2, <1>3, <1>4, <1>5, <1>6 DEF Next, Work

LEMMA SettledStays ==
  ASSUME TypeOK, Serving, [Next]_vars, NEW e \in Events, Settled(e)
  PROVE  Settled(e)'
  BY BooksAdvance DEF Settled, TypeOK

-----------------------------------------------------------------------------
(* Safety                                                                  *)

LEMMA InvInit == Init => Inv
  BY WebhookAssumption
  DEF Init, Inv, Earned, EarnedBy, Evidenced, AckedIsSettled, NeverHandled, Fresh, Events, AtWork,
      Mail!Init

\* The outbox tells the truth about the receipts.
LEMMA EvidencedStep ==
  ASSUME TypeOK, Serving, [Next]_vars, Evidenced
  PROVE  Evidenced'
<1> USE DEF TypeOK, Mail!TypeOK, Evidenced, mailVars
<1>1. ASSUME NEW a \in Audiences, ReceiptSettles(a)
      PROVE  Evidenced'
  BY <1>1 DEF ReceiptSettles, Mail!Confirm, Mail!Deliver
<1>2. ASSUME NEW a \in Audiences, ReceiptDoubted(a)
      PROVE  Evidenced'
  BY <1>2 DEF ReceiptDoubted, Mail!Refuse, Mail!Doubt
<1>3. ASSUME NEW w \in Workers, NEW a \in Audiences, SendReceipt(w, a)
      PROVE  Evidenced'
  BY <1>3 DEF SendReceipt, Mail!Attempt
<1>4. ASSUME NEW w \in Workers,
             \/ \E e \in Events : Deliver(w, e)
             \/ \E a \in Audiences : ReceiptAnswered(w, a)
             \/ Insert(w) \/ ReadRow(w) \/ Claim(w) \/ Dispatch(w) \/ BookPayment(w)
             \/ BookRefund(w) \/ Notified(w) \/ Finish(w) \/ RecordFailure(w) \/ Raise(w)
             \/ Die(w)
      PROVE  Evidenced'
  BY <1>4 DEF Deliver, ReceiptAnswered, Insert, ReadRow, Claim, Dispatch, BookPayment,
              BookRefund, Notified, Finish, RecordFailure, Raise, Die
<1>5. ASSUME (\E e \in Events : GrowStale(e)) \/ ClickBooks \/ UNCHANGED vars
      PROVE  Evidenced'
  BY <1>5 DEF GrowStale, ClickBooks, vars
<1>6. QED
  BY <1>1, <1>2, <1>3, <1>4, <1>5 DEF Next, Work

\* The steps of a process itself; every other step leaves its request alone.
Acts(w) ==
  \/ \E e \in Events : Deliver(w, e)
  \/ Work(w) \/ Raise(w) \/ Die(w)

Stands(w) ==
  /\ pc'[w] = pc[w] /\ event'[w] = event[w]
  /\ todo'[w] = todo[w] /\ missed'[w] = missed[w]
  /\ w \in overdue => w \in overdue'

\* A step is the process's own or leaves its request as it is.
LEMMA OthersStand ==
  ASSUME TypeOK, [Next]_vars, NEW w \in Workers
  PROVE  Acts(w) \/ Stands(w)
<1> USE DEF TypeOK, Stands, workerVars, Goto
<1>1. ASSUME NEW v \in Workers, v # w, Acts(v)
      PROVE  Stands(w)
  <2>1. ASSUME \/ \E e \in Events : Deliver(v, e)
               \/ Insert(v) \/ BookPayment(v) \/ BookRefund(v)
               \/ \E a \in Audiences : ReceiptAnswered(v, a)
               \/ Notified(v) \/ Raise(v)
        PROVE  Stands(w)
    BY <1>1, <2>1 DEF Deliver, Insert, BookPayment, BookRefund, ReceiptAnswered, Notified,
                      Raise
  <2>2. ASSUME ReadRow(v) \/ Claim(v) \/ Dispatch(v)
        PROVE  Stands(w)
    BY <1>1, <2>2 DEF ReadRow, Claim, Dispatch, EndRequest
  <2>3. ASSUME Finish(v) \/ RecordFailure(v) \/ Die(v)
        PROVE  Stands(w)
    BY <1>1, <2>3 DEF Finish, RecordFailure, Die, EndRequest
  <2>4. QED
    BY <1>1, <2>1, <2>2, <2>3 DEF Acts, Work
<1>2. ASSUME NEW v \in Workers, NEW a \in Audiences, SendReceipt(v, a)
      PROVE  Stands(w)
  BY <1>2 DEF SendReceipt
<1>3. ASSUME \/ \E e \in Events : GrowStale(e)
             \/ \E a \in Audiences : ReceiptSettles(a) \/ ReceiptDoubted(a)
             \/ ClickBooks \/ UNCHANGED vars
      PROVE  Stands(w)
  BY <1>3 DEF GrowStale, ReceiptSettles, ReceiptDoubted, ClickBooks, vars
<1>4. QED
  BY <1>1, <1>2, <1>3 DEF Next, Acts

\* A handler reaches its end only with its work done: the payment is booked
\* before a receipt is asked for, and a receipt that is not confirmed stops it.
LEMMA EarnedStep ==
  ASSUME TypeOK, Serving, [Next]_vars, Earned, Evidenced
  PROVE  Earned'
<1> SUFFICES ASSUME NEW w \in Workers PROVE EarnedBy(w)'
  BY DEF Earned
<1>1. EarnedBy(w)
  BY DEF Earned
<1>2. CASE Stands(w)
  <2>1. pc[w] = "finish" => Settled(event[w])'
    <3> SUFFICES ASSUME pc[w] = "finish" PROVE Settled(event[w])'
      OBVIOUS
    <3>1. event[w] \in Events
      BY DEF Serving
    <3>2. Settled(event[w])
      BY <1>1 DEF EarnedBy
    <3>3. \A e \in Events : Settled(e) => Settled(e)'
      BY SettledStays
    <3>4. event'[w] = event[w]
      BY <1>2 DEF Stands
    <3>5. QED
      BY <3>1, <3>2, <3>3, <3>4 DEF Settled
  <2>2. QED
    BY <1>1, <1>2, <2>1, BooksAdvance DEF Stands, EarnedBy
<1>3. ASSUME BookPayment(w)
      PROVE  EarnedBy(w)'
  <2>1. CASE payment = "refunded"
    <3>1. pc'[w] = "finish" /\ event'[w] \in PaidEvents /\ payment' = "refunded"
      BY <1>3, <2>1 DEF BookPayment, Owes, Goto, TypeOK, bookVars
    <3>2. QED
      BY <3>1 DEF EarnedBy, Settled
  <2>2. CASE payment # "refunded"
    <3>1. pc'[w] = "notify" /\ todo'[w] = Audiences /\ payment' = "paid"
      BY <1>3, <2>2 DEF BookPayment, Owes, Goto, TypeOK
    <3>2. QED
      BY <3>1 DEF EarnedBy
  <2>3. QED
    BY <2>1, <2>2
<1>4. ASSUME BookRefund(w)
      PROVE  EarnedBy(w)'
  BY <1>4 DEF BookRefund, RefundedStatus, EarnedBy, Goto, TypeOK, Settled
<1>5. ASSUME NEW a \in Audiences, ReceiptAnswered(w, a)
      PROVE  EarnedBy(w)'
  BY <1>1, <1>5 DEF ReceiptAnswered, EarnedBy, TypeOK, Evidenced, bookVars, mailVars
<1>6. ASSUME Notified(w)
      PROVE  EarnedBy(w)'
  BY <1>1, <1>6 DEF Notified, EarnedBy, TypeOK, Serving, Settled, Goto, bookVars, mailVars
<1>7. ASSUME \/ \E e \in Events : Deliver(w, e)
             \/ Insert(w) \/ ReadRow(w) \/ Claim(w) \/ Dispatch(w) \/ Raise(w)
      PROVE  EarnedBy(w)'
  BY <1>7 DEF Deliver, Insert, ReadRow, Claim, Dispatch, Raise, EndRequest, EarnedBy, Goto,
              TypeOK
<1>8. ASSUME Finish(w) \/ RecordFailure(w) \/ Die(w)
      PROVE  EarnedBy(w)'
  BY <1>8 DEF Finish, RecordFailure, Die, EndRequest, EarnedBy, Goto, TypeOK
<1>9. QED
  BY OthersStand, <1>2, <1>3, <1>4, <1>5, <1>6, <1>7, <1>8 DEF Acts, Work

\* The ways the row of an event changes.
RowStep(e) ==
  \/ UNCHANGED <<row[e], claimant[e], stale[e]>>
  \/ row[e] = "absent" /\ row'[e] = "received"
  \/ \E w \in Workers : Claim(w) /\ event[w] = e /\ Eligible(e) /\ row'[e] = "processing"
  \/ e \in OtherEvents /\ row'[e] = "ignored" /\ UNCHANGED <<claimant[e], stale[e]>>
  \/ \E w \in Workers :
       /\ event[w] = e /\ OwnClaim(w) /\ pc'[w] = "idle"
       /\ \/ pc[w] = "finish" /\ row'[e] = "processed"
          \/ pc[w] = "fail" /\ row'[e] = "error"
  \/ GrowStale(e) /\ row'[e] = row[e]

LEMMA RowSteps ==
  ASSUME TypeOK, Serving, [Next]_vars, NEW e \in Events
  PROVE  RowStep(e)
<1> USE DEF TypeOK, Serving, RowStep, rowVars, Goto
<1>1. ASSUME NEW w \in Workers, Insert(w)
      PROVE  RowStep(e)
  BY <1>1 DEF Insert
<1>2. ASSUME NEW w \in Workers, Claim(w)
      PROVE  RowStep(e)
  BY <1>2 DEF Claim
<1>3. ASSUME NEW w \in Workers, Dispatch(w)
      PROVE  RowStep(e)
  BY <1>3 DEF Dispatch
<1>4. ASSUME NEW w \in Workers, Finish(w) \/ RecordFailure(w)
      PROVE  RowStep(e)
  BY <1>4 DEF Finish, RecordFailure, EndRequest
<1>5. ASSUME NEW f \in Events, GrowStale(f)
      PROVE  RowStep(e)
  BY <1>5 DEF GrowStale
<1>6. ASSUME NEW w \in Workers,
             \/ \E f \in Events : Deliver(w, f)
             \/ \E a \in Audiences : SendReceipt(w, a) \/ ReceiptAnswered(w, a)
             \/ ReadRow(w) \/ BookPayment(w) \/ BookRefund(w) \/ Notified(w)
             \/ Raise(w) \/ Die(w)
      PROVE  RowStep(e)
  BY <1>6 DEF Deliver, SendReceipt, ReceiptAnswered, ReadRow, BookPayment, BookRefund,
              Notified, Raise, Die
<1>7. ASSUME \/ \E a \in Audiences : ReceiptSettles(a) \/ ReceiptDoubted(a)
             \/ ClickBooks \/ UNCHANGED vars
      PROVE  RowStep(e)
  BY <1>7 DEF ReceiptSettles, ReceiptDoubted, ClickBooks, vars
<1>8. QED
  BY <1>1, <1>2, <1>3, <1>4, <1>5, <1>6, <1>7 DEF Next, Work

\* A process in time keeps its claim until it ends or grows overdue: nobody
\* may take over a claim that is not stale, and nobody else finishes it.
LEMMA FreshStep ==
  ASSUME TypeOK, Serving, [Next]_vars, Fresh
  PROVE  Fresh'
<1> SUFFICES ASSUME NEW w \in Workers, w \notin overdue', pc'[w] \in AtWork
             PROVE  InTime(w)'
  BY DEF Fresh
<1>1. CASE Stands(w)
  <2> DEFINE e == event[w]
  <2>1. e \in Events /\ event'[w] = e /\ pc'[w] = pc[w] /\ pc[w] # "idle"
    BY <1>1 DEF Stands, Serving, AtWork
  <2>2. InTime(w)
    BY <1>1 DEF Stands, Fresh
  <2>3. ~Eligible(e)
    BY <2>2 DEF InTime, Eligible
  <2>4. ASSUME NEW v \in Workers, event[v] = e, OwnClaim(v)
        PROVE  v = w
    BY <2>2, <2>4 DEF InTime, OwnClaim
  <2>5. ASSUME GrowStale(e)
        PROVE  w \in overdue'
    BY <1>1, <2>1, <2>2, <2>5 DEF GrowStale, InTime, Stands
  <2>6. row[e] # "absent"
    BY <2>2 DEF InTime
  <2>7. \/ UNCHANGED <<row[e], claimant[e], stale[e]>>
        \/ row'[e] = "ignored" /\ UNCHANGED <<claimant[e], stale[e]>>
    BY <2>1, <2>3, <2>4, <2>5, <2>6, RowSteps DEF RowStep
  <2>8. QED
    BY <2>1, <2>2, <2>7 DEF InTime
<1>2. ASSUME Claim(w)
      PROVE  InTime(w)'
  <2>1. event[w] \in Events /\ Eligible(event[w])
    BY <1>2 DEF Claim, EndRequest, Goto, TypeOK, Serving, AtWork
  <2>2. QED
    BY <1>2, <2>1, Zenon DEF Claim, TypeOK, InTime
<1>3. ASSUME \/ Dispatch(w) \/ BookPayment(w) \/ BookRefund(w) \/ Notified(w) \/ Raise(w)
             \/ \E a \in Audiences : ReceiptAnswered(w, a)
      PROVE  InTime(w)'
  <2>1. UNCHANGED <<row, claimant, stale, event, overdue>> /\ pc[w] \in AtWork
    BY <1>3 DEF Dispatch, EndRequest, BookPayment, BookRefund, Notified, Raise, ReceiptAnswered,
                Goto, TypeOK, AtWork, rowVars
  <2>2. QED
    BY <2>1 DEF Fresh, InTime
<1>4. ASSUME \/ \E e \in Events : Deliver(w, e)
             \/ Insert(w) \/ ReadRow(w) \/ Finish(w) \/ RecordFailure(w) \/ Die(w)
      PROVE  FALSE
  BY <1>4 DEF Deliver, Insert, ReadRow, Finish, RecordFailure, Die, EndRequest, Goto, TypeOK,
              AtWork
<1>5. QED
  BY OthersStand, <1>1, <1>2, <1>3, <1>4 DEF Acts, Work

\* An answer is sent for an event that the row says is done, that has no
\* handler, or whose handler has earned it; the row is marked likewise.
LEMMA AckedStep ==
  ASSUME TypeOK, Serving, [Next]_vars, Earned, AckedIsSettled, NeverHandled
  PROVE  AckedIsSettled' /\ NeverHandled'
<1>1. ASSUME NEW e \in Events, e \in acked', e \notin acked
      PROVE  Settled(e)
  <2>1. PICK w \in Workers :
          /\ event[w] = e
          /\ \/ pc[w] = "read" /\ Done(e)
             \/ pc[w] = "dispatch" /\ e \in OtherEvents
             \/ pc[w] = "finish"
    <3>1. ASSUME NEW w \in Workers,
                 \/ Insert(w) \/ Claim(w) \/ BookPayment(w) \/ BookRefund(w) \/ Notified(w)
                 \/ Raise(w) \/ Die(w) \/ RecordFailure(w)
                 \/ \E f \in Events : Deliver(w, f)
                 \/ \E a \in Audiences : SendReceipt(w, a) \/ ReceiptAnswered(w, a)
          PROVE  acked' = acked
      BY <3>1 DEF Insert, Claim, BookPayment, BookRefund, Notified, Raise, Die, RecordFailure,
                  Deliver, SendReceipt, ReceiptAnswered, EndRequest
    <3>2. ASSUME \/ \E f \in Events : GrowStale(f)
                 \/ \E a \in Audiences : ReceiptSettles(a) \/ ReceiptDoubted(a)
                 \/ ClickBooks \/ UNCHANGED vars
          PROVE  acked' = acked
      BY <3>2 DEF GrowStale, ReceiptSettles, ReceiptDoubted, ClickBooks, vars
    <3>3. \E w \in Workers : ReadRow(w) \/ Dispatch(w) \/ Finish(w)
      BY <1>1, <3>1, <3>2 DEF Next, Work
    <3>4. QED
      BY <1>1, <3>3 DEF ReadRow, Dispatch, Finish, EndRequest
  <2>2. CASE pc[w] = "read" /\ Done(e)
    BY <2>2 DEF Done, AckedIsSettled
  <2>3. CASE pc[w] = "dispatch" /\ e \in OtherEvents
    BY <2>3 DEF Settled
  <2>4. CASE pc[w] = "finish"
    BY <2>1, <2>4 DEF Earned, EarnedBy
  <2>5. QED
    BY <2>1, <2>2, <2>3, <2>4
<1>2. ASSUME NEW e \in Events, Done(e)', ~Done(e)
      PROVE  Settled(e) /\ (row'[e] = "processed" => e \notin OtherEvents)
  <2>1. \/ e \in OtherEvents /\ row'[e] = "ignored"
        \/ \E w \in Workers : event[w] = e /\ pc[w] = "finish"
    BY <1>2, RowSteps DEF RowStep, Done
  <2>2. CASE e \in OtherEvents /\ row'[e] = "ignored"
    BY <2>2 DEF Settled
  <2>3. ASSUME NEW w \in Workers, event[w] = e, pc[w] = "finish"
        PROVE  Settled(e) /\ e \notin OtherEvents
    BY <2>3 DEF Earned, EarnedBy, Serving
  <2>4. QED
    BY <2>1, <2>2, <2>3
<1>3. ASSUME NEW e \in Events, e \in acked' \/ Done(e)'
      PROVE  Settled(e)'
  <2>1. Settled(e)
    BY <1>1, <1>2, <1>3 DEF AckedIsSettled, Done
  <2>2. QED
    BY <2>1, SettledStays
<1>4. ASSUME NEW e \in OtherEvents, row'[e] = "processed"
      PROVE  FALSE
  <2>1. e \in Events /\ row[e] # "processed"
    BY DEF Events, NeverHandled
  <2>2. ~Done(e) \/ row[e] = "ignored"
    BY <2>1 DEF Done
  <2>3. row[e] # "ignored"
    BY <1>4, <2>1, RowSteps DEF RowStep, Eligible, OwnClaim, GrowStale
  <2>4. QED
    BY <1>2, <1>4, <2>1, <2>2, <2>3 DEF Done
<1>5. AckedIsSettled'
  BY <1>3 DEF AckedIsSettled, Done
<1>6. QED
  BY <1>4, <1>5 DEF NeverHandled

LEMMA Invariance == Spec => [](TypeOK /\ Serving /\ Inv)
<1>1. TypeOK /\ Serving /\ Inv /\ [Next]_vars => Inv'
  BY EarnedStep, EvidencedStep, AckedStep, FreshStep DEF Inv
<1>2. QED
  BY <1>1, TypingInit, TypingStep, InvInit, PTL DEF Spec

\* An event that Stripe was told is done, or that the row says is done, is
\* done: the money is on the books and the receipts of a standing payment are
\* out.
THEOREM NothingIsDropped == Spec => []AckedIsSettled
<1>1. Inv => AckedIsSettled
  BY DEF Inv
<1>2. QED
  BY <1>1, Invariance, PTL

\* Of the processes at work on an event, at most one has not been at it for
\* more than five minutes.
THEOREM HandlersAreExclusive == Spec => []NoOverlap
<1>1. Inv => NoOverlap
  BY DEF Inv, Fresh, InTime, NoOverlap
<1>2. QED
  BY <1>1, Invariance, PTL

\* A finished event is never reopened, whatever a process that lost its claim
\* does afterwards.
THEOREM FinishedIsFinal == Spec => DoneForever
<1>1. ASSUME TypeOK, Serving, Inv, [Next]_vars, NEW e \in Events, Done(e)
      PROVE  row'[e] = row[e]
  <2>1. row[e] = "processed" => e \notin OtherEvents
    BY <1>1 DEF Inv, NeverHandled
  <2>2. QED
    BY <1>1, <2>1, RowSteps DEF RowStep, Done, Eligible, OwnClaim
<1>2. TypeOK /\ Serving /\ Inv /\ [Next]_vars => [\A e \in Events : Done(e) => row'[e] = row[e]]_vars
  BY <1>1
<1>3. QED
  BY <1>2, Invariance, PTL DEF Spec, DoneForever

-----------------------------------------------------------------------------
(* The receipts                                                            *)

\* Only these steps concern a receipt.
MailActs(a) ==
  \/ \E w \in Workers : SendReceipt(w, a)
  \/ ReceiptSettles(a) \/ ReceiptDoubted(a)

LEMMA MailFrame ==
  ASSUME [Next]_vars, \A a \in Audiences : ~MailActs(a)
  PROVE  UNCHANGED mailVars
<1>1. ASSUME NEW w \in Workers, (\E e \in Events : Deliver(w, e)) \/ Work(w)
      PROVE  UNCHANGED mailVars
  BY <1>1 DEF Work, Deliver, Insert, ReadRow, Claim, Dispatch, BookPayment, BookRefund,
              ReceiptAnswered, Notified, Finish, RecordFailure
<1>2. ASSUME \/ \E w \in Workers : Raise(w) \/ Die(w)
             \/ \E e \in Events : GrowStale(e)
             \/ ClickBooks \/ UNCHANGED vars
      PROVE  UNCHANGED mailVars
  BY <1>2 DEF Raise, Die, GrowStale, ClickBooks, vars
<1>3. QED
  BY <1>1, <1>2 DEF Next, MailActs

LEMMA MailStep == [Next]_vars => [Mail!Next]_<<known, sent>>
<1> SUFFICES ASSUME [Next]_vars PROVE Mail!Next \/ UNCHANGED mailVars
  BY DEF mailVars
<1>1. ASSUME NEW a \in Audiences, MailActs(a)
      PROVE  Mail!Next
  BY <1>1 DEF MailActs, SendReceipt, ReceiptSettles, ReceiptDoubted, Mail!Next
<1>2. QED
  BY <1>1, MailFrame

\* Whatever the events and the processes that handle them do, the receipts of a
\* payment behave as the outbox promises: the handlers ask for nothing else.
THEOREM ReceiptsUseThePromise == Spec => Mail!Spec
<1>1. Init => Mail!Init
  BY DEF Init
<1>2. QED
  BY <1>1, MailStep, PTL DEF Spec, Mail!Spec, Mail!vars

\* A receipt is on its way, or out, only for money that is on the books
\* (mark_payment_paid commits before its caller notifies anybody), and it
\* reaches its audience once, however many events, retries and processes
\* take part.
ReceiptsAreHonest ==
  \A a \in Audiences :
    /\ known[a] # "unsent" \/ sent[a] # {} => payment # "unpaid"
    /\ \A t, u \in sent[a] : t = u

LEMMA HonestStep ==
  ASSUME TypeOK, Serving, Earned, [Next]_vars, ReceiptsAreHonest
  PROVE  ReceiptsAreHonest'
<1> USE DEF TypeOK, Mail!TypeOK
<1> SUFFICES ASSUME NEW a \in Audiences
             PROVE  /\ known'[a] # "unsent" \/ sent'[a] # {} => payment' # "unpaid"
                    /\ \A t, u \in sent'[a] : t = u
  BY DEF ReceiptsAreHonest
<1>1. payment # "unpaid" => payment' # "unpaid"
  BY BooksAdvance
<1>2. ASSUME NEW b \in Audiences, b # a, MailActs(b)
      PROVE  UNCHANGED <<known[a], sent[a]>>
  BY <1>2 DEF MailActs, SendReceipt, ReceiptSettles, ReceiptDoubted, Mail!Attempt, Mail!Confirm,
              Mail!Deliver, Mail!Refuse, Mail!Doubt
<1>3. ASSUME NEW w \in Workers, SendReceipt(w, a)
      PROVE  payment # "unpaid" /\ sent'[a] = sent[a]
  BY <1>3 DEF SendReceipt, Earned, EarnedBy, Mail!Attempt
<1>4. ASSUME ReceiptSettles(a) \/ ReceiptDoubted(a)
      PROVE  /\ known[a] # "unsent" \/ sent[a] # {}
             /\ \/ sent'[a] = sent[a]
                \/ \E t \in Transmissions : sent'[a] = {t}
  BY <1>4 DEF ReceiptSettles, ReceiptDoubted, Mail!Confirm, Mail!Deliver, Mail!Refuse, Mail!Doubt
<1>5. CASE \A b \in Audiences : ~MailActs(b)
  BY <1>5, <1>1, MailFrame DEF ReceiptsAreHonest, mailVars
<1>6. QED
  BY <1>1, <1>2, <1>3, <1>4, <1>5 DEF ReceiptsAreHonest, MailActs

THEOREM ReceiptsFollowTheMoney == Spec => []ReceiptsAreHonest
<1>1. Init => ReceiptsAreHonest
  BY DEF Init, Mail!Init, ReceiptsAreHonest
<1>2. TypeOK /\ Serving /\ Inv /\ ReceiptsAreHonest /\ [Next]_vars => ReceiptsAreHonest'
  BY HonestStep DEF Inv
<1>3. QED
  BY <1>1, <1>2, Invariance, PTL DEF Spec
=============================================================================
