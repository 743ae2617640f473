--------------------------- MODULE PayLinkProofs ---------------------------
(***************************************************************************)
(* Proofs about PayLink for any invoices, period keys, amounts and number  *)
(* of processes, and any bounds on rows and generations.                   *)
(*                                                                         *)
(* The argument: of all Sessions of a row only the first copy of the       *)
(* current generation can take money (Kept), while the row is neither      *)
(* retired nor without a request for it; the customer gets it only after   *)
(* the row tracks it (Tracking); and a period has one row that was not     *)
(* retired (OneRow).                                                       *)
(*                                                                         *)
(* That an invoice is paid once, PaidOnce, also needs that its link leads  *)
(* to a row made for it (OwnLink), which the period key decides, and that  *)
(* nobody gets a Session but through a link (Clicked, Handed).             *)
(***************************************************************************)
EXTENDS PayLink, TLAPS

Dead == {"none", "expired", "failed"}

\* The Session that row r has or will have next, whether tracked or not.
First(r) == <<r, generation[r], 1>>

\* What a process needs at the place where it is.
Places ==
  \A w \in Workers :
    /\ pc[w] = "idle" => serves[w] = None
    /\ pc[w] \in {"create", "attach", "send"} => serves[w] \in Invoices
    /\ pc[w] \notin {"idle", "create"} => row[w] \in Rows /\ madeFor[row[w]] \in Invoices
    /\ pc[w] = "send" => payment[serves[w]] = row[w]

\* Only a process that is to store a Session holds a lock, of a row that is
\* still to be paid.
Locked ==
  \A w \in Workers :
    /\ \A r \in Rows : lock[r] = w <=> pc[w] = "store" /\ row[w] = r
    /\ pc[w] = "store" => Collectible(row[w])

\* Rows exist from the time they are made for an invoice.
Made ==
  \A r \in Rows :
    /\ madeFor[r] = None <=> rowStatus[r] = "absent"
    /\ rowStatus[r] = "absent" =>
         \A g \in 0 .. MaxGen : session[<<r, g, 1>>] = "none"

\* A period has one row that was not retired.
OneRow ==
  \A q, r \in Rows :
    /\ rowStatus[q] \notin {"absent", "superseded"}
    /\ rowStatus[r] \notin {"absent", "superseded"}
    /\ PeriodKey[madeFor[q]] = PeriodKey[madeFor[r]]
    => q = r

\* No second copies, nothing ahead of the generation, and nothing left behind
\* it, or on a retired row, that could take money.
Kept ==
  \A r \in Rows : \A g \in 0 .. MaxGen :
    /\ session[<<r, g, 2>>] = "none"
    /\ g > generation[r] => session[<<r, g, 1>>] = "none"
    /\ g < generation[r] \/ rowStatus[r] = "superseded" => session[<<r, g, 1>>] \in Dead

\* What the row knows of its Session.
Tracking ==
  \A r \in Rows :
    /\ tracked[r] \in {0, 1}
    /\ tracked[r] = 0 => session[First(r)] \in {"none", "open", "expired"}
    /\ ~requested[r] => session[First(r)] = "none"

\* What the books say of it.
Books ==
  \A r \in Rows :
    /\ Settled(r) => tracked[r] = 1 /\ session[First(r)] = "paid"
    /\ refunded[r] > 0 => Settled(r)
    /\ refunded[r] <= returned[First(r)]
    /\ rowStatus[r] = "refunded" => refunded[r] = 2

GivenBack == \A s \in Sessions : returned[s] > 0 => session[s] = "paid"

\* A row that is known to have failed has left the Session or still tracks it.
KnownFailed ==
  \A r \in Rows : rowStatus[r] = "failed" =>
    /\ \E g \in 0 .. MaxGen : session[<<r, g, 1>>] = "failed"
    /\ tracked[r] = 1 => session[First(r)] = "failed"

\* A debit fails when nobody works, so no delivery is minting on its row.
Minting ==
  \A w \in Workers : pc[w] \in {"request", "session", "store"} /\ serves[w] # None =>
    \A g \in 0 .. MaxGen : session[<<row[w], g, 1>>] # "failed"

Failures == KnownFailed /\ Minting

\* What the invoices say.
Receipts ==
  \A i \in Invoices :
    /\ payment[i] # None => madeFor[payment[i]] \in Invoices
    /\ accepted[i] => payment[i] \in Rows
    /\ offline[i] > 0 => payment[i] \in Rows /\ rowStatus[payment[i]] = "superseded"

IInv ==
  /\ TypeOK
  /\ Places
  /\ Locked
  /\ Made
  /\ OneRow
  /\ Kept
  /\ Tracking
  /\ Books
  /\ GivenBack
  /\ Failures
  /\ Receipts

-----------------------------------------------------------------------------
(* Sessions by their parts                                                 *)

LEMMA Parts ==
  /\ \A r \in Rows : \A g \in 0 .. MaxGen : \A c \in {1, 2} : <<r, g, c>> \in Sessions
  /\ \A s \in Sessions : /\ s[1] \in Rows /\ s[2] \in 0 .. MaxGen /\ s[3] \in {1, 2}
                         /\ s = <<s[1], s[2], s[3]>>
BY DEF Sessions

LEMMA InitHolds == Init => IInv
<1> SUFFICES ASSUME Init PROVE IInv
  OBVIOUS
<1>1. TypeOK
  BY PayLinkAssumption, SMT DEF Init, TypeOK, RowStatuses, SessionStates
<1>2. Places /\ Locked /\ Made /\ OneRow
  BY Parts, PayLinkAssumption DEF Init, Places, Locked, Made, OneRow
<1>3. \A r \in Rows : First(r) \in Sessions /\ session[First(r)] = "none" /\ returned[First(r)] = 0
  <2>1. 0 \in 0 .. MaxGen
    BY PayLinkAssumption
  <2>2. QED
    BY <2>1, Parts DEF Init, First
<1>4. Kept /\ Tracking
  BY <1>3, Parts DEF Init, Kept, Tracking, Dead
<1>5. Books /\ GivenBack
  BY <1>3 DEF Init, Books, GivenBack, Settled
<1>6. Failures /\ Receipts
  BY Parts, PayLinkAssumption DEF Init, Failures, KnownFailed, Minting, Receipts
<1>7. QED
  BY <1>1, <1>2, <1>4, <1>5, <1>6 DEF IInv

LEMMA DeliverKeeps ==
  ASSUME IInv, NEW w \in Workers, NEW i \in Invoices, Deliver(w, i) PROVE IInv'
<1>1. TypeOK'
  BY DEF IInv, Deliver, TypeOK, rowVars, stripeVars, invoiceVars
<1>2. Places' /\ Locked'
  BY DEF IInv, Deliver, TypeOK, rowVars, stripeVars, invoiceVars, Places, Locked, Collectible
<1>3. Made' /\ OneRow' /\ Kept' /\ Tracking' /\ Books' /\ GivenBack' /\ Failures' /\ Receipts'
  BY
     DEF IInv, Deliver, TypeOK, rowVars, stripeVars, invoiceVars, Made, OneRow, Kept, Tracking,
         Books, GivenBack, Failures, KnownFailed, Minting, Receipts, First, Settled
<1>4. QED
  BY <1>1, <1>2, <1>3 DEF IInv

-----------------------------------------------------------------------------
(* Steps that only write the books: clicks on a paid Session and webhooks  *)

\* The status of a row that is neither retired nor locked changes.
LEMMA StatusChanges ==
  ASSUME IInv, NEW r \in Rows, lock[r] = None, rowStatus[r] \notin {"absent", "superseded"},
         NEW st \in RowStatuses \ {"absent", "superseded"},
         rowStatus' = [rowStatus EXCEPT ![r] = st], refunded' \in [Rows -> 0 .. 2],
         UNCHANGED <<madeFor, generation, requested, aged, tracked, lock,
                     stripeVars, invoiceVars, callVars>>
  PROVE  /\ TypeOK' /\ Places' /\ Locked' /\ Made' /\ OneRow'
         /\ Kept' /\ Tracking' /\ GivenBack' /\ Receipts'
<1> USE DEF stripeVars, invoiceVars, callVars
<1>1. \A q \in Rows : rowStatus'[q] = IF q = r THEN st ELSE rowStatus[q]
  BY DEF IInv, TypeOK
<1>2. TypeOK'
  BY DEF IInv, TypeOK
<1>3. Places'
  BY DEF IInv, Places
<1>4. Locked'
  <2> SUFFICES ASSUME NEW w \in Workers
               PROVE  /\ \A q \in Rows : lock'[q] = w <=> pc'[w] = "store" /\ row'[w] = q
                      /\ pc'[w] = "store" => Collectible(row[w])'
    BY DEF Locked
  <2>1. \A q \in Rows : lock[q] = w <=> pc[w] = "store" /\ row[w] = q
    BY DEF IInv, Locked
  <2>2. pc[w] = "store" => row[w] # r /\ row[w] \in Rows /\ Collectible(row[w])
    BY <2>1, PayLinkAssumption DEF IInv, Locked, Places
  <2>3. QED
    BY <2>1, <2>2, <1>1 DEF Collectible
<1>5. Made'
  BY <1>1 DEF IInv, Made
<1>6. OneRow'
  BY <1>1 DEF IInv, OneRow
<1>7. Kept' /\ Tracking'
  BY <1>1 DEF IInv, Kept, Tracking, First
<1>8. GivenBack' /\ Receipts'
  BY <1>1 DEF IInv, GivenBack, Receipts
<1>9. QED
  BY <1>2, <1>3, <1>4, <1>5, <1>6, <1>7, <1>8

\* Books and failures where the row has the money.
LEMMA MoneyBooked ==
  ASSUME IInv, NEW r \in Rows, session[First(r)] = "paid", tracked[r] = 1,
         NEW st \in {"paid", "refunded"}, NEW n \in 0 .. 2,
         rowStatus' = [rowStatus EXCEPT ![r] = st], refunded' = [refunded EXCEPT ![r] = n],
         n <= returned[First(r)], st = "refunded" => n = 2,
         UNCHANGED <<madeFor, generation, requested, aged, tracked, lock,
                     stripeVars, invoiceVars, callVars>>
  PROVE  Books' /\ Failures'
<1> USE DEF stripeVars, invoiceVars, callVars
<1>1. \A q \in Rows : /\ rowStatus'[q] = IF q = r THEN st ELSE rowStatus[q]
                      /\ refunded'[q] = IF q = r THEN n ELSE refunded[q]
  BY DEF IInv, TypeOK
<1>2. Books'
  BY <1>1 DEF IInv, Books, First, Settled
<1>3. Failures'
  BY <1>1 DEF IInv, Failures, KnownFailed, Minting, First
<1>4. QED
  BY <1>2, <1>3

\* A Session that Stripe has money of is the one its row tracks.
LEMMA PaidIsTracked ==
  ASSUME IInv, NEW s \in Sessions, session[s] \in {"offered", "processing", "paid"}
  PROVE  /\ s[1] \in Rows /\ s = First(s[1]) /\ s = Current(s[1]) /\ tracked[s[1]] = 1
         /\ rowStatus[s[1]] \notin {"absent", "superseded"}
<1> DEFINE r == s[1]
<1>1. r \in Rows /\ s[2] \in 0 .. MaxGen /\ s[3] \in {1, 2} /\ s = <<r, s[2], s[3]>>
  BY Parts
<1>2. s[3] = 1
  BY <1>1 DEF IInv, Kept
<1>3. s[2] = generation[r]
  <2>1. generation[r] \in 0 .. MaxGen
    BY <1>1 DEF IInv, TypeOK
  <2>2. ~(s[2] > generation[r]) /\ ~(s[2] < generation[r])
    BY <1>1, <1>2 DEF IInv, Kept, Dead
  <2>3. QED
    BY <1>1, <2>1, <2>2, PayLinkAssumption
<1>4. rowStatus[r] \notin {"absent", "superseded"}
  BY <1>1, <1>2 DEF IInv, Kept, Made, Dead
<1>5. tracked[r] = 1
  BY <1>1, <1>2, <1>3 DEF IInv, Tracking, First
<1>6. QED
  BY <1>1, <1>2, <1>3, <1>4, <1>5 DEF First, Current

LEMMA PaidEventKeeps ==
  ASSUME IInv, NEW s \in Sessions, PaidEvent(s) PROVE IInv'
<1> DEFINE r == s[1]
<1>1. /\ r \in Rows /\ s = First(r) /\ tracked[r] = 1 /\ s[3] = 1
      /\ rowStatus[r] \notin {"absent", "superseded"}
  BY PaidIsTracked DEF PaidEvent, First
<1>2. /\ lock[r] = None /\ session[First(r)] = "paid" /\ rowStatus[r] # "refunded"
      /\ rowStatus' = [rowStatus EXCEPT ![r] = "paid"]
      /\ tracked' = tracked
      /\ UNCHANGED <<madeFor, generation, requested, aged, refunded, lock,
                     stripeVars, invoiceVars, callVars>>
  BY <1>1 DEF PaidEvent, IInv, TypeOK
<1>3. refunded[r] \in 0 .. 2 /\ refunded' = [refunded EXCEPT ![r] = refunded[r]]
  BY <1>1, <1>2 DEF IInv, TypeOK
<1>4. refunded[r] <= returned[First(r)]
  BY <1>1 DEF IInv, Books
<1>5. Books' /\ Failures'
  BY <1>1, <1>2, <1>3, <1>4, MoneyBooked
<1>6. refunded' \in [Rows -> 0 .. 2]
  BY <1>2 DEF IInv, TypeOK
<1>7. QED
  BY <1>1, <1>2, <1>5, <1>6, StatusChanges DEF IInv, RowStatuses

LEMMA ClickPaidKeeps ==
  ASSUME IInv, NEW r \in Rows, ClickPaid(r) PROVE IInv'
<1>1. /\ lock[r] = None /\ rowStatus[r] \notin {"absent", "superseded"}
      /\ tracked[r] = 1 /\ session[First(r)] = "paid"
  BY DEF ClickPaid, Clickable, IInv, Tracking, Current, First
<1>2. /\ rowStatus' = [rowStatus EXCEPT ![r] = "paid"]
      /\ UNCHANGED <<madeFor, generation, requested, aged, tracked, refunded, lock,
                     stripeVars, invoiceVars, callVars>>
  BY DEF ClickPaid
<1>3. refunded[r] \in 0 .. 2 /\ refunded' = [refunded EXCEPT ![r] = refunded[r]]
  BY <1>2 DEF IInv, TypeOK
<1>4. refunded[r] <= returned[First(r)]
  BY DEF IInv, Books
<1>5. Books' /\ Failures'
  BY <1>1, <1>2, <1>3, <1>4, MoneyBooked
<1>6. refunded' \in [Rows -> 0 .. 2]
  BY <1>2 DEF IInv, TypeOK
<1>7. QED
  BY <1>1, <1>2, <1>5, <1>6, StatusChanges DEF IInv, RowStatuses

LEMMA RefundEventKeeps ==
  ASSUME IInv, NEW s \in Sessions, NEW n \in 1 .. 2, RefundEvent(s, n) PROVE IInv'
<1> DEFINE r == s[1]
           total == Greater(refunded[r], n)
           st == IF total = 2 THEN "refunded" ELSE "paid"
<1>1. returned[s] \in 0 .. 2 /\ n <= returned[s]
  BY DEF RefundEvent, IInv, TypeOK
<1>2. session[s] = "paid"
  BY <1>1 DEF IInv, GivenBack
<1>3. /\ r \in Rows /\ s = First(r) /\ tracked[r] = 1
      /\ rowStatus[r] \notin {"absent", "superseded"}
  BY <1>2, PaidIsTracked
<1>4. refunded[r] \in 0 .. 2 /\ refunded[r] <= returned[s]
  BY <1>3 DEF IInv, TypeOK, Books
<1>5. total \in 0 .. 2 /\ total <= returned[s]
  BY <1>1, <1>4 DEF Greater
<1>6. /\ lock[r] = None
      /\ refunded' = [refunded EXCEPT ![r] = total]
      /\ rowStatus' = [rowStatus EXCEPT ![r] = st]
      /\ UNCHANGED <<madeFor, generation, requested, aged, tracked, lock,
                     stripeVars, invoiceVars, callVars>>
  BY DEF RefundEvent
<1>7. st \in {"paid", "refunded"} /\ (st = "refunded" => total = 2)
  OBVIOUS
<1> HIDE DEF total, st
<1>8. Books' /\ Failures'
  BY <1>2, <1>3, <1>5, <1>6, <1>7, MoneyBooked
<1>9. refunded' \in [Rows -> 0 .. 2]
  BY <1>5, <1>6 DEF IInv, TypeOK
<1>10. st \in RowStatuses \ {"absent", "superseded"}
  BY <1>7 DEF RowStatuses
<1>11. QED
  BY <1>3, <1>6, <1>8, <1>9, <1>10, StatusChanges DEF IInv

LEMMA ExpiredEventKeeps ==
  ASSUME IInv, NEW s \in Sessions, ExpiredEvent(s) PROVE IInv'
<1> DEFINE r == s[1]
<1>1. r \in Rows
  BY Parts
<1>2. /\ lock[r] = None /\ rowStatus[r] = "open"
      /\ rowStatus' = [rowStatus EXCEPT ![r] = "expired"]
      /\ UNCHANGED <<madeFor, generation, requested, aged, tracked, refunded, lock,
                     stripeVars, invoiceVars, callVars>>
  BY DEF ExpiredEvent
<1> HIDE DEF r
<1>3. \A q \in Rows : rowStatus'[q] = IF q = r THEN "expired" ELSE rowStatus[q]
  BY <1>1, <1>2 DEF IInv, TypeOK
<1>4. Books'
  BY <1>1, <1>2, <1>3 DEF IInv, Books, First, Settled, stripeVars, invoiceVars, callVars
<1>5. Failures'
  BY <1>1, <1>2, <1>3
     DEF IInv, Failures, KnownFailed, Minting, First, stripeVars, invoiceVars, callVars
<1>6. refunded' \in [Rows -> 0 .. 2]
  BY <1>2 DEF IInv, TypeOK
<1>7. QED
  BY <1>1, <1>2, <1>4, <1>5, <1>6, StatusChanges DEF IInv, RowStatuses

LEMMA FailedEventKeeps ==
  ASSUME IInv, NEW s \in Sessions, FailedEvent(s) PROVE IInv'
<1> DEFINE r == s[1]
<1>1. r \in Rows /\ s[2] \in 0 .. MaxGen /\ s[3] \in {1, 2} /\ s = <<r, s[2], s[3]>>
  BY Parts
<1>2. /\ lock[r] = None /\ Collectible(r) /\ session[s] = "failed" /\ s = Current(r)
      /\ rowStatus' = [rowStatus EXCEPT ![r] = "failed"]
      /\ UNCHANGED <<madeFor, generation, requested, aged, tracked, refunded, lock,
                     stripeVars, invoiceVars, callVars>>
  BY DEF FailedEvent
<1> HIDE DEF r
<1>3. tracked[r] = 1 /\ s = First(r) /\ generation[r] \in 0 .. MaxGen
  BY <1>1, <1>2 DEF IInv, Kept, Current, First, Tracking, TypeOK
<1>4. rowStatus[r] \notin {"absent", "superseded"}
  BY <1>1, <1>2, <1>3 DEF IInv, Made, Collectible, First
<1>5. \A q \in Rows : rowStatus'[q] = IF q = r THEN "failed" ELSE rowStatus[q]
  BY <1>1, <1>2 DEF IInv, TypeOK
<1>6. Books'
  BY <1>1, <1>2, <1>5
     DEF IInv, Books, First, Settled, Collectible, stripeVars, invoiceVars, callVars
<1>7. Failures'
  BY <1>1, <1>2, <1>3, <1>5
     DEF IInv, Failures, KnownFailed, Minting, First, stripeVars, invoiceVars, callVars
<1>8. refunded' \in [Rows -> 0 .. 2]
  BY <1>2 DEF IInv, TypeOK
<1>9. QED
  BY <1>1, <1>2, <1>4, <1>6, <1>7, <1>8, StatusChanges DEF IInv, RowStatuses

-----------------------------------------------------------------------------
(* Steps at Stripe                                                         *)

\* A Session that is alive is the first copy of the current generation, of a
\* row that was not retired.
LEMMA AliveIsFirst ==
  ASSUME IInv, NEW s \in Sessions, session[s] \notin Dead
  PROVE  s[1] \in Rows /\ s = First(s[1]) /\ rowStatus[s[1]] \notin {"absent", "superseded"}
<1> DEFINE r == s[1]
<1>1. r \in Rows /\ s[2] \in 0 .. MaxGen /\ s[3] \in {1, 2} /\ s = <<r, s[2], s[3]>>
  BY Parts
<1>2. s[3] = 1
  BY <1>1 DEF IInv, Kept, Dead
<1>3. s[2] = generation[r]
  <2>1. generation[r] \in 0 .. MaxGen
    BY <1>1 DEF IInv, TypeOK
  <2>2. ~(s[2] > generation[r]) /\ ~(s[2] < generation[r])
    BY <1>1, <1>2 DEF IInv, Kept, Dead
  <2>3. QED
    BY <1>1, <2>1, <2>2, PayLinkAssumption
<1>4. rowStatus[r] \notin {"absent", "superseded"}
  <2>1. s = <<r, s[2], 1>>
    BY <1>1, <1>2
  <2>2. rowStatus[r] # "superseded"
    BY <1>1, <2>1 DEF IInv, Kept
  <2>3. rowStatus[r] # "absent"
    <3>1. rowStatus[r] = "absent" => session[<<r, s[2], 1>>] = "none"
      BY <1>1 DEF IInv, Made
    <3>2. QED
      BY <2>1, <3>1 DEF Dead
  <2>4. QED
    BY <2>2, <2>3
<1>5. QED
  BY <1>1, <1>2, <1>3, <1>4 DEF First

\* Such a Session, not yet paid, moves on.
LEMMA SessionMoves ==
  ASSUME IInv, NEW r \in Rows, session[First(r)] \in {"open", "offered", "processing"},
         NEW st \in SessionStates \ {"none"},
         session' = [session EXCEPT ![First(r)] = st],
         tracked[r] = 1 \/ st \in {"open", "expired"},
         st = "failed" => \A w \in Workers : pc[w] = "idle",
         UNCHANGED <<rowVars, lock, returned, invoiceVars, callVars>>
  PROVE  IInv'
<1> USE DEF rowVars, invoiceVars, callVars
<1>1. First(r) \in Sessions /\ generation[r] \in 0 .. MaxGen
  BY Parts DEF IInv, TypeOK, First
<1>2. \A s \in Sessions : session'[s] = IF s = First(r) THEN st ELSE session[s]
  BY <1>1 DEF IInv, TypeOK
<1>3. \A q \in Rows : \A g \in 0 .. MaxGen :
        /\ session'[<<q, g, 2>>] = session[<<q, g, 2>>]
        /\ session'[<<q, g, 1>>] =
             IF q = r /\ g = generation[r] THEN st ELSE session[<<q, g, 1>>]
  <2> SUFFICES ASSUME NEW q \in Rows, NEW g \in 0 .. MaxGen
               PROVE  /\ session'[<<q, g, 2>>] = session[<<q, g, 2>>]
                      /\ session'[<<q, g, 1>>] =
                           IF q = r /\ g = generation[r] THEN st ELSE session[<<q, g, 1>>]
    OBVIOUS
  <2>1. <<q, g, 1>> \in Sessions /\ <<q, g, 2>> \in Sessions
    BY Parts
  <2>2. <<q, g, 2>> # First(r) /\ (<<q, g, 1>> = First(r) <=> q = r /\ g = generation[r])
    BY DEF First
  <2>3. QED
    BY <1>2, <2>1, <2>2
<1>4. \A q \in Rows : /\ First(q)' = First(q)
                      /\ session'[First(q)] = IF q = r THEN st ELSE session[First(q)]
  BY <1>3 DEF First, IInv, TypeOK
<1>5. rowStatus[r] \notin {"absent", "superseded", "paid", "refunded"}
  BY <1>1, AliveIsFirst DEF Dead, IInv, Books, Settled, First
<1>6. TypeOK'
  BY <1>1 DEF IInv, TypeOK
<1>7. Places' /\ Locked' /\ OneRow' /\ Receipts'
  BY DEF IInv, Places, Locked, OneRow, Receipts, Collectible
<1>8. Made'
  BY <1>3, <1>5 DEF IInv, Made
<1>9. Kept'
  <2> SUFFICES ASSUME NEW q \in Rows, NEW g \in 0 .. MaxGen
               PROVE  /\ session'[<<q, g, 2>>] = "none"
                      /\ g > generation[q] => session'[<<q, g, 1>>] = "none"
                      /\ g < generation[q] \/ rowStatus[q] = "superseded"
                           => session'[<<q, g, 1>>] \in Dead
    BY DEF Kept, Dead
  <2>1. CASE q = r /\ g = generation[r]
    BY <1>1, <1>3, <1>5, <2>1 DEF IInv, Kept
  <2>2. CASE ~(q = r /\ g = generation[r])
    BY <1>3, <2>2 DEF IInv, Kept
  <2>3. QED
    BY <2>1, <2>2
<1>10. Tracking'
  BY <1>4 DEF IInv, Tracking
<1>11. Books'
  BY <1>4, <1>5 DEF IInv, Books, Settled
<1>12. GivenBack'
  BY <1>2 DEF IInv, GivenBack
<1>13. Failures'
  <2>1. \A q \in Rows : rowStatus[q] = "failed" =>
          /\ \E g \in 0 .. MaxGen : session'[<<q, g, 1>>] = "failed"
          /\ tracked[q] = 1 => session'[First(q)] = "failed"
    BY <1>3, <1>4 DEF IInv, Failures, KnownFailed, Minting, First
  <2>2. ASSUME NEW w \in Workers, pc[w] \in {"request", "session", "store"}, serves[w] # None
        PROVE  \A g \in 0 .. MaxGen : session'[<<row[w], g, 1>>] # "failed"
    BY <1>3, <2>2 DEF IInv, Failures, KnownFailed, Minting, Places
  <2>3. QED
    BY <2>1, <2>2, <1>4 DEF Failures, KnownFailed, Minting
<1>14. QED
  BY <1>6, <1>7, <1>8, <1>9, <1>10, <1>11, <1>12, <1>13 DEF IInv

LEMMA StripeKeeps ==
  ASSUME IInv, NEW s \in Sessions, Stripe(s) PROVE IInv'
<1>1. session[s] \in {"open", "offered", "processing"}
  BY DEF Stripe, Become, Live
<1>2. s[1] \in Rows /\ s = First(s[1])
  BY <1>1, AliveIsFirst DEF Dead
<1>3. session[s] \in {"offered", "processing"} => tracked[s[1]] = 1
  BY <1>2, PaidIsTracked
<1>4. PICK st \in SessionStates \ {"none"} :
        /\ session' = [session EXCEPT ![s] = st]
        /\ session[s] \in {"offered", "processing"} \/ st = "expired"
        /\ st = "failed" => \A w \in Workers : pc[w] = "idle"
        /\ UNCHANGED <<rowVars, lock, returned, invoiceVars, callVars>>
  BY DEF Stripe, Become, Live, SessionStates
<1>5. QED
  BY <1>1, <1>2, <1>3, <1>4, SessionMoves

LEMMA ClickRedirectKeeps ==
  ASSUME IInv, NEW r \in Rows, ClickRedirect(r) PROVE IInv'
<1>1. tracked[r] = 1 /\ Current(r) = First(r)
  BY DEF ClickRedirect, IInv, Tracking, Current, First
<1>2. QED
  BY <1>1, SessionMoves DEF ClickRedirect, Live, SessionStates

LEMMA GiveBackKeeps ==
  ASSUME IInv, NEW s \in Sessions, GiveBack(s) PROVE IInv'
<1> USE DEF rowVars, invoiceVars, callVars
<1>1. PICK n \in returned[s] + 1 .. 2 : returned' = [returned EXCEPT ![s] = n]
  BY DEF GiveBack
<1>2. returned[s] \in 0 .. 2
  BY DEF IInv, TypeOK
<1>3. n \in 0 .. 2 /\ n >= returned[s]
  BY <1>2
<1>4. \A t \in Sessions : returned'[t] = IF t = s THEN n ELSE returned[t]
  BY <1>1 DEF IInv, TypeOK
<1>5. TypeOK'
  BY <1>1, <1>3 DEF GiveBack, IInv, TypeOK
<1>6. Places' /\ Locked' /\ Made' /\ OneRow'
  BY DEF GiveBack, IInv, Places, Locked, Made, OneRow, Collectible
<1>7. Kept' /\ Tracking' /\ Failures' /\ Receipts'
  BY DEF GiveBack, IInv, Kept, Tracking, Failures, KnownFailed, Minting, Receipts, First
<1>8. GivenBack'
  BY <1>4 DEF GiveBack, IInv, GivenBack
<1>9. Books'
  <2> SUFFICES ASSUME NEW r \in Rows
               PROVE  /\ Settled(r) => tracked[r] = 1 /\ session[First(r)] = "paid"
                      /\ refunded[r] > 0 => Settled(r)
                      /\ refunded[r] <= returned'[First(r)]
                      /\ rowStatus[r] = "refunded" => refunded[r] = 2
    BY DEF GiveBack, Books, Settled, First
  <2>1. First(r) \in Sessions /\ refunded[r] \in 0 .. 2 /\ returned[First(r)] \in 0 .. 2
    BY Parts DEF IInv, TypeOK, First
  <2>2. refunded[r] <= returned[First(r)]
    BY DEF IInv, Books
  <2>3. returned'[First(r)] \in 0 .. 2 /\ returned[First(r)] <= returned'[First(r)]
    BY <1>3, <1>4, <2>1
  <2>4. QED
    BY <2>1, <2>2, <2>3 DEF IInv, Books
<1>10. QED
  BY <1>5, <1>6, <1>7, <1>8, <1>9 DEF IInv

LEMMA AgeKeeps ==
  ASSUME IInv, NEW r \in Rows, Age(r) PROVE IInv'
<1> USE DEF stripeVars, invoiceVars, callVars
<1>1. TypeOK'
  BY DEF Age, IInv, TypeOK
<1>2. Places' /\ Locked' /\ Made' /\ OneRow'
  BY DEF Age, IInv, Places, Locked, Made, OneRow, Collectible
<1>3. Kept' /\ Tracking' /\ Failures' /\ Receipts'
  BY DEF Age, IInv, Kept, Tracking, Failures, KnownFailed, Minting, Receipts, First
<1>4. Books' /\ GivenBack'
  BY DEF Age, IInv, Books, GivenBack, Settled, First
<1>5. QED
  BY <1>1, <1>2, <1>3, <1>4 DEF IInv

-----------------------------------------------------------------------------
(* Steps that retire a row                                                 *)

\* No Session of a retired row can take money.
Ended(r) ==
  \A q \in Rows : \A g \in 0 .. MaxGen :
    /\ session'[<<q, g, 2>>] = "none"
    /\ q # r => session'[<<q, g, 1>>] = session[<<q, g, 1>>]
    /\ session'[<<r, g, 1>>] \in Dead
    /\ session'[<<r, g, 1>>] \in {session[<<r, g, 1>>], "expired"}
    /\ session[<<r, g, 1>>] = "none" => session'[<<r, g, 1>>] = "none"
    /\ session[<<r, g, 1>>] = "paid" => session'[<<r, g, 1>>] = "paid"

LEMMA RetireEnds ==
  ASSUME IInv, NEW r \in Rows, NEW status, Retire(r, status) PROVE Ended(r)
<1> SUFFICES ASSUME NEW q \in Rows, NEW g \in 0 .. MaxGen
             PROVE  /\ session'[<<q, g, 2>>] = "none"
                    /\ q # r => session'[<<q, g, 1>>] = session[<<q, g, 1>>]
                    /\ session'[<<r, g, 1>>] \in Dead
                    /\ session'[<<r, g, 1>>] \in {session[<<r, g, 1>>], "expired"}
                    /\ session[<<r, g, 1>>] = "none" => session'[<<r, g, 1>>] = "none"
                    /\ session[<<r, g, 1>>] = "paid" => session'[<<r, g, 1>>] = "paid"
  BY DEF Ended
<1>1. \A s \in Sessions : session'[s] =
        IF tracked[r] # 0 /\ s = Current(r) /\ session[s] \in Live THEN "expired" ELSE session[s]
  BY DEF Retire
<1>2. <<q, g, 1>> \in Sessions /\ <<q, g, 2>> \in Sessions /\ <<r, g, 1>> \in Sessions
  BY Parts
<1>3. /\ session[<<q, g, 2>>] = "none"
      /\ g # generation[r] => session[<<r, g, 1>>] \in Dead
  <2>1. generation[r] \in 0 .. MaxGen
    BY DEF IInv, TypeOK
  <2>2. g # generation[r] => g < generation[r] \/ g > generation[r]
    BY <2>1, PayLinkAssumption
  <2>3. QED
    BY <2>2 DEF IInv, Kept, Dead
<1>4. CASE tracked[r] = 0
  <2>1. session[First(r)] = "none"
    BY <1>4 DEF IInv, Tracking, Retire, Retirable, Uncertain
  <2>2. session[<<r, g, 1>>] \in Dead
    BY <1>3, <2>1 DEF First, Dead
  <2>3. QED
    BY <1>1, <1>2, <1>3, <1>4, <2>2
<1>5. CASE tracked[r] = 1
  <2>1. session[<<r, generation[r], 1>>] \in Live \cup {"expired"}
    BY <1>5 DEF Retire, Retirable, Current
  <2>2. \A s \in Sessions : session'[s] =
          IF s = <<r, generation[r], 1>> /\ session[s] \in Live THEN "expired" ELSE session[s]
    BY <1>1, <1>5 DEF Current
  <2>3. session'[<<q, g, 2>>] = "none" /\ (q # r => session'[<<q, g, 1>>] = session[<<q, g, 1>>])
    BY <1>2, <1>3, <2>2
  <2>4. CASE g = generation[r]
    BY <1>2, <2>1, <2>2, <2>3, <2>4 DEF Live, Dead
  <2>5. CASE g # generation[r]
    BY <1>2, <1>3, <2>2, <2>3, <2>5
  <2>6. QED
    BY <2>4, <2>5
<1>6. QED
  BY <1>4, <1>5 DEF IInv, Tracking

\* The rows of old are retired, and row new, unless it is None, is opened for
\* invoice i.
Replacing(old, new, i) ==
  /\ \A q \in Rows :
       rowStatus'[q] = IF q = new THEN "open" ELSE IF q \in old THEN "superseded" ELSE rowStatus[q]
  /\ \A q \in old : lock[q] = None /\ rowStatus[q] \notin {"absent", "paid", "refunded"}
  /\ new \in Rows => /\ madeFor[new] = None /\ new \notin old
                     /\ \A q \in Existing(i) : q \in old
  /\ \A q \in Rows : \A g \in 0 .. MaxGen :
       /\ session'[<<q, g, 2>>] = "none"
       /\ q \notin old => session'[<<q, g, 1>>] = session[<<q, g, 1>>]
       /\ q \in old => /\ session'[<<q, g, 1>>] \in Dead
                       /\ session'[<<q, g, 1>>] \in {session[<<q, g, 1>>], "expired"}
                       /\ session[<<q, g, 1>>] = "none" => session'[<<q, g, 1>>] = "none"
                       /\ session[<<q, g, 1>>] = "paid" => session'[<<q, g, 1>>] = "paid"

LEMMA RowsReplaced ==
  ASSUME IInv, NEW old \in SUBSET Rows, NEW new \in Rows \cup {None}, NEW i \in Invoices,
         Replacing(old, new, i),
         \A q \in Rows : madeFor'[q] = IF q = new THEN i ELSE madeFor[q],
         UNCHANGED <<generation, requested, tracked, refunded, returned>>
  PROVE  /\ Made' /\ OneRow' /\ Kept' /\ Tracking' /\ Books' /\ GivenBack' /\ KnownFailed'
         /\ \A q \in Rows : \A g \in 0 .. MaxGen :
              session[<<q, g, 1>>] # "failed" => session'[<<q, g, 1>>] # "failed"
<1> USE DEF Replacing
<1>1. new \in Rows => rowStatus[new] = "absent"
  BY DEF IInv, Made
<1>2. \A q \in Rows : q = new => q \notin old
  BY PayLinkAssumption
<1>3. \A q \in Rows : generation[q] \in 0 .. MaxGen /\ First(q)' = First(q)
  BY DEF IInv, TypeOK, First
<1>4. Made'
  <2> SUFFICES ASSUME NEW q \in Rows
               PROVE  /\ madeFor'[q] = None <=> rowStatus'[q] = "absent"
                      /\ rowStatus'[q] = "absent" =>
                           \A g \in 0 .. MaxGen : session'[<<q, g, 1>>] = "none"
    BY DEF Made
  <2>1. madeFor'[q] = None <=> rowStatus'[q] = "absent"
    BY PayLinkAssumption DEF IInv, Made
  <2>2. ASSUME rowStatus'[q] = "absent", NEW g \in 0 .. MaxGen
        PROVE  session'[<<q, g, 1>>] = "none"
    <3>1. rowStatus[q] = "absent" /\ q \notin old
      BY <2>2
    <3>2. session[<<q, g, 1>>] = "none"
      BY <3>1 DEF IInv, Made
    <3>3. QED
      BY <3>1, <3>2
  <2>3. QED
    BY <2>1, <2>2
<1>5. OneRow'
  <2> SUFFICES ASSUME NEW q \in Rows, NEW r \in Rows,
                      rowStatus'[q] \notin {"absent", "superseded"},
                      rowStatus'[r] \notin {"absent", "superseded"},
                      PeriodKey[madeFor'[q]] = PeriodKey[madeFor'[r]]
               PROVE  q = r
    BY DEF OneRow
  <2>1. CASE q # new /\ r # new
    BY <2>1 DEF IInv, OneRow
  <2>2. \A p \in Rows : p # new /\ rowStatus'[p] \notin {"absent", "superseded"} /\ new \in Rows
          => PeriodKey[madeFor[p]] # PeriodKey[i]
    BY DEF Existing
  <2>3. QED
    BY <2>1, <2>2
<1>6. Kept'
  <2> SUFFICES ASSUME NEW q \in Rows, NEW g \in 0 .. MaxGen
               PROVE  /\ session'[<<q, g, 2>>] = "none"
                      /\ g > generation[q] => session'[<<q, g, 1>>] = "none"
                      /\ g < generation[q] \/ rowStatus'[q] = "superseded"
                           => session'[<<q, g, 1>>] \in Dead
    BY DEF Kept
  <2>1. /\ g > generation[q] => session[<<q, g, 1>>] = "none"
        /\ g < generation[q] \/ rowStatus[q] = "superseded" => session[<<q, g, 1>>] \in Dead
    BY DEF IInv, Kept
  <2>2. QED
    BY <2>1
<1>7. Tracking'
  <2> SUFFICES ASSUME NEW q \in Rows
               PROVE  /\ tracked[q] \in {0, 1}
                      /\ tracked[q] = 0 => session'[First(q)] \in {"none", "open", "expired"}
                      /\ ~requested[q] => session'[First(q)] = "none"
    BY <1>3 DEF Tracking
  <2>1. /\ session'[First(q)] \in {session[First(q)], "expired"}
        /\ session[First(q)] = "none" => session'[First(q)] = "none"
    BY <1>3 DEF First
  <2>2. QED
    BY <2>1 DEF IInv, Tracking
<1>8. Books'
  <2> SUFFICES ASSUME NEW q \in Rows
               PROVE  /\ rowStatus'[q] \in {"paid", "refunded"}
                           => tracked[q] = 1 /\ session'[First(q)] = "paid"
                      /\ refunded[q] > 0 => rowStatus'[q] \in {"paid", "refunded"}
                      /\ refunded[q] <= returned[First(q)]
                      /\ rowStatus'[q] = "refunded" => refunded[q] = 2
    BY <1>3 DEF Books, Settled
  <2>1. /\ rowStatus[q] \in {"paid", "refunded"} => tracked[q] = 1 /\ session[First(q)] = "paid"
        /\ refunded[q] > 0 => rowStatus[q] \in {"paid", "refunded"}
        /\ refunded[q] <= returned[First(q)]
        /\ rowStatus[q] = "refunded" => refunded[q] = 2
    BY DEF IInv, Books, Settled
  <2>2. session[First(q)] = "paid" => session'[First(q)] = "paid"
    BY <1>3 DEF First
  <2>3. QED
    BY <1>1, <2>1, <2>2
<1>9. GivenBack'
  <2> SUFFICES ASSUME NEW s \in Sessions, returned[s] > 0
               PROVE  session'[s] = "paid"
    BY DEF GivenBack
  <2>1. session[s] = "paid"
    BY DEF IInv, GivenBack
  <2>2. PICK q \in Rows : s = <<q, generation[q], 1>>
    BY <2>1, AliveIsFirst DEF Dead, First
  <2>3. generation[q] \in 0 .. MaxGen /\ session[<<q, generation[q], 1>>] = "paid"
    BY <1>3, <2>1, <2>2
  <2>4. session'[<<q, generation[q], 1>>] = "paid"
    BY <2>3
  <2>5. QED
    BY <2>2, <2>4
<1>10. KnownFailed'
  <2> SUFFICES ASSUME NEW q \in Rows, rowStatus'[q] = "failed"
               PROVE  /\ \E g \in 0 .. MaxGen : session'[<<q, g, 1>>] = "failed"
                      /\ tracked[q] = 1 => session'[First(q)] = "failed"
    BY <1>3 DEF KnownFailed
  <2>1. rowStatus[q] = "failed" /\ q \notin old
    OBVIOUS
  <2>2. \A g \in 0 .. MaxGen : session'[<<q, g, 1>>] = session[<<q, g, 1>>]
    BY <2>1
  <2>3. session'[First(q)] = session[First(q)]
    BY <1>3, <2>2 DEF First
  <2>4. QED
    BY <2>1, <2>2, <2>3 DEF IInv, Failures, KnownFailed
<1>11. QED
  BY <1>4, <1>5, <1>6, <1>7, <1>8, <1>9, <1>10

LEMMA MakePaymentKeeps ==
  ASSUME IInv, NEW w \in Workers, MakePayment(w) PROVE IInv'
<1> DEFINE i == serves[w]
           new == NewRow
<1>1. i \in Invoices
  BY DEF MakePayment, IInv, Places
<1>2. new \in Rows /\ madeFor[new] = None
  BY DEF MakePayment, NewRow
<1>3. rowStatus[new] = "absent"
  BY <1>2 DEF IInv, Made
<1> HIDE DEF new, i
<1>4. /\ pc[w] = "create"
      /\ madeFor' = [madeFor EXCEPT ![new] = i]
      /\ pc' = [pc EXCEPT ![w] = "request"] /\ row' = [row EXCEPT ![w] = new]
      /\ UNCHANGED <<generation, requested, aged, tracked, refunded, lock, returned,
                     invoiceVars, serves>>
  BY DEF MakePayment, Goto, new, i
<1>5. PICK old \in SUBSET Rows :
        /\ Replacing(old, new, i)
        /\ rowStatus' \in [Rows -> RowStatuses] /\ session' \in [Sessions -> SessionStates]
  <2>1. CASE /\ Existing(i) = {}
             /\ rowStatus' = [rowStatus EXCEPT ![new] = "open"]
             /\ session' = session
    <3>1. rowStatus' \in [Rows -> RowStatuses] /\ session' \in [Sessions -> SessionStates]
      BY <2>1 DEF IInv, TypeOK, RowStatuses
    <3>2. \A q \in Rows : rowStatus'[q] = IF q = new THEN "open" ELSE rowStatus[q]
      BY <2>1 DEF IInv, TypeOK
    <3>3. \A q \in Rows : \A g \in 0 .. MaxGen : session[<<q, g, 2>>] = "none"
      BY DEF IInv, Kept
    <3>4. {} \in SUBSET Rows /\ Replacing({}, new, i)
      BY <1>2, <2>1, <3>2, <3>3 DEF Replacing
    <3>5. QED
      BY <3>1, <3>4
  <2>2. CASE \E r \in Existing(i) : Retire(r, [rowStatus EXCEPT ![new] = "open"])
    <3> PICK r \in Existing(i) : Retire(r, [rowStatus EXCEPT ![new] = "open"])
      BY <2>2
    <3>1. r \in Rows /\ rowStatus[r] \notin {"absent", "superseded", "paid", "refunded"} /\ lock[r] = None
      BY DEF Existing, Retire, Retirable, Settled
    <3>2. \A q \in Existing(i) : q = r
      BY DEF Existing, IInv, OneRow
    <3>3. /\ rowStatus' = [[rowStatus EXCEPT ![new] = "open"] EXCEPT ![r] = "superseded"]
          /\ session' = [s \in Sessions |->
               IF tracked[r] # 0 /\ s = Current(r) /\ session[s] \in Live THEN "expired" ELSE session[s]]
      BY DEF Retire
    <3>4. rowStatus' \in [Rows -> RowStatuses] /\ session' \in [Sessions -> SessionStates]
      BY <3>3 DEF IInv, TypeOK, RowStatuses, SessionStates
    <3>5. \A q \in Rows : rowStatus'[q] = IF q = new THEN "open"
                                          ELSE IF q = r THEN "superseded" ELSE rowStatus[q]
      BY <1>3, <3>1, <3>3 DEF IInv, TypeOK
    <3>6. Ended(r)
      BY <3>1, RetireEnds
    <3>7. \A q \in Rows : q = new => q # r
      BY <1>3, <3>1
    <3>8. {r} \in SUBSET Rows /\ Replacing({r}, new, i)
      BY <1>2, <3>1, <3>2, <3>5, <3>6, <3>7 DEF Replacing, Ended
    <3>9. QED
      BY <3>4, <3>8
  <2>3. QED
    BY <2>1, <2>2 DEF MakePayment, new, i
<1>6. \A q \in Rows : madeFor'[q] = IF q = new THEN i ELSE madeFor[q]
  BY <1>4 DEF IInv, TypeOK
<1>7. /\ Made' /\ OneRow' /\ Kept' /\ Tracking' /\ Books' /\ GivenBack' /\ KnownFailed'
      /\ \A q \in Rows : \A g \in 0 .. MaxGen :
           session[<<q, g, 1>>] # "failed" => session'[<<q, g, 1>>] # "failed"
  BY <1>1, <1>2, <1>4, <1>5, <1>6, RowsReplaced
<1>8. \A v \in Workers : v # w => pc'[v] = pc[v] /\ row'[v] = row[v] /\ serves'[v] = serves[v]
  BY <1>4 DEF IInv, TypeOK
<1>9. pc'[w] = "request" /\ row'[w] = new /\ serves'[w] = i
  BY <1>4 DEF IInv, TypeOK, i
<1>10. TypeOK'
  BY <1>1, <1>2, <1>4, <1>5 DEF IInv, TypeOK, invoiceVars
<1>11. Places'
  BY <1>1, <1>2, <1>4, <1>6, <1>8, <1>9, PayLinkAssumption DEF IInv, Places, invoiceVars
<1>12. Locked'
  <2> SUFFICES ASSUME NEW v \in Workers
               PROVE  /\ \A q \in Rows : lock[q] = v <=> pc'[v] = "store" /\ row'[v] = q
                      /\ pc'[v] = "store" =>
                           rowStatus'[row'[v]] \notin {"superseded", "paid", "refunded"}
    BY <1>4 DEF Locked, Collectible
  <2>1. CASE v = w
    BY <1>4, <1>9, <2>1 DEF IInv, Locked
  <2>2. CASE v # w
    <3>1. \A q \in Rows : lock[q] = v <=> pc'[v] = "store" /\ row'[v] = q
      BY <1>8, <2>2 DEF IInv, Locked
    <3>2. ASSUME pc[v] = "store"
          PROVE  row[v] \in Rows /\ row[v] # new /\ row[v] \notin old /\ Collectible(row[v])
      BY <1>2, <1>5, <3>2, PayLinkAssumption DEF IInv, Places, Locked, Replacing
    <3>3. QED
      BY <1>5, <1>8, <2>2, <3>1, <3>2 DEF Collectible, Replacing
  <2>3. QED
    BY <2>1, <2>2
<1>13. Minting'
  <2> SUFFICES ASSUME NEW v \in Workers, pc'[v] \in {"request", "session", "store"},
                      serves'[v] # None,
                      NEW g \in 0 .. MaxGen
               PROVE  session'[<<row'[v], g, 1>>] # "failed"
    BY DEF Minting
  <2>1. CASE v = w
    BY <1>2, <1>3, <1>7, <1>9, <2>1 DEF IInv, Made
  <2>2. CASE v # w
    BY <1>7, <1>8, <2>2 DEF IInv, Places, Failures, Minting
  <2>3. QED
    BY <2>1, <2>2
<1>14. Receipts'
  <2> SUFFICES ASSUME NEW j \in Invoices
               PROVE  /\ payment[j] # None => madeFor'[payment[j]] \in Invoices
                      /\ accepted[j] => payment[j] \in Rows
                      /\ offline[j] > 0 =>
                           payment[j] \in Rows /\ rowStatus'[payment[j]] = "superseded"
    BY <1>4 DEF Receipts, invoiceVars
  <2>1. payment[j] # None => payment[j] \in Rows
    BY DEF IInv, TypeOK
  <2>2. offline[j] > 0 => payment[j] \in Rows /\ rowStatus[payment[j]] = "superseded"
    BY DEF IInv, Receipts
  <2>3. rowStatus[new] # "superseded"
    BY <1>3
  <2>4. offline[j] > 0 => rowStatus'[payment[j]] = "superseded"
    BY <1>5, <2>2, <2>3 DEF Replacing
  <2>5. QED
    BY <1>1, <1>6, <2>1, <2>2, <2>4 DEF IInv, Receipts
<1>15. QED
  BY <1>7, <1>10, <1>11, <1>12, <1>13, <1>14 DEF IInv, Failures

LEMMA RecordOfflineKeeps ==
  ASSUME IInv, NEW i \in Invoices, NEW n \in 1 .. Amount[i], RecordOffline(i, n) PROVE IInv'
<1> DEFINE r == payment[i]
<1>1. r \in Rows /\ rowStatus[r] # "absent"
  <2>1. r \in Rows
    BY DEF RecordOffline, IInv, Receipts
  <2>2. madeFor[r] \in Invoices
    BY <2>1, PayLinkAssumption DEF IInv, Receipts, Rows
  <2>3. QED
    BY <2>1, <2>2, PayLinkAssumption DEF IInv, Made
<1>2. /\ offline' = [offline EXCEPT ![i] = offline[i] + n] /\ offline[i] + n <= Amount[i]
      /\ UNCHANGED <<madeFor, generation, requested, aged, tracked, refunded, lock,
                     returned, payment, accepted, callVars>>
  BY DEF RecordOffline
<1>3. /\ \A q \in Rows : rowStatus'[q] = IF q = r THEN "superseded" ELSE rowStatus[q]
      /\ rowStatus' \in [Rows -> RowStatuses] /\ session' \in [Sessions -> SessionStates]
      /\ rowStatus[r] # "superseded" => lock[r] = None
      /\ Made' /\ OneRow' /\ Kept' /\ Tracking' /\ Books' /\ GivenBack' /\ KnownFailed'
      /\ \A q \in Rows : \A g \in 0 .. MaxGen :
           session[<<q, g, 1>>] # "failed" => session'[<<q, g, 1>>] # "failed"
  <2>1. CASE rowStatus[r] = "superseded" /\ UNCHANGED <<rowStatus, session>>
    BY <1>2, <2>1 DEF IInv, TypeOK, Made, OneRow, Kept, Tracking, Books, GivenBack,
       Failures, KnownFailed, First, Settled
  <2>2. CASE Retire(r, rowStatus)
    <3>1. /\ rowStatus' = [rowStatus EXCEPT ![r] = "superseded"]
          /\ session' = [s \in Sessions |->
               IF tracked[r] # 0 /\ s = Current(r) /\ session[s] \in Live THEN "expired" ELSE session[s]]
          /\ rowStatus[r] \notin {"paid", "refunded"} /\ lock[r] = None
      BY <2>2 DEF Retire, Retirable, Settled
    <3>2. rowStatus' \in [Rows -> RowStatuses] /\ session' \in [Sessions -> SessionStates]
      BY <3>1 DEF IInv, TypeOK, RowStatuses, SessionStates
    <3>3. \A q \in Rows : rowStatus'[q] = IF q = r THEN "superseded" ELSE rowStatus[q]
      BY <3>1 DEF IInv, TypeOK
    <3>4. \A q \in Rows : q # None
      BY PayLinkAssumption DEF Rows
    <3>5. {r} \in SUBSET Rows /\ Replacing({r}, None, i)
      <4>1. Ended(r)
        BY <1>1, <2>2, RetireEnds
      <4>2. None \notin Rows
        BY <3>4
      <4> HIDE DEF r
      <4>3. \A q \in Rows : rowStatus'[q] = IF q = None THEN "open"
                                            ELSE IF q \in {r} THEN "superseded" ELSE rowStatus[q]
        BY <3>3, <3>4
      <4>4. \A q \in {r} : lock[q] = None /\ rowStatus[q] \notin {"absent", "paid", "refunded"}
        BY <1>1, <3>1
      <4>5. {r} \in SUBSET Rows
        BY <1>1
      <4>6. QED
        BY <4>1, <4>2, <4>3, <4>4, <4>5 DEF Replacing, Ended
    <3>6. \A q \in Rows : madeFor'[q] = IF q = None THEN i ELSE madeFor[q]
      BY <1>2, <3>4
    <3>7. QED
      BY <1>2, <3>1, <3>2, <3>3, <3>5, <3>6, RowsReplaced
  <2>3. QED
    BY <2>1, <2>2 DEF RecordOffline
<1>4. TypeOK'
  <2>1. offline' \in [Invoices -> Nat] /\ \A j \in Invoices : offline'[j] <= Amount[j]
    BY <1>2, PayLinkAssumption DEF IInv, TypeOK
  <2>2. QED
    BY <1>2, <1>3, <2>1 DEF IInv, TypeOK, callVars
<1>5. Places'
  BY <1>2 DEF IInv, Places, callVars
<1>6. Locked'
  <2> SUFFICES ASSUME NEW v \in Workers, pc[v] = "store"
               PROVE  rowStatus'[row[v]] \notin {"superseded", "paid", "refunded"}
    BY <1>2 DEF IInv, Locked, Collectible, callVars
  <2>1. row[v] \in Rows /\ lock[row[v]] = v /\ Collectible(row[v])
    BY DEF IInv, Places, Locked
  <2>2. row[v] # r
    BY <1>3, <2>1, PayLinkAssumption DEF Collectible
  <2>3. QED
    BY <1>3, <2>1, <2>2 DEF Collectible
<1>7. Minting'
  BY <1>2, <1>3 DEF IInv, Failures, Minting, Places, callVars
<1>8. Receipts'
  <2> SUFFICES ASSUME NEW j \in Invoices
               PROVE  /\ payment[j] # None => madeFor[payment[j]] \in Invoices
                      /\ accepted[j] => payment[j] \in Rows
                      /\ offline'[j] > 0 =>
                           payment[j] \in Rows /\ rowStatus'[payment[j]] = "superseded"
    BY <1>2 DEF Receipts
  <2>1. CASE j = i
    BY <1>1, <1>3, <2>1 DEF IInv, Receipts
  <2>2. CASE j # i
    <3>1. offline'[j] = offline[j]
      BY <1>2, <2>2 DEF IInv, TypeOK
    <3>2. QED
      BY <1>3, <3>1 DEF IInv, Receipts
  <2>3. QED
    BY <2>1, <2>2
<1>9. QED
  BY <1>3, <1>4, <1>5, <1>6, <1>7, <1>8 DEF IInv, Failures

-----------------------------------------------------------------------------
(* Steps of a call that leave rows and Sessions alone                      *)

\* The parts of the invariant that are about rows and Sessions only.
RowsKept == Made /\ OneRow /\ Kept /\ Tracking /\ Books /\ GivenBack /\ KnownFailed

LEMMA RowsUnchanged ==
  ASSUME IInv, UNCHANGED <<rowVars, stripeVars>> PROVE RowsKept'
<1> USE DEF IInv, RowsKept, rowVars, stripeVars
<1>1. Made' /\ OneRow'
  BY DEF Made, OneRow
<1>2. Kept' /\ Tracking'
  BY DEF Kept, Tracking, First
<1>3. Books' /\ GivenBack' /\ KnownFailed'
  BY DEF Books, GivenBack, Failures, KnownFailed, First, Settled
<1>4. QED
  BY <1>1, <1>2, <1>3

\* Process w moves to a place outside the minting of Sessions, or to its start.
LEMMA CallMoves ==
  ASSUME IInv, NEW w \in Workers, pc[w] # "store",
         UNCHANGED <<rowVars, stripeVars, lock>>,
         \A v \in Workers : v # w => pc'[v] = pc[v] /\ row'[v] = row[v] /\ serves'[v] = serves[v],
         pc'[w] \in {"idle", "attach", "send"} \/ serves'[w] = None,
         pc'[w] # "store"
  PROVE  RowsKept' /\ Locked' /\ Minting'
<1>1. RowsKept'
  BY RowsUnchanged
<1>2. Locked'
  <2> SUFFICES ASSUME NEW v \in Workers
               PROVE  /\ \A r \in Rows : lock[r] = v <=> pc'[v] = "store" /\ row'[v] = r
                      /\ pc'[v] = "store" =>
                           rowStatus[row'[v]] \notin {"superseded", "paid", "refunded"}
    BY DEF Locked, Collectible, rowVars
  <2>1. /\ \A r \in Rows : lock[r] = v <=> pc[v] = "store" /\ row[v] = r
        /\ pc[v] = "store" => rowStatus[row[v]] \notin {"superseded", "paid", "refunded"}
    BY DEF IInv, Locked, Collectible
  <2>2. QED
    BY <2>1
<1>3. Minting'
  <2> SUFFICES ASSUME NEW v \in Workers, pc'[v] \in {"request", "session", "store"},
                      serves'[v] # None,
                      NEW g \in 0 .. MaxGen
               PROVE  session[<<row'[v], g, 1>>] # "failed"
    BY DEF Minting, stripeVars
  <2>1. v # w
    OBVIOUS
  <2>2. QED
    BY <2>1 DEF IInv, Failures, Minting
<1>4. QED
  BY <1>1, <1>2, <1>3

LEMMA ReusePaymentKeeps ==
  ASSUME IInv, NEW w \in Workers, ReusePayment(w) PROVE IInv'
<1>1. PICK r \in Existing(serves[w]) : Goto(w, "attach", r)
  BY DEF ReusePayment
<1>2. r \in Rows /\ madeFor[r] \in Invoices
  BY DEF Existing, IInv, Made, TypeOK
<1>3. /\ pc'[w] = "attach" /\ row'[w] = r /\ serves' = serves /\ pc[w] = "create"
      /\ \A v \in Workers : v # w => pc'[v] = pc[v] /\ row'[v] = row[v]
      /\ UNCHANGED <<rowVars, lock, stripeVars, invoiceVars>>
  BY <1>1 DEF ReusePayment, Goto, IInv, TypeOK
<1>4. RowsKept' /\ Locked' /\ Minting'
  BY <1>3, CallMoves
<1>5. TypeOK'
  BY <1>1, <1>2, <1>3 DEF Goto, IInv, TypeOK, rowVars, stripeVars, invoiceVars
<1>6. Places'
  BY <1>2, <1>3 DEF IInv, Places, rowVars, invoiceVars
<1>7. Receipts'
  BY <1>3 DEF IInv, Receipts, rowVars, invoiceVars
<1>8. QED
  BY <1>4, <1>5, <1>6, <1>7 DEF IInv, RowsKept, Failures

LEMMA AttachKeeps ==
  ASSUME IInv, NEW w \in Workers, Attach(w) PROVE IInv'
<1> DEFINE i == serves[w]
           r == row[w]
<1>1. i \in Invoices /\ r \in Rows /\ madeFor[r] \in Invoices /\ pc[w] = "attach"
  BY DEF Attach, IInv, Places
<1>2. /\ pc'[w] = "send" /\ row' = row /\ serves' = serves
      /\ \A v \in Workers : v # w => pc'[v] = pc[v]
      /\ \A j \in Invoices : payment'[j] = IF j = i THEN r ELSE payment[j]
      /\ payment[i] \in {None, r}
      /\ UNCHANGED <<rowVars, lock, stripeVars, accepted, offline>>
  BY DEF Attach, Goto, IInv, TypeOK
<1>3. RowsKept' /\ Locked' /\ Minting'
  BY <1>1, <1>2, CallMoves
<1>4. TypeOK'
  BY <1>1 DEF Attach, Goto, IInv, TypeOK, rowVars, stripeVars
<1>5. Places'
  <2> SUFFICES ASSUME NEW v \in Workers
               PROVE  /\ pc'[v] = "idle" => serves[v] = None
                      /\ pc'[v] \in {"create", "attach", "send"} => serves[v] \in Invoices
                      /\ pc'[v] \notin {"idle", "create"} =>
                           row[v] \in Rows /\ madeFor[row[v]] \in Invoices
                      /\ pc'[v] = "send" => payment'[serves[v]] = row[v]
    BY <1>2 DEF Places, rowVars
  <2>1. CASE v = w
    BY <1>1, <1>2, <2>1
  <2>2. CASE v # w
    <3>1. /\ pc[v] = "idle" => serves[v] = None
          /\ pc[v] \in {"create", "attach", "send"} => serves[v] \in Invoices
          /\ pc[v] \notin {"idle", "create"} => row[v] \in Rows /\ madeFor[row[v]] \in Invoices
          /\ pc[v] = "send" => payment[serves[v]] = row[v]
      BY DEF IInv, Places
    <3>2. pc[v] = "send" => row[v] # None
      BY <3>1, PayLinkAssumption DEF Rows
    <3>3. QED
      BY <1>2, <2>2, <3>1, <3>2
  <2>3. QED
    BY <2>1, <2>2
<1>6. Receipts'
  <2> SUFFICES ASSUME NEW j \in Invoices
               PROVE  /\ payment'[j] # None => madeFor[payment'[j]] \in Invoices
                      /\ accepted[j] => payment'[j] \in Rows
                      /\ offline[j] > 0 =>
                           payment'[j] \in Rows /\ rowStatus[payment'[j]] = "superseded"
    BY <1>2 DEF Receipts, rowVars
  <2>1. payment'[j] = payment[j] \/ (payment'[j] = r /\ payment[j] = None)
    <3>1. CASE j = i
      BY <1>2, <3>1
    <3>2. CASE j # i
      BY <1>2, <3>2
    <3>3. QED
      BY <3>1, <3>2
  <2>2. payment[j] = None => payment[j] \notin Rows
    BY PayLinkAssumption DEF Rows
  <2>3. QED
    BY <1>1, <2>1, <2>2 DEF IInv, Receipts
<1>7. QED
  BY <1>3, <1>4, <1>5, <1>6 DEF IInv, RowsKept, Failures

LEMMA IssueKeeps ==
  ASSUME IInv, NEW w \in Workers, Issue(w) PROVE IInv'
<1>1. serves[w] \in Invoices /\ row[w] \in Rows /\ payment[serves[w]] = row[w] /\ pc[w] = "send"
  BY DEF Issue, IInv, Places
<1>2. /\ pc'[w] = "idle" /\ serves'[w] = None
      /\ \A v \in Workers : v # w => pc'[v] = pc[v] /\ row'[v] = row[v] /\ serves'[v] = serves[v]
      /\ \A j \in Invoices : accepted'[j] = IF j = serves[w] THEN TRUE ELSE accepted[j]
      /\ UNCHANGED <<rowVars, lock, stripeVars, payment, offline>>
  BY DEF Issue, EndCall, IInv, TypeOK
<1>3. RowsKept' /\ Locked' /\ Minting'
  BY <1>1, <1>2, CallMoves
<1>4. TypeOK'
  BY <1>1 DEF Issue, EndCall, IInv, TypeOK, rowVars, stripeVars
<1>5. Places'
  BY <1>2 DEF IInv, Places, rowVars
<1>6. Receipts'
  BY <1>1, <1>2 DEF IInv, Receipts, rowVars
<1>7. QED
  BY <1>3, <1>4, <1>5, <1>6 DEF IInv, RowsKept, Failures

LEMMA ClickMintKeeps ==
  ASSUME IInv, NEW w \in Workers, NEW r \in Rows, ClickMint(w, r) PROVE IInv'
<1>1. madeFor[r] \in Invoices
  BY DEF ClickMint, Clickable, IInv, Made, TypeOK
<1>2. /\ pc[w] = "idle" /\ serves[w] = None
      /\ pc'[w] = "request" /\ row'[w] = r /\ serves' = serves
      /\ \A v \in Workers : v # w => pc'[v] = pc[v] /\ row'[v] = row[v]
      /\ UNCHANGED <<rowVars, lock, stripeVars, invoiceVars>>
  BY DEF ClickMint, Goto, IInv, TypeOK, Places
<1>3. RowsKept' /\ Locked' /\ Minting'
  BY <1>1, <1>2, CallMoves
<1>4. TypeOK'
  BY DEF ClickMint, Goto, IInv, TypeOK, rowVars, stripeVars, invoiceVars
<1>5. Places'
  BY <1>1, <1>2 DEF IInv, Places, rowVars, invoiceVars
<1>6. Receipts'
  BY <1>2 DEF IInv, Receipts, rowVars, invoiceVars
<1>7. QED
  BY <1>3, <1>4, <1>5, <1>6 DEF IInv, RowsKept, Failures

LEMMA GiveUpKeeps ==
  ASSUME IInv, NEW w \in Workers, GiveUp(w) PROVE IInv'
<1>1. /\ pc'[w] = "idle" /\ serves'[w] = None
      /\ \A v \in Workers : v # w => pc'[v] = pc[v] /\ row'[v] = row[v] /\ serves'[v] = serves[v]
      /\ \A r \in Rows : lock'[r] = IF lock[r] = w THEN None ELSE lock[r]
      /\ UNCHANGED <<rowVars, stripeVars, invoiceVars>>
  BY DEF GiveUp, EndCall, IInv, TypeOK
<1>2. RowsKept'
  BY <1>1, RowsUnchanged
<1>3. TypeOK'
  BY DEF GiveUp, EndCall, IInv, TypeOK, rowVars, stripeVars, invoiceVars
<1>4. Places'
  BY <1>1 DEF IInv, Places, rowVars, invoiceVars
<1>5. Locked'
  <2> SUFFICES ASSUME NEW v \in Workers
               PROVE  /\ \A r \in Rows : lock'[r] = v <=> pc'[v] = "store" /\ row'[v] = r
                      /\ pc'[v] = "store" =>
                           rowStatus[row'[v]] \notin {"superseded", "paid", "refunded"}
    BY <1>1 DEF Locked, Collectible, rowVars
  <2>1. /\ \A r \in Rows : lock[r] = v <=> pc[v] = "store" /\ row[v] = r
        /\ pc[v] = "store" => rowStatus[row[v]] \notin {"superseded", "paid", "refunded"}
        /\ v # None
    BY PayLinkAssumption DEF IInv, Locked, Collectible
  <2>2. CASE v = w
    BY <1>1, <2>1, <2>2
  <2>3. CASE v # w
    BY <1>1, <2>1, <2>3
  <2>4. QED
    BY <2>2, <2>3
<1>6. Minting'
  BY <1>1 DEF IInv, Failures, Minting, stripeVars
<1>7. Receipts'
  BY <1>1 DEF IInv, Receipts, rowVars, invoiceVars
<1>8. QED
  BY <1>2, <1>3, <1>4, <1>5, <1>6, <1>7 DEF IInv, RowsKept, Failures

-----------------------------------------------------------------------------
(* The minting of a Session                                                *)

LEMMA RequestSessionKeeps ==
  ASSUME IInv, NEW w \in Workers, RequestSession(w) PROVE IInv'
<1> DEFINE r == row[w]
<1>1. r \in Rows /\ pc[w] = "request" /\ madeFor[r] \in Invoices
  BY DEF RequestSession, IInv, Places
<1>2. /\ pc' = [pc EXCEPT ![w] = "session"] /\ row' = [row EXCEPT ![w] = r]
      /\ requested' = [requested EXCEPT ![r] = TRUE] /\ aged' = [aged EXCEPT ![r] = FALSE]
      /\ UNCHANGED <<madeFor, rowStatus, generation, tracked, refunded, lock,
                     stripeVars, invoiceVars, serves>>
  BY DEF RequestSession, Goto
<1>3. /\ pc'[w] = "session" /\ row' = row
      /\ \A v \in Workers : v # w => pc'[v] = pc[v]
      /\ \A q \in Rows : requested'[q] = IF q = r THEN TRUE ELSE requested[q]
  BY <1>2 DEF IInv, TypeOK
<1>4. TypeOK'
  BY <1>1, <1>2 DEF IInv, TypeOK, stripeVars, invoiceVars
<1>5. Places'
  BY <1>1, <1>2, <1>3 DEF IInv, Places, invoiceVars
<1>6. Locked'
  BY <1>1, <1>2, <1>3 DEF IInv, Locked, Collectible
<1>7. Made' /\ OneRow' /\ Kept'
  BY <1>2 DEF IInv, Made, OneRow, Kept, stripeVars
<1>8. Tracking'
  BY <1>2, <1>3 DEF IInv, Tracking, First, stripeVars
<1>9. Books' /\ GivenBack'
  BY <1>2 DEF IInv, Books, GivenBack, First, Settled, stripeVars
<1>10. Failures'
  BY <1>1, <1>2, <1>3 DEF IInv, Failures, KnownFailed, Minting, First, stripeVars
<1>11. Receipts'
  BY <1>2 DEF IInv, Receipts, invoiceVars
<1>12. QED
  BY <1>4, <1>5, <1>6, <1>7, <1>8, <1>9, <1>10, <1>11 DEF IInv

\* Creation makes the first copy, or replays it.
LEMMA CreateSessionKeeps ==
  ASSUME IInv, NEW w \in Workers, CreateSession(w) PROVE IInv'
<1> DEFINE r == row[w]
<1>1. /\ r \in Rows /\ pc[w] \in {"request", "session"} /\ madeFor[r] \in Invoices
      /\ requested[r] /\ lock[r] = None /\ Collectible(r)
      /\ generation[r] \in 0 .. MaxGen /\ First(r) \in Sessions
  BY Parts DEF CreateSession, IInv, Places, TypeOK, First
<1>2. rowStatus[r] \notin {"absent", "superseded", "paid", "refunded"}
  BY <1>1, PayLinkAssumption DEF IInv, Made, Collectible
<1>3. /\ pc'[w] = "store" /\ row' = row /\ pc' = [pc EXCEPT ![w] = "store"]
      /\ \A v \in Workers : v # w => pc'[v] = pc[v]
      /\ lock' = [lock EXCEPT ![r] = w]
      /\ \A q \in Rows : lock'[q] = IF q = r THEN w ELSE lock[q]
      /\ UNCHANGED <<rowVars, returned, invoiceVars, serves>>
  BY <1>1 DEF CreateSession, Goto, IInv, TypeOK
<1>4. \/ session' = session
      \/ /\ session' = [session EXCEPT ![First(r)] = "open"]
         /\ session[First(r)] = "none" /\ tracked[r] = 0
  <2>1. CASE tracked[r] # 0 /\ UNCHANGED session
    BY <2>1
  <2>2. CASE /\ tracked[r] = 0 /\ ~aged[r]
             /\ session' = IF session[Answer(r)] = "none"
                           THEN [session EXCEPT ![Answer(r)] = "open"] ELSE session
    BY <2>2 DEF Answer, First
  <2>3. QED
    BY <2>1, <2>2 DEF CreateSession
<1>5. \A s \in Sessions : \/ session'[s] = session[s]
                          \/ /\ s = First(r) /\ session[s] = "none" /\ session'[s] = "open"
                             /\ tracked[r] = 0
  BY <1>1, <1>4 DEF IInv, TypeOK
<1>6. \A q \in Rows : \A g \in 0 .. MaxGen :
        /\ session'[<<q, g, 2>>] = session[<<q, g, 2>>]
        /\ \/ session'[<<q, g, 1>>] = session[<<q, g, 1>>]
           \/ /\ q = r /\ g = generation[r] /\ session[<<q, g, 1>>] = "none"
              /\ session'[<<q, g, 1>>] = "open" /\ tracked[r] = 0
  <2> SUFFICES ASSUME NEW q \in Rows, NEW g \in 0 .. MaxGen
               PROVE  /\ session'[<<q, g, 2>>] = session[<<q, g, 2>>]
                      /\ \/ session'[<<q, g, 1>>] = session[<<q, g, 1>>]
                         \/ /\ q = r /\ g = generation[r] /\ session[<<q, g, 1>>] = "none"
                            /\ session'[<<q, g, 1>>] = "open" /\ tracked[r] = 0
    OBVIOUS
  <2>1. <<q, g, 1>> \in Sessions /\ <<q, g, 2>> \in Sessions
    BY Parts
  <2>2. <<q, g, 2>> # First(r) /\ (<<q, g, 1>> = First(r) => q = r /\ g = generation[r])
    BY DEF First
  <2>3. QED
    BY <1>5, <2>1, <2>2
<1>7. \A q \in Rows : /\ First(q)' = First(q) /\ generation[q] \in 0 .. MaxGen
                      /\ \/ session'[First(q)] = session[First(q)]
                         \/ /\ q = r /\ session[First(q)] = "none" /\ session'[First(q)] = "open"
                            /\ tracked[r] = 0
  BY <1>3, <1>6 DEF IInv, TypeOK, First, rowVars
<1> HIDE DEF r
<1>8. TypeOK'
  BY <1>1, <1>3, <1>4 DEF IInv, TypeOK, SessionStates, rowVars, invoiceVars
<1>9. Places'
  BY <1>1, <1>3 DEF IInv, Places, rowVars, invoiceVars
<1>10. Locked'
  <2> SUFFICES ASSUME NEW v \in Workers
               PROVE  /\ \A q \in Rows : lock'[q] = v <=> pc'[v] = "store" /\ row[v] = q
                      /\ pc'[v] = "store" => Collectible(row[v])
    BY <1>3 DEF Locked, Collectible, rowVars
  <2>1. /\ \A q \in Rows : lock[q] = v <=> pc[v] = "store" /\ row[v] = q
        /\ pc[v] = "store" => Collectible(row[v])
    BY DEF IInv, Locked
  <2>2. CASE v = w
    BY <1>1, <1>3, <2>1, <2>2 DEF r
  <2>3. CASE v # w
    BY <1>1, <1>3, <2>1, <2>3, PayLinkAssumption
  <2>4. QED
    BY <2>2, <2>3
<1>11. Made'
  <2> SUFFICES ASSUME NEW q \in Rows
               PROVE  /\ madeFor[q] = None <=> rowStatus[q] = "absent"
                      /\ rowStatus[q] = "absent" =>
                           \A g \in 0 .. MaxGen : session'[<<q, g, 1>>] = "none"
    BY <1>3 DEF Made, rowVars
  <2>1. rowStatus[q] = "absent" => q # r
    BY <1>2
  <2>2. rowStatus[q] = "absent" => \A g \in 0 .. MaxGen : session[<<q, g, 1>>] = "none"
    BY DEF IInv, Made
  <2>3. madeFor[q] = None <=> rowStatus[q] = "absent"
    BY DEF IInv, Made
  <2>4. QED
    BY <1>6, <2>1, <2>2, <2>3
<1>12. OneRow'
  BY <1>3 DEF IInv, OneRow, rowVars
<1>13. Kept'
  <2> SUFFICES ASSUME NEW q \in Rows, NEW g \in 0 .. MaxGen
               PROVE  /\ session'[<<q, g, 2>>] = "none"
                      /\ g > generation[q] => session'[<<q, g, 1>>] = "none"
                      /\ g < generation[q] \/ rowStatus[q] = "superseded"
                           => session'[<<q, g, 1>>] \in Dead
    BY <1>3 DEF Kept, rowVars
  <2>1. CASE q = r /\ g = generation[r]
    BY <1>1, <1>2, <1>6, <2>1 DEF IInv, Kept
  <2>2. CASE ~(q = r /\ g = generation[r])
    BY <1>6, <2>2 DEF IInv, Kept
  <2>3. QED
    BY <2>1, <2>2
<1>14. Tracking'
  BY <1>1, <1>3, <1>7 DEF IInv, Tracking, rowVars
<1>15. Books'
  BY <1>2, <1>3, <1>7 DEF IInv, Books, Settled, rowVars
<1>16. GivenBack'
  BY <1>3, <1>5 DEF IInv, GivenBack
<1>17. KnownFailed'
  <2> SUFFICES ASSUME NEW q \in Rows, rowStatus[q] = "failed"
               PROVE  /\ \E g \in 0 .. MaxGen : session'[<<q, g, 1>>] = "failed"
                      /\ tracked[q] = 1 => session'[First(q)] = "failed"
    BY <1>3, <1>7 DEF KnownFailed, rowVars
  <2>1. PICK g \in 0 .. MaxGen : session[<<q, g, 1>>] = "failed"
    BY DEF IInv, Failures, KnownFailed
  <2>2. session'[<<q, g, 1>>] = "failed"
    BY <1>6, <2>1
  <2>3. tracked[q] = 1 => session'[First(q)] = "failed"
    BY <1>7 DEF IInv, Failures, KnownFailed
  <2>4. QED
    BY <2>2, <2>3
<1>18. Minting'
  <2> SUFFICES ASSUME NEW v \in Workers, pc'[v] \in {"request", "session", "store"},
                      serves[v] # None,
                      NEW g \in 0 .. MaxGen
               PROVE  session'[<<row[v], g, 1>>] # "failed"
    BY <1>3 DEF Minting
  <2>1. pc[v] \in {"request", "session", "store"} /\ row[v] \in Rows
    BY <1>1, <1>3 DEF IInv, Places
  <2>2. session[<<row[v], g, 1>>] # "failed"
    BY <2>1 DEF IInv, Failures, Minting
  <2>3. QED
    BY <1>6, <2>1, <2>2
<1>19. Receipts'
  BY <1>3 DEF IInv, Receipts, rowVars, invoiceVars
<1>20. QED
  BY <1>8, <1>9, <1>10, <1>11, <1>12, <1>13, <1>14, <1>15, <1>16, <1>17, <1>18, <1>19
     DEF IInv, Failures

\* The Session is recorded on the row, which is unlocked.
LEMMA StoreSessionKeeps ==
  ASSUME IInv, NEW w \in Workers, StoreSession(w) PROVE IInv'
<1> DEFINE r == row[w]
<1>1. /\ r \in Rows /\ pc[w] = "store" /\ madeFor[r] \in Invoices /\ lock[r] = w
      /\ rowStatus[r] \notin {"absent", "superseded", "paid", "refunded"}
  <2>1. r \in Rows /\ pc[w] = "store" /\ madeFor[r] \in Invoices
    BY DEF StoreSession, IInv, Places
  <2>2. lock[r] = w /\ Collectible(r)
    BY <2>1 DEF IInv, Locked
  <2>3. QED
    BY <2>1, <2>2, PayLinkAssumption DEF IInv, Made, Collectible
<1>2. First(r) \in Sessions /\ generation[r] \in 0 .. MaxGen
  BY <1>1, Parts DEF IInv, TypeOK, First
<1>3. /\ \A q \in Rows : tracked'[q] = IF q = r THEN 1 ELSE tracked[q]
      /\ tracked' \in [Rows -> 0 .. 2]
  <2>1. Newest(r) = 1
    BY <1>1, <1>2 DEF Newest, IInv, Kept
  <2>2. tracked[r] \in {0, 1}
    BY <1>1 DEF IInv, Tracking
  <2>3. tracked' = [tracked EXCEPT ![r] = 1]
    BY <2>1, <2>2 DEF StoreSession, IInv, TypeOK
  <2>4. tracked \in [Rows -> 0 .. 2] /\ 1 \in 0 .. 2
    BY DEF IInv, TypeOK
  <2>5. QED
    BY <2>3, <2>4
<1>4. /\ \A q \in Rows : lock'[q] = IF q = r THEN None ELSE lock[q]
      /\ lock' \in [Rows -> Workers \cup {None}]
      /\ UNCHANGED <<madeFor, generation, requested, aged, refunded, returned, invoiceVars>>
  BY DEF StoreSession, IInv, TypeOK
<1>5. \/ /\ serves[w] = None
         /\ rowStatus' = [rowStatus EXCEPT ![r] = "open"]
         /\ session' = [session EXCEPT ![First(r)] = IF @ = "open" THEN "offered" ELSE @]
         /\ EndCall(w)
      \/ /\ serves[w] # None
         /\ Goto(w, "attach", r)
         /\ UNCHANGED <<rowStatus, session>>
  BY <1>1, <1>3 DEF StoreSession, First
<1>6. /\ \A v \in Workers : v # w => pc'[v] = pc[v] /\ row'[v] = row[v] /\ serves'[v] = serves[v]
      /\ \/ pc'[w] = "idle" /\ serves'[w] = None /\ serves[w] = None
         \/ pc'[w] = "attach" /\ row'[w] = r /\ serves'[w] = serves[w] /\ serves[w] # None
  BY <1>5 DEF EndCall, Goto, IInv, TypeOK
<1>7. /\ \A q \in Rows : rowStatus'[q] = IF q = r /\ serves[w] = None THEN "open" ELSE rowStatus[q]
      /\ \A s \in Sessions :
           session'[s] = IF s = First(r) /\ serves[w] = None /\ session[s] = "open"
                         THEN "offered" ELSE session[s]
  BY <1>2, <1>5 DEF IInv, TypeOK
<1>8. \A q \in Rows : \A g \in 0 .. MaxGen :
        /\ session'[<<q, g, 2>>] = session[<<q, g, 2>>]
        /\ session'[<<q, g, 1>>] =
             IF q = r /\ g = generation[r] /\ serves[w] = None /\ session[<<q, g, 1>>] = "open"
             THEN "offered" ELSE session[<<q, g, 1>>]
  <2> SUFFICES ASSUME NEW q \in Rows, NEW g \in 0 .. MaxGen
               PROVE  /\ session'[<<q, g, 2>>] = session[<<q, g, 2>>]
                      /\ session'[<<q, g, 1>>] =
                           IF q = r /\ g = generation[r] /\ serves[w] = None
                              /\ session[<<q, g, 1>>] = "open"
                           THEN "offered" ELSE session[<<q, g, 1>>]
    OBVIOUS
  <2>1. <<q, g, 1>> \in Sessions /\ <<q, g, 2>> \in Sessions
    BY Parts
  <2>2. <<q, g, 2>> # First(r) /\ (<<q, g, 1>> = First(r) <=> q = r /\ g = generation[r])
    BY DEF First
  <2>3. QED
    BY <1>7, <2>1, <2>2
<1>9. \A q \in Rows :
        /\ First(q)' = First(q) /\ generation[q] \in 0 .. MaxGen
        /\ session'[First(q)] = IF q = r /\ serves[w] = None /\ session[First(q)] = "open"
                                THEN "offered" ELSE session[First(q)]
  BY <1>4, <1>8 DEF IInv, TypeOK, First
<1> HIDE DEF r
<1>10. TypeOK'
  <2>1. rowStatus' \in [Rows -> RowStatuses] /\ session' \in [Sessions -> SessionStates]
    BY <1>2, <1>5 DEF IInv, TypeOK, RowStatuses, SessionStates
  <2>2. /\ pc' \in [Workers -> {"idle", "create", "request", "session", "store", "attach", "send"}]
        /\ row' \in [Workers -> Rows \cup {None}] /\ serves' \in [Workers -> Invoices \cup {None}]
    BY <1>1, <1>5 DEF EndCall, Goto, IInv, TypeOK
  <2>3. QED
    BY <1>3, <1>4, <2>1, <2>2 DEF IInv, TypeOK, invoiceVars
<1>11. Places'
  <2> SUFFICES ASSUME NEW v \in Workers
               PROVE  /\ pc'[v] = "idle" => serves'[v] = None
                      /\ pc'[v] \in {"create", "attach", "send"} => serves'[v] \in Invoices
                      /\ pc'[v] \notin {"idle", "create"} =>
                           row'[v] \in Rows /\ madeFor[row'[v]] \in Invoices
                      /\ pc'[v] = "send" => payment[serves'[v]] = row'[v]
    BY <1>4 DEF Places, invoiceVars
  <2>1. CASE v = w
    <3>1. serves[w] \in Invoices \cup {None}
      BY DEF IInv, TypeOK
    <3>2. QED
      BY <1>1, <1>6, <2>1, <3>1
  <2>2. CASE v # w
    BY <1>6, <2>2 DEF IInv, Places
  <2>3. QED
    BY <2>1, <2>2
<1>12. Locked'
  <2> SUFFICES ASSUME NEW v \in Workers
               PROVE  /\ \A q \in Rows : lock'[q] = v <=> pc'[v] = "store" /\ row'[v] = q
                      /\ pc'[v] = "store" =>
                           rowStatus'[row'[v]] \notin {"superseded", "paid", "refunded"}
    BY DEF Locked, Collectible
  <2>1. /\ \A q \in Rows : lock[q] = v <=> pc[v] = "store" /\ row[v] = q
        /\ pc[v] = "store" =>
             row[v] \in Rows /\ rowStatus[row[v]] \notin {"superseded", "paid", "refunded"}
        /\ v # None
    BY PayLinkAssumption DEF IInv, Locked, Places, Collectible
  <2>2. CASE v = w
    BY <1>1, <1>4, <1>6, <2>1, <2>2 DEF r
  <2>3. CASE v # w
    <3>1. pc'[v] = pc[v] /\ row'[v] = row[v]
      BY <1>6, <2>3
    <3>2. \A q \in Rows : lock'[q] = v <=> lock[q] = v
      BY <1>1, <1>4, <2>1, <2>3
    <3>3. pc[v] = "store" => rowStatus'[row[v]] \notin {"superseded", "paid", "refunded"}
      BY <1>7, <2>1
    <3>4. QED
      BY <2>1, <3>1, <3>2, <3>3
  <2>4. QED
    BY <2>2, <2>3
<1>13. Made'
  <2> SUFFICES ASSUME NEW q \in Rows
               PROVE  /\ madeFor[q] = None <=> rowStatus'[q] = "absent"
                      /\ rowStatus'[q] = "absent" =>
                           \A g \in 0 .. MaxGen : session'[<<q, g, 1>>] = "none"
    BY <1>4 DEF Made
  <2>1. rowStatus'[q] = "absent" <=> rowStatus[q] = "absent"
    BY <1>1, <1>7
  <2>2. rowStatus[q] = "absent" => q # r
    BY <1>1
  <2>3. rowStatus[q] = "absent" => \A g \in 0 .. MaxGen : session[<<q, g, 1>>] = "none"
    BY DEF IInv, Made
  <2>4. madeFor[q] = None <=> rowStatus[q] = "absent"
    BY DEF IInv, Made
  <2>5. QED
    BY <1>8, <2>1, <2>2, <2>3, <2>4
<1>14. OneRow'
  BY <1>1, <1>4, <1>7 DEF IInv, OneRow
<1>15. Kept'
  <2> SUFFICES ASSUME NEW q \in Rows, NEW g \in 0 .. MaxGen
               PROVE  /\ session'[<<q, g, 2>>] = "none"
                      /\ g > generation[q] => session'[<<q, g, 1>>] = "none"
                      /\ g < generation[q] \/ rowStatus'[q] = "superseded"
                           => session'[<<q, g, 1>>] \in Dead
    BY <1>4 DEF Kept
  <2>1. rowStatus'[q] = "superseded" => q # r /\ rowStatus[q] = "superseded"
    BY <1>1, <1>7
  <2>2. CASE q = r /\ g = generation[r]
    BY <1>8, <1>9, <2>1, <2>2 DEF IInv, Kept
  <2>3. CASE ~(q = r /\ g = generation[r])
    BY <1>8, <2>1, <2>3 DEF IInv, Kept
  <2>4. QED
    BY <2>2, <2>3
<1>16. Tracking'
  <2>1. \A q \in Rows : session[First(q)] = "none" => session'[First(q)] = "none"
    BY <1>9
  <2>2. QED
    BY <1>1, <1>3, <1>4, <1>9, <2>1 DEF IInv, Tracking
<1>17. Books'
  <2>1. refunded[r] = 0
    BY <1>1 DEF IInv, Books, TypeOK, Settled
  <2>2. \A q \in Rows : /\ refunded'[q] = refunded[q] /\ returned'[First(q)] = returned[First(q)]
                        /\ q # r => rowStatus'[q] = rowStatus[q] /\ tracked'[q] = tracked[q]
                                    /\ session'[First(q)] = session[First(q)]
    BY <1>3, <1>4, <1>7, <1>9
  <2>3. rowStatus'[r] \notin {"paid", "refunded"}
    BY <1>1, <1>7
  <2>4. QED
    BY <1>9, <2>1, <2>2, <2>3 DEF IInv, Books, Settled
<1>18. GivenBack'
  BY <1>4, <1>7 DEF IInv, GivenBack
<1>19. \A q \in Rows : \A g \in 0 .. MaxGen :
         session'[<<q, g, 1>>] = "failed" <=> session[<<q, g, 1>>] = "failed"
  BY <1>8
<1>20. KnownFailed'
  <2> SUFFICES ASSUME NEW q \in Rows, rowStatus'[q] = "failed"
               PROVE  /\ \E g \in 0 .. MaxGen : session'[<<q, g, 1>>] = "failed"
                      /\ tracked'[q] = 1 => session'[First(q)] = "failed"
    BY <1>9 DEF KnownFailed
  <2>1. rowStatus[q] = "failed" /\ (q = r => serves[w] # None)
    BY <1>7
  <2>2. PICK g \in 0 .. MaxGen : session[<<q, g, 1>>] = "failed"
    BY <2>1 DEF IInv, Failures, KnownFailed
  <2>3. q # r
    BY <1>1, <2>1, <2>2 DEF IInv, Failures, Minting, r
  <2>4. QED
    BY <1>3, <1>9, <1>19, <2>1, <2>2, <2>3 DEF IInv, Failures, KnownFailed
<1>21. Minting'
  <2> SUFFICES ASSUME NEW v \in Workers, pc'[v] \in {"request", "session", "store"},
                      serves'[v] # None,
                      NEW g \in 0 .. MaxGen
               PROVE  session'[<<row'[v], g, 1>>] # "failed"
    BY DEF Minting
  <2>1. v # w
    BY <1>6
  <2>2. row[v] \in Rows /\ session[<<row[v], g, 1>>] # "failed"
    BY <1>6, <2>1 DEF IInv, Failures, Minting, Places
  <2>3. QED
    BY <1>6, <1>19, <2>1, <2>2
<1>22. Receipts'
  <2>1. \A q \in Rows : rowStatus[q] = "superseded" => rowStatus'[q] = "superseded"
    BY <1>1, <1>7
  <2>2. QED
    BY <1>4, <2>1 DEF IInv, Receipts, invoiceVars
<1>23. QED
  BY <1>10, <1>11, <1>12, <1>13, <1>14, <1>15, <1>16, <1>17, <1>18, <1>20, <1>21, <1>22
     DEF IInv, Failures

\* A click leaves a Session that cannot take money any more for a new one.
LEMMA ClickRenewKeeps ==
  ASSUME IInv, NEW w \in Workers, NEW r \in Rows, ClickRenew(w, r) PROVE IInv'
<1>1. /\ pc[w] = "idle" /\ serves[w] = None /\ lock[r] = None
      /\ rowStatus[r] \in {"open", "expired", "failed"} /\ madeFor[r] \in Invoices
      /\ tracked[r] = 1 /\ Current(r) = First(r) /\ requested[r] \in BOOLEAN
      /\ generation[r] \in 0 .. MaxGen /\ generation[r] < MaxGen /\ First(r) \in Sessions
  <2>1. pc[w] = "idle" /\ lock[r] = None /\ rowStatus[r] \in {"open", "expired", "failed"}
    BY DEF ClickRenew, Clickable
  <2>2. tracked[r] = 1 /\ generation[r] \in 0 .. MaxGen /\ generation[r] < MaxGen
    BY DEF ClickRenew, IInv, Tracking, TypeOK
  <2>3. madeFor[r] \in Invoices
    BY <2>1 DEF IInv, Made, TypeOK
  <2>4. requested[r] \in BOOLEAN /\ serves[w] = None
    BY <2>1 DEF IInv, TypeOK, Places
  <2>5. Current(r) = First(r) /\ First(r) \in Sessions
    BY <2>2, Parts DEF Current, First
  <2>6. QED
    BY <2>1, <2>2, <2>3, <2>4, <2>5
<1>2. /\ session' = [session EXCEPT ![First(r)] =
           IF session[First(r)] \in Live THEN "expired" ELSE session[First(r)]]
      /\ tracked' = [tracked EXCEPT ![r] = 0]
      /\ generation' = [generation EXCEPT ![r] = generation[r] + 1]
      /\ requested' = [requested EXCEPT ![r] = FALSE] /\ aged' = [aged EXCEPT ![r] = FALSE]
      /\ pc' = [pc EXCEPT ![w] = "request"] /\ row' = [row EXCEPT ![w] = r]
      /\ UNCHANGED <<madeFor, rowStatus, refunded, lock, returned, invoiceVars, serves>>
  BY <1>1 DEF ClickRenew, Goto
<1>3. session[First(r)] \in {"open", "offered", "expired", "failed"}
  <2>1. \/ session[First(r)] \in Live \cup {"expired"}
        \/ session[First(r)] \in {"processing", "failed"} /\ rowStatus[r] = "failed"
    BY <1>1 DEF ClickRenew, Replaceable
  <2>2. rowStatus[r] = "failed" => session[First(r)] = "failed"
    BY <1>1 DEF IInv, Failures, KnownFailed
  <2>3. QED
    BY <2>1, <2>2 DEF Live
<1>4. /\ \A q \in Rows : /\ tracked'[q] = IF q = r THEN 0 ELSE tracked[q]
                         /\ generation'[q] = IF q = r THEN generation[r] + 1 ELSE generation[q]
                         /\ requested'[q] = IF q = r THEN FALSE ELSE requested[q]
      /\ \A v \in Workers : v # w => pc'[v] = pc[v] /\ row'[v] = row[v]
      /\ pc'[w] = "request" /\ row'[w] = r
  BY <1>2 DEF IInv, TypeOK
<1>5. generation[r] + 1 \in 0 .. MaxGen /\ session[<<r, generation[r] + 1, 1>>] = "none"
  <2> DEFINE g == generation[r] + 1
  <2>1. g \in 0 .. MaxGen /\ g > generation[r]
    BY <1>1, PayLinkAssumption
  <2> HIDE DEF g
  <2>2. session[<<r, g, 1>>] = "none"
    BY <2>1 DEF IInv, Kept
  <2>3. QED
    BY <2>1, <2>2 DEF g
<1>6. \A q \in Rows : \A g \in 0 .. MaxGen :
        /\ session'[<<q, g, 2>>] = "none"
        /\ session'[<<q, g, 1>>] =
             IF q = r /\ g = generation[r] /\ session[<<q, g, 1>>] \in Live
             THEN "expired" ELSE session[<<q, g, 1>>]
  <2> SUFFICES ASSUME NEW q \in Rows, NEW g \in 0 .. MaxGen
               PROVE  /\ session'[<<q, g, 2>>] = "none"
                      /\ session'[<<q, g, 1>>] =
                           IF q = r /\ g = generation[r] /\ session[<<q, g, 1>>] \in Live
                           THEN "expired" ELSE session[<<q, g, 1>>]
    OBVIOUS
  <2>1. <<q, g, 1>> \in Sessions /\ <<q, g, 2>> \in Sessions
    BY Parts
  <2>2. <<q, g, 2>> # First(r) /\ (<<q, g, 1>> = First(r) <=> q = r /\ g = generation[r])
    BY DEF First
  <2>3. \A s \in Sessions : session'[s] = IF s = First(r) /\ session[s] \in Live
                                          THEN "expired" ELSE session[s]
    BY <1>1, <1>2 DEF IInv, TypeOK
  <2>4. session[<<q, g, 2>>] = "none"
    BY DEF IInv, Kept
  <2>5. QED
    BY <2>1, <2>2, <2>3, <2>4
<1>7. /\ First(r)' = <<r, generation[r] + 1, 1>> /\ session'[First(r)'] = "none"
      /\ session'[First(r)] \in Dead
  <2>1. session'[<<r, generation[r] + 1, 1>>] = "none"
    BY <1>5, <1>6 DEF Live
  <2>2. session'[<<r, generation[r], 1>>] \in Dead
    BY <1>1, <1>3, <1>6 DEF Live, Dead, First
  <2>3. QED
    BY <1>4, <2>1, <2>2 DEF First
<1>8. \A q \in Rows : q # r => /\ First(q)' = First(q) /\ session'[First(q)] = session[First(q)]
                               /\ tracked'[q] = tracked[q] /\ requested'[q] = requested[q]
  <2> SUFFICES ASSUME NEW q \in Rows, q # r
               PROVE  /\ First(q)' = First(q) /\ session'[First(q)] = session[First(q)]
                      /\ tracked'[q] = tracked[q] /\ requested'[q] = requested[q]
    OBVIOUS
  <2>1. generation[q] \in 0 .. MaxGen
    BY DEF IInv, TypeOK
  <2>2. First(q)' = First(q) /\ session'[First(q)] = session[First(q)]
    BY <1>4, <1>6, <2>1 DEF First
  <2>3. tracked'[q] = tracked[q] /\ requested'[q] = requested[q]
    BY <1>2 DEF IInv, TypeOK
  <2>4. QED
    BY <2>2, <2>3
<1>9. TypeOK'
  <2>1. session' \in [Sessions -> SessionStates]
    BY <1>2 DEF IInv, TypeOK, SessionStates
  <2>2. tracked' \in [Rows -> 0 .. 2] /\ generation' \in [Rows -> 0 .. MaxGen]
    BY <1>2, <1>5 DEF IInv, TypeOK
  <2>3. QED
    BY <1>2, <2>1, <2>2 DEF IInv, TypeOK, invoiceVars
<1>10. Places'
  BY <1>1, <1>2, <1>4 DEF IInv, Places, invoiceVars
<1>11. Locked'
  BY <1>1, <1>2, <1>4 DEF IInv, Locked, Collectible
<1>12. Made'
  <2> SUFFICES ASSUME NEW q \in Rows
               PROVE  /\ madeFor[q] = None <=> rowStatus[q] = "absent"
                      /\ rowStatus[q] = "absent" =>
                           \A g \in 0 .. MaxGen : session'[<<q, g, 1>>] = "none"
    BY <1>2 DEF Made
  <2>1. /\ madeFor[q] = None <=> rowStatus[q] = "absent"
        /\ rowStatus[q] = "absent" => \A g \in 0 .. MaxGen : session[<<q, g, 1>>] = "none"
    BY DEF IInv, Made
  <2>2. QED
    BY <1>1, <1>6, <2>1
<1>13. OneRow'
  BY <1>2 DEF IInv, OneRow
<1>14. Kept'
  <2> SUFFICES ASSUME NEW q \in Rows, NEW g \in 0 .. MaxGen
               PROVE  /\ session'[<<q, g, 2>>] = "none"
                      /\ g > generation'[q] => session'[<<q, g, 1>>] = "none"
                      /\ g < generation'[q] \/ rowStatus[q] = "superseded"
                           => session'[<<q, g, 1>>] \in Dead
    BY <1>2 DEF Kept
  <2>1. /\ g > generation[q] => session[<<q, g, 1>>] = "none"
        /\ g < generation[q] \/ rowStatus[q] = "superseded" => session[<<q, g, 1>>] \in Dead
    BY DEF IInv, Kept
  <2>2. CASE q # r
    BY <1>4, <1>6, <2>1, <2>2
  <2>3. CASE q = r
    <3>1. rowStatus[q] # "superseded" /\ generation'[q] = generation[r] + 1
      BY <1>1, <1>4, <2>3
    <3>2. g > generation[r] + 1 => g > generation[r] /\ g # generation[r]
      BY <1>1, PayLinkAssumption
    <3>3. g < generation[r] + 1 => g = generation[r] \/ (g < generation[r] /\ g # generation[r])
      BY <1>1, PayLinkAssumption
    <3>4. g = generation[r] => session'[<<q, g, 1>>] \in Dead
      BY <1>7, <2>3 DEF First
    <3>5. g # generation[r] => session'[<<q, g, 1>>] = session[<<q, g, 1>>]
      BY <1>6
    <3>6. session'[<<q, g, 2>>] = "none"
      BY <1>6
    <3>7. QED
      BY <2>1, <2>3, <3>1, <3>2, <3>3, <3>4, <3>5, <3>6
  <2>4. QED
    BY <2>2, <2>3
<1>15. Tracking'
  <2> SUFFICES ASSUME NEW q \in Rows
               PROVE  /\ tracked'[q] \in {0, 1}
                      /\ tracked'[q] = 0 => session'[First(q)'] \in {"none", "open", "expired"}
                      /\ ~requested'[q] => session'[First(q)'] = "none"
    BY DEF Tracking
  <2>1. CASE q = r
    BY <1>4, <1>7, <2>1
  <2>2. CASE q # r
    BY <1>8, <2>2 DEF IInv, Tracking
  <2>3. QED
    BY <2>1, <2>2
<1>16. GivenBack' /\ returned[First(r)'] = 0
  <2>1. \A s \in Sessions : session[s] = "paid" => session'[s] = "paid"
    BY <1>2, <1>3 DEF IInv, TypeOK
  <2>2. First(r)' \in Sessions
    BY <1>5, <1>7, Parts
  <2>3. session[First(r)'] = "none"
    BY <1>5, <1>7
  <2>4. QED
    BY <1>2, <2>1, <2>2, <2>3 DEF IInv, GivenBack, TypeOK
<1>17. Books'
  <2> SUFFICES ASSUME NEW q \in Rows
               PROVE  /\ rowStatus[q] \in {"paid", "refunded"} =>
                           tracked'[q] = 1 /\ session'[First(q)'] = "paid"
                      /\ refunded[q] > 0 => rowStatus[q] \in {"paid", "refunded"}
                      /\ refunded[q] <= returned[First(q)']
                      /\ rowStatus[q] = "refunded" => refunded[q] = 2
    BY <1>2 DEF Books, Settled
  <2>1. CASE q = r
    <3>1. refunded[r] = 0
      BY <1>1 DEF IInv, Books, Settled, TypeOK
    <3>2. QED
      BY <1>1, <1>16, <2>1, <3>1
  <2>2. CASE q # r
    BY <1>8, <2>2 DEF IInv, Books, Settled
  <2>3. QED
    BY <2>1, <2>2
<1>18. \A q \in Rows : \A g \in 0 .. MaxGen :
         session'[<<q, g, 1>>] = "failed" <=> session[<<q, g, 1>>] = "failed"
  BY <1>6 DEF Live
<1>19. KnownFailed'
  <2> SUFFICES ASSUME NEW q \in Rows, rowStatus[q] = "failed"
               PROVE  /\ \E g \in 0 .. MaxGen : session'[<<q, g, 1>>] = "failed"
                      /\ tracked'[q] = 1 => session'[First(q)'] = "failed"
    BY <1>2 DEF KnownFailed
  <2>1. /\ \E g \in 0 .. MaxGen : session[<<q, g, 1>>] = "failed"
        /\ tracked[q] = 1 => session[First(q)] = "failed"
    BY DEF IInv, Failures, KnownFailed
  <2>2. \E g \in 0 .. MaxGen : session'[<<q, g, 1>>] = "failed"
    BY <1>18, <2>1
  <2>3. tracked'[r] = 0
    BY <1>2 DEF IInv, TypeOK
  <2>4. QED
    BY <1>8, <2>1, <2>2, <2>3
<1>20. Minting'
  <2> SUFFICES ASSUME NEW v \in Workers, pc'[v] \in {"request", "session", "store"},
                      serves[v] # None,
                      NEW g \in 0 .. MaxGen
               PROVE  session'[<<row'[v], g, 1>>] # "failed"
    BY <1>2 DEF Minting
  <2>1. v # w
    BY <1>1
  <2>2. row[v] \in Rows /\ session[<<row[v], g, 1>>] # "failed"
    BY <1>4, <2>1 DEF IInv, Failures, Minting, Places
  <2>3. QED
    BY <1>4, <1>18, <2>1, <2>2
<1>21. Receipts'
  BY <1>2 DEF IInv, Receipts, invoiceVars
<1>22. QED
  BY <1>9, <1>10, <1>11, <1>12, <1>13, <1>14, <1>15, <1>16, <1>17, <1>19, <1>20, <1>21
     DEF IInv, Failures

-----------------------------------------------------------------------------
(* The invariant                                                           *)

LEMMA NextKeeps == IInv /\ [Next]_vars => IInv'
<1> SUFFICES ASSUME IInv, [Next]_vars PROVE IInv'
  OBVIOUS
<1>1. ASSUME NEW w \in Workers, Call(w) PROVE IInv'
  BY <1>1, ReusePaymentKeeps, MakePaymentKeeps, RequestSessionKeeps, CreateSessionKeeps,
     StoreSessionKeeps, AttachKeeps, IssueKeeps DEF Call
<1>2. ASSUME NEW w \in Workers, GiveUp(w) PROVE IInv'
  BY <1>2, GiveUpKeeps
<1>3. ASSUME NEW w \in Workers, NEW i \in Invoices, Deliver(w, i) PROVE IInv'
  BY <1>3, DeliverKeeps
<1>4. ASSUME NEW w \in Workers, NEW r \in Rows, ClickRenew(w, r) \/ ClickMint(w, r) PROVE IInv'
  BY <1>4, ClickRenewKeeps, ClickMintKeeps
<1>5. ASSUME NEW r \in Rows, ClickPaid(r) \/ ClickRedirect(r) \/ Age(r) PROVE IInv'
  BY <1>5, ClickPaidKeeps, ClickRedirectKeeps, AgeKeeps
<1>6. ASSUME NEW s \in Sessions, Stripe(s) \/ GiveBack(s) PROVE IInv'
  BY <1>6, StripeKeeps, GiveBackKeeps
<1>7. ASSUME NEW s \in Sessions, PaidEvent(s) \/ ExpiredEvent(s) \/ FailedEvent(s) PROVE IInv'
  BY <1>7, PaidEventKeeps, ExpiredEventKeeps, FailedEventKeeps
<1>8. ASSUME NEW s \in Sessions, NEW n \in 1 .. 2, RefundEvent(s, n) PROVE IInv'
  BY <1>8, RefundEventKeeps
<1>9. ASSUME NEW i \in Invoices, NEW n \in 1 .. Amount[i], RecordOffline(i, n) PROVE IInv'
  BY <1>9, RecordOfflineKeeps
<1>10. CASE UNCHANGED vars
  <2>1. RowsKept'
    BY <1>10, RowsUnchanged DEF vars
  <2>2. TypeOK'
    BY <1>10 DEF IInv, TypeOK, vars, rowVars, stripeVars, invoiceVars, callVars
  <2>3. Places' /\ Locked' /\ Minting' /\ Receipts'
    BY <1>10 DEF IInv, Places, Locked, Failures, Minting, Receipts, Collectible,
       vars, rowVars, stripeVars, invoiceVars, callVars
  <2>4. QED
    BY <2>1, <2>2, <2>3 DEF IInv, RowsKept, Failures
<1>11. QED
  BY <1>1, <1>2, <1>3, <1>4, <1>5, <1>6, <1>7, <1>8, <1>9, <1>10 DEF Next

LEMMA Invariant == Spec => []IInv
<1>1. Init => IInv
  BY InitHolds
<1>2. IInv /\ [Next]_vars => IInv'
  BY NextKeeps
<1>3. QED
  BY <1>1, <1>2, PTL DEF Spec

\* Every variable keeps its type; the receipts of an invoice never exceed what
\* is owed on it.
THEOREM PayTypeCorrect == Spec => []TypeOK
<1>1. IInv => TypeOK
  BY DEF IInv
<1>2. QED
  BY <1>1, Invariant, PTL

\* At most one Session of a billing period can take or has taken the
\* customer's money: only the first copy of the current generation of a row
\* that was not retired can, and a period has one such row.
THEOREM OneSessionCollects == Spec => []OneCollectible
<1>1. IInv => OneCollectible
  <2> SUFFICES ASSUME IInv, NEW s \in Sessions, NEW t \in Sessions,
                      session[s] \in Live \cup {"processing", "paid"},
                      session[t] \in Live \cup {"processing", "paid"},
                      PeriodKey[madeFor[s[1]]] = PeriodKey[madeFor[t[1]]]
               PROVE  s = t
    BY DEF OneCollectible
  <2>1. s[1] \in Rows /\ s = First(s[1]) /\ rowStatus[s[1]] \notin {"absent", "superseded"}
    BY AliveIsFirst DEF Live, Dead
  <2>2. t[1] \in Rows /\ t = First(t[1]) /\ rowStatus[t[1]] \notin {"absent", "superseded"}
    BY AliveIsFirst DEF Live, Dead
  <2>3. s[1] = t[1]
    BY <2>1, <2>2 DEF IInv, OneRow
  <2>4. QED
    BY <2>1, <2>2, <2>3
<1>2. QED
  BY <1>1, Invariant, PTL

\* A Session in the customer's hands, a debit on its way and a payment are of
\* the Session that a row which was not retired tracks, so that no webhook
\* handler drops their events.
THEOREM MoneyAlwaysTracked == Spec => []MoneyIsTracked
<1>1. IInv => MoneyIsTracked
  BY PaidIsTracked DEF MoneyIsTracked
<1>2. QED
  BY <1>1, Invariant, PTL

\* The row says paid or refunded only of money that Stripe took or gave back.
THEOREM BooksAreStripes == Spec => []BooksMatchStripe
<1>1. IInv => BooksMatchStripe
  <2> SUFFICES ASSUME IInv, NEW r \in Rows
               PROVE  /\ Settled(r) => tracked[r] # 0 /\ session[Current(r)] = "paid"
                      /\ tracked[r] # 0 => refunded[r] <= returned[Current(r)]
                      /\ rowStatus[r] = "refunded" => refunded[r] = 2
    BY DEF BooksMatchStripe
  <2>1. tracked[r] # 0 => Current(r) = First(r)
    BY DEF IInv, Tracking, Current, First
  <2>2. QED
    BY <2>1 DEF IInv, Books
<1>2. QED
  BY <1>1, Invariant, PTL

\* Once an offline receipt is on an invoice, its online link takes no money.
THEOREM NoSecondCollection == Spec => []NoParallelCollection
<1>1. IInv => NoParallelCollection
  BY PaidIsTracked DEF NoParallelCollection, IInv, Receipts
<1>2. QED
  BY <1>1, Invariant, PTL

-----------------------------------------------------------------------------
(* What a step may never do                                                *)

\* What SettledForever says of one row.
RowSettled(r) ==
  /\ rowStatus[r] = "paid" => rowStatus'[r] \in {"paid", "refunded"}
  /\ rowStatus[r] \in {"refunded", "superseded"} => rowStatus'[r] = rowStatus[r]
  /\ refunded'[r] >= refunded[r]

\* It holds where refunded is kept and only unsettled rows change status.
LEMMA SettledIfKept ==
  ASSUME IInv, NEW r \in Rows, UNCHANGED refunded,
         rowStatus[r] \in {"paid", "refunded", "superseded"} =>
           \/ rowStatus'[r] = rowStatus[r]
           \/ rowStatus[r] = "paid" /\ rowStatus'[r] = "refunded"
  PROVE  RowSettled(r)
<1>1. refunded[r] \in 0 .. 2
  BY DEF IInv, TypeOK
<1>2. QED
  BY <1>1 DEF RowSettled

LEMMA CallSettles ==
  ASSUME IInv, NEW w \in Workers, Call(w), NEW r \in Rows PROVE RowSettled(r)
<1>1. CASE ReusePayment(w) \/ RequestSession(w) \/ CreateSession(w) \/ Attach(w) \/ Issue(w)
  BY <1>1, SettledIfKept
     DEF ReusePayment, RequestSession, CreateSession, Attach, Issue, rowVars
<1>2. CASE MakePayment(w)
  <2>1. NewRow \in Rows /\ rowStatus[NewRow] = "absent"
    BY <1>2 DEF MakePayment, NewRow, IInv, Made
  <2> DEFINE made == [rowStatus EXCEPT ![NewRow] = "open"]
  <2>2. \/ rowStatus' = made
        \/ \E q \in Existing(serves[w]) : Retire(q, made)
    BY <1>2 DEF MakePayment
  <2>3. rowStatus[r] \in {"paid", "refunded", "superseded"} => made[r] = rowStatus[r]
    BY <2>1 DEF IInv, TypeOK
  <2>4. made \in [Rows -> RowStatuses]
    BY DEF IInv, TypeOK, RowStatuses
  <2> HIDE DEF made
  <2>5. ASSUME NEW q \in Existing(serves[w]), Retire(q, made)
        PROVE  rowStatus[r] \in {"paid", "refunded", "superseded"} => rowStatus'[r] = rowStatus[r]
    BY <2>3, <2>4, <2>5 DEF Existing, Retire, Retirable, Settled
  <2>6. refunded' = refunded
    BY <1>2 DEF MakePayment
  <2>7. QED
    BY <2>2, <2>3, <2>5, <2>6, SettledIfKept
<1>3. CASE StoreSession(w)
  <2>1. row[w] \in Rows /\ Collectible(row[w])
    BY <1>3 DEF StoreSession, IInv, Places, Locked
  <2>2. rowStatus[r] \in {"paid", "refunded", "superseded"} => rowStatus'[r] = rowStatus[r]
    BY <1>3, <2>1 DEF StoreSession, Collectible, IInv, TypeOK
  <2>3. refunded' = refunded
    BY <1>3 DEF StoreSession
  <2>4. QED
    BY <2>2, <2>3, SettledIfKept
<1>4. QED
  BY <1>1, <1>2, <1>3 DEF Call

LEMMA OfflineSettles ==
  ASSUME IInv, NEW i \in Invoices, NEW n \in 1 .. Amount[i], RecordOffline(i, n), NEW r \in Rows
  PROVE  RowSettled(r)
<1>1. \/ rowStatus' = rowStatus
      \/ Retire(payment[i], rowStatus)
  BY DEF RecordOffline
<1>2. rowStatus[r] \in {"paid", "refunded", "superseded"} => rowStatus'[r] = rowStatus[r]
  BY <1>1 DEF Retire, Retirable, Settled, IInv, TypeOK
<1>3. refunded' = refunded
  BY DEF RecordOffline
<1>4. QED
  BY <1>2, <1>3, SettledIfKept

LEMMA EventSettles ==
  ASSUME IInv, NEW s \in Sessions, PaidEvent(s) \/ ExpiredEvent(s) \/ FailedEvent(s), NEW r \in Rows
  PROVE  RowSettled(r)
<1>1. refunded' = refunded
  BY DEF PaidEvent, ExpiredEvent, FailedEvent
<1>2. rowStatus[r] \in {"paid", "refunded", "superseded"} => rowStatus'[r] = rowStatus[r]
  BY DEF PaidEvent, ExpiredEvent, FailedEvent, Collectible, IInv, TypeOK
<1>3. QED
  BY <1>1, <1>2, SettledIfKept

\* A report of a refund is of the Session that the row tracks, and of less
\* than all of it only while the row says less than all.
LEMMA RefundSettles ==
  ASSUME IInv, NEW s \in Sessions, NEW n \in 1 .. 2, RefundEvent(s, n), NEW r \in Rows
  PROVE  RowSettled(r)
<1> DEFINE q == s[1]
           total == Greater(refunded[q], n)
<1>1. returned[s] \in 0 .. 2 /\ n <= returned[s]
  BY DEF RefundEvent, IInv, TypeOK
<1>2. session[s] = "paid"
  BY <1>1 DEF IInv, GivenBack
<1>3. q \in Rows /\ rowStatus[q] # "superseded"
  BY <1>2, PaidIsTracked
<1>4. refunded[q] \in 0 .. 2 /\ (rowStatus[q] = "refunded" => refunded[q] = 2)
  BY <1>3 DEF IInv, TypeOK, Books
<1>5. total \in 0 .. 2 /\ total >= refunded[q] /\ (refunded[q] = 2 => total = 2)
  BY <1>4 DEF Greater
<1>6. /\ refunded' = [refunded EXCEPT ![q] = total]
      /\ rowStatus' = [rowStatus EXCEPT ![q] = IF total = 2 THEN "refunded" ELSE "paid"]
  BY DEF RefundEvent
<1> HIDE DEF q, total
<1>7. /\ refunded'[r] = IF r = q THEN total ELSE refunded[r]
      /\ rowStatus'[r] = IF r = q THEN (IF total = 2 THEN "refunded" ELSE "paid") ELSE rowStatus[r]
      /\ refunded[r] \in 0 .. 2
  BY <1>6 DEF IInv, TypeOK
<1>8. QED
  BY <1>3, <1>4, <1>5, <1>7 DEF RowSettled

LEMMA StepSettles == IInv /\ [Next]_vars => \A r \in Rows : RowSettled(r)
<1> SUFFICES ASSUME IInv, [Next]_vars, NEW r \in Rows PROVE RowSettled(r)
  OBVIOUS
<1>1. ASSUME UNCHANGED <<rowStatus, refunded>> PROVE RowSettled(r)
  BY <1>1, SettledIfKept
<1>2. ASSUME NEW w \in Workers, Call(w) PROVE RowSettled(r)
  BY <1>2, CallSettles
<1>3. ASSUME NEW w \in Workers, GiveUp(w) PROVE RowSettled(r)
  BY <1>1, <1>3 DEF GiveUp, rowVars
<1>4. ASSUME NEW w \in Workers, NEW i \in Invoices, Deliver(w, i) PROVE RowSettled(r)
  BY <1>1, <1>4 DEF Deliver, rowVars
<1>5. ASSUME NEW w \in Workers, NEW q \in Rows, ClickRenew(w, q) \/ ClickMint(w, q)
      PROVE  RowSettled(r)
  BY <1>1, <1>5 DEF ClickRenew, ClickMint, rowVars
<1>6. ASSUME NEW q \in Rows, ClickPaid(q) PROVE RowSettled(r)
  <2>1. refunded' = refunded
    BY <1>6 DEF ClickPaid
  <2>2. rowStatus[r] \in {"paid", "refunded", "superseded"} => rowStatus'[r] = rowStatus[r]
    BY <1>6 DEF ClickPaid, Clickable, IInv, TypeOK
  <2>3. QED
    BY <2>1, <2>2, SettledIfKept
<1>7. ASSUME NEW q \in Rows, ClickRedirect(q) \/ Age(q) PROVE RowSettled(r)
  BY <1>1, <1>7 DEF ClickRedirect, Age, rowVars
<1>8. ASSUME NEW s \in Sessions, Stripe(s) \/ GiveBack(s) PROVE RowSettled(r)
  BY <1>1, <1>8 DEF Stripe, Become, GiveBack, rowVars
<1>9. ASSUME NEW s \in Sessions, PaidEvent(s) \/ ExpiredEvent(s) \/ FailedEvent(s)
      PROVE  RowSettled(r)
  BY <1>9, EventSettles
<1>10. ASSUME NEW s \in Sessions, NEW n \in 1 .. 2, RefundEvent(s, n) PROVE RowSettled(r)
  BY <1>10, RefundSettles
<1>11. ASSUME NEW i \in Invoices, NEW n \in 1 .. Amount[i], RecordOffline(i, n)
       PROVE  RowSettled(r)
  BY <1>11, OfflineSettles
<1>12. CASE UNCHANGED vars
  BY <1>1, <1>12 DEF vars, rowVars
<1>13. QED
  BY <1>2, <1>3, <1>4, <1>5, <1>6, <1>7, <1>8, <1>9, <1>10, <1>11, <1>12 DEF Next

\* A settled row is never reopened, a full refund never becomes a payment
\* again, a retired row stays retired, and refunds only grow, whatever the
\* order and the repetitions in which Stripe's events arrive.
THEOREM SettledStays == Spec => SettledForever
<1>1. IInv /\ [Next]_vars =>
        [\A r \in Rows :
           /\ rowStatus[r] = "paid" => rowStatus'[r] \in {"paid", "refunded"}
           /\ rowStatus[r] \in {"refunded", "superseded"} => rowStatus'[r] = rowStatus[r]
           /\ refunded'[r] >= refunded[r]]_vars
  BY StepSettles DEF RowSettled
<1>2. QED
  BY <1>1, Invariant, PTL DEF Spec, SettledForever

-----------------------------------------------------------------------------
(* Whose link is whose                                                     *)

\* Invoices that end on one day differ in their amount, so that no delivery
\* takes over the row of another invoice.
LinksApart ==
  \A i, j \in Invoices : PeriodKey[i] = PeriodKey[j] /\ Amount[i] = Amount[j] => i = j

\* An invoice, and the processes that deliver it, only know the rows made for it.
OwnLink ==
  /\ \A i \in Invoices : payment[i] # None => madeFor[payment[i]] = i
  /\ \A w \in Workers :
       pc[w] \notin {"idle", "create"} /\ serves[w] # None => madeFor[row[w]] = serves[w]

\* It holds where no link moves to another row.
LEMMA OwnLinkKept ==
  ASSUME IInv, OwnLink, UNCHANGED <<madeFor, payment>>,
         \A w \in Workers :
           pc'[w] \notin {"idle", "create"} /\ serves'[w] # None
             => /\ pc[w] \notin {"idle", "create"}
                /\ serves'[w] = serves[w] /\ row'[w] = row[w]
  PROVE  OwnLink'
BY DEF OwnLink

LEMMA CallKeepsOwnLink ==
  ASSUME LinksApart, IInv, OwnLink, NEW w \in Workers, Call(w)
  PROVE  OwnLink'
<1>1. CASE ReusePayment(w)
  <2>1. serves[w] \in Invoices /\ pc[w] = "create"
    BY <1>1 DEF ReusePayment, IInv, Places
  <2>2. PICK r \in Existing(serves[w]) :
          Amount[madeFor[r]] = Amount[serves[w]] /\ Goto(w, "attach", r)
    BY <1>1 DEF ReusePayment
  <2>3. /\ r \in Rows /\ rowStatus[r] # "absent"
        /\ PeriodKey[madeFor[r]] = PeriodKey[serves[w]]
    BY DEF Existing
  <2>4. madeFor[r] \in Invoices
    BY <2>3 DEF IInv, Made, TypeOK
  <2>5. madeFor[r] = serves[w]
    BY <2>1, <2>2, <2>3, <2>4 DEF LinksApart
  <2>6. UNCHANGED <<madeFor, payment>>
    BY <1>1 DEF ReusePayment, rowVars, invoiceVars
  <2>7. QED
    BY <2>2, <2>5, <2>6 DEF OwnLink, Goto, IInv, TypeOK
<1>2. CASE MakePayment(w)
  <2> DEFINE i == serves[w]
  <2>1. i \in Invoices /\ pc[w] = "create"
    BY <1>2 DEF MakePayment, IInv, Places
  <2>2. NewRow \in Rows /\ madeFor[NewRow] = None
    BY <1>2 DEF MakePayment, NewRow
  <2>3. /\ madeFor' = [madeFor EXCEPT ![NewRow] = i]
        /\ Goto(w, "request", NewRow)
        /\ UNCHANGED invoiceVars
    BY <1>2 DEF MakePayment
  <2> HIDE DEF i
  <2>4. \A r \in Rows \ {NewRow} : madeFor'[r] = madeFor[r]
    BY <2>3 DEF IInv, TypeOK
  <2>5. madeFor'[NewRow] = i
    BY <2>2, <2>3 DEF IInv, TypeOK
  <2>6. \A j \in Invoices : payment[j] # None => payment[j] \in Rows /\ payment[j] # NewRow
    BY <2>2, PayLinkAssumption DEF IInv, Receipts, TypeOK
  <2>7. ASSUME NEW v \in Workers, pc'[v] \notin {"idle", "create"}, serves'[v] # None
        PROVE  madeFor'[row'[v]] = serves'[v]
    <3>1. CASE v = w
      BY <2>3, <2>5, <3>1 DEF Goto, IInv, TypeOK, i
    <3>2. CASE v # w
      <4>1. pc'[v] = pc[v] /\ serves'[v] = serves[v] /\ row'[v] = row[v]
        BY <2>3, <3>2 DEF Goto, IInv, TypeOK
      <4>2. row[v] \in Rows /\ madeFor[row[v]] \in Invoices /\ madeFor[row[v]] = serves[v]
        BY <2>7, <4>1 DEF IInv, Places, OwnLink
      <4>3. row[v] # NewRow
        BY <2>2, <4>2, PayLinkAssumption
      <4>4. QED
        BY <2>4, <4>1, <4>2, <4>3
    <3>3. QED
      BY <3>1, <3>2
  <2>8. QED
    BY <2>3, <2>4, <2>6, <2>7 DEF OwnLink, invoiceVars
<1>3. CASE RequestSession(w) \/ CreateSession(w)
  BY <1>3, OwnLinkKept
     DEF RequestSession, CreateSession, Goto, rowVars, invoiceVars, IInv, TypeOK
<1>4. CASE StoreSession(w)
  <2>1. UNCHANGED <<madeFor, payment>> /\ pc[w] = "store"
    BY <1>4 DEF StoreSession, invoiceVars
  <2>2. EndCall(w) \/ Goto(w, "attach", row[w])
    BY <1>4 DEF StoreSession
  <2>3. QED
    BY <2>1, <2>2, OwnLinkKept DEF EndCall, Goto, IInv, TypeOK
<1>5. CASE Attach(w)
  <2>1. serves[w] \in Invoices /\ pc[w] = "attach" /\ row[w] \in Rows
    BY <1>5 DEF Attach, IInv, Places
  <2>2. serves[w] # None /\ madeFor[row[w]] = serves[w]
    BY <2>1, PayLinkAssumption DEF OwnLink
  <2>3. /\ payment' = [payment EXCEPT ![serves[w]] = row[w]]
        /\ UNCHANGED madeFor /\ Goto(w, "send", row[w])
    BY <1>5 DEF Attach, rowVars
  <2>4. QED
    BY <2>1, <2>2, <2>3 DEF OwnLink, Goto, IInv, TypeOK
<1>6. CASE Issue(w)
  BY <1>6, OwnLinkKept DEF Issue, EndCall, rowVars, IInv, TypeOK
<1>7. QED
  BY <1>1, <1>2, <1>3, <1>4, <1>5, <1>6 DEF Call

LEMMA OwnLinkStep ==
  ASSUME LinksApart, IInv, OwnLink, [Next]_vars
  PROVE  OwnLink'
<1>1. ASSUME NEW w \in Workers, GiveUp(w)
      PROVE  OwnLink'
  BY <1>1, OwnLinkKept DEF GiveUp, EndCall, rowVars, invoiceVars, IInv, TypeOK
<1>2. ASSUME NEW w \in Workers, NEW i \in Invoices, Deliver(w, i)
      PROVE  OwnLink'
  BY <1>2, OwnLinkKept DEF Deliver, rowVars, invoiceVars, IInv, TypeOK
<1>3. ASSUME NEW w \in Workers, NEW r \in Rows, ClickRenew(w, r) \/ ClickMint(w, r)
      PROVE  OwnLink'
  <2>1. serves'[w] = None /\ UNCHANGED <<madeFor, payment>>
    BY <1>3 DEF ClickRenew, ClickMint, Goto, rowVars, invoiceVars, IInv, Places
  <2>2. \A v \in Workers \ {w} :
          pc'[v] = pc[v] /\ serves'[v] = serves[v] /\ row'[v] = row[v]
    BY <1>3 DEF ClickRenew, ClickMint, Goto, IInv, TypeOK
  <2>3. QED
    BY <2>1, <2>2, OwnLinkKept
<1>4. ASSUME UNCHANGED <<madeFor, payment, callVars>>
      PROVE  OwnLink'
  BY <1>4, OwnLinkKept DEF callVars
<1>5. ASSUME NEW r \in Rows, ClickPaid(r) \/ ClickRedirect(r) \/ Age(r)
      PROVE  OwnLink'
  BY <1>4, <1>5 DEF ClickPaid, ClickRedirect, Age, rowVars, invoiceVars
<1>6. ASSUME NEW s \in Sessions, Stripe(s) \/ GiveBack(s)
      PROVE  OwnLink'
  BY <1>4, <1>6 DEF Stripe, Become, GiveBack, rowVars, invoiceVars
<1>7. ASSUME NEW s \in Sessions, NEW n \in 1 .. 2,
             PaidEvent(s) \/ ExpiredEvent(s) \/ FailedEvent(s) \/ RefundEvent(s, n)
      PROVE  OwnLink'
  BY <1>4, <1>7 DEF PaidEvent, ExpiredEvent, FailedEvent, RefundEvent, invoiceVars
<1>8. ASSUME NEW i \in Invoices, NEW n \in 1 .. Amount[i], RecordOffline(i, n)
      PROVE  OwnLink'
  BY <1>4, <1>8 DEF RecordOffline
<1>9. CASE UNCHANGED vars
  BY <1>4, <1>9 DEF vars, rowVars, invoiceVars
<1>10. QED
  BY <1>1, <1>2, <1>3, <1>5, <1>6, <1>7, <1>8, <1>9, CallKeepsOwnLink DEF Next

-----------------------------------------------------------------------------
(* What is collected is collected through a link                           *)

\* A click starts from the link of some invoice.
Clicked ==
  \A w \in Workers :
    pc[w] # "idle" /\ serves[w] = None => \E i \in Invoices : payment[i] = row[w]

\* The customer has a Session only through the link of some invoice.
Handed ==
  \A s \in Sessions :
    session[s] \in {"offered", "processing", "paid"}
      => \E i \in Invoices : payment[i] = s[1]

\* The payment of an invoice is attached for good.
LEMMA LinksStay ==
  ASSUME IInv, [Next]_vars, NEW i \in Invoices, NEW r \in Rows, payment[i] = r
  PROVE  payment'[i] = r
<1>1. r # None
  BY PayLinkAssumption DEF Rows
<1>2. ASSUME NEW w \in Workers, Attach(w)
      PROVE  payment'[i] = r
  BY <1>1, <1>2 DEF Attach, IInv, TypeOK
<1>3. ASSUME NEW w \in Workers,
             \/ GiveUp(w) \/ \E j \in Invoices : Deliver(w, j)
             \/ \E q \in Rows : ClickRenew(w, q) \/ ClickMint(w, q)
             \/ ReusePayment(w) \/ MakePayment(w) \/ RequestSession(w)
             \/ CreateSession(w) \/ StoreSession(w) \/ Issue(w)
      PROVE  payment' = payment
  BY <1>3 DEF GiveUp, Deliver, ClickRenew, ClickMint, ReusePayment, MakePayment,
              RequestSession, CreateSession, StoreSession, Issue, invoiceVars
<1>4. ASSUME \/ \E q \in Rows : ClickPaid(q) \/ ClickRedirect(q) \/ Age(q)
             \/ \E s \in Sessions :
                  \/ Stripe(s) \/ GiveBack(s)
                  \/ PaidEvent(s) \/ ExpiredEvent(s) \/ FailedEvent(s)
                  \/ \E n \in 1 .. 2 : RefundEvent(s, n)
             \/ \E j \in Invoices : \E n \in 1 .. Amount[j] : RecordOffline(j, n)
             \/ UNCHANGED vars
      PROVE  payment' = payment
  BY <1>4 DEF ClickPaid, ClickRedirect, Age, Stripe, Become, GiveBack, PaidEvent, ExpiredEvent,
              FailedEvent, RefundEvent, RecordOffline, vars, invoiceVars
<1>5. QED
  BY <1>2, <1>3, <1>4 DEF Next, Call

LEMMA ClickedStep ==
  ASSUME IInv, Clicked, [Next]_vars
  PROVE  Clicked'
<1> SUFFICES ASSUME NEW w \in Workers, pc'[w] # "idle", serves'[w] = None
             PROVE  \E i \in Invoices : payment'[i] = row'[w]
  BY DEF Clicked
<1>1. ASSUME NEW r \in Rows, NEW i \in Invoices, payment[i] = r, row'[w] = r
      PROVE  \E j \in Invoices : payment'[j] = row'[w]
  BY <1>1, LinksStay
<1>2. ASSUME pc[w] # "idle", serves[w] = None, row'[w] = row[w]
      PROVE  \E j \in Invoices : payment'[j] = row'[w]
  <2>1. row[w] \in Rows
    BY <1>2, PayLinkAssumption DEF IInv, Places
  <2>2. QED
    BY <1>1, <1>2, <2>1 DEF Clicked
<1>3. ASSUME NEW r \in Rows, ClickRenew(w, r) \/ ClickMint(w, r)
      PROVE  \E j \in Invoices : payment'[j] = row'[w]
  <2>1. row'[w] = r /\ \E i \in Invoices : payment[i] = r
    BY <1>3 DEF ClickRenew, ClickMint, Clickable, Goto, IInv, TypeOK
  <2>2. QED
    BY <1>1, <2>1
<1>4. ASSUME Call(w)
      PROVE  pc[w] # "idle" /\ serves[w] = None /\ row'[w] = row[w]
  <2>1. ASSUME ReusePayment(w) \/ MakePayment(w) \/ Attach(w) \/ Issue(w)
        PROVE  FALSE
    <3>1. serves[w] \in Invoices
      BY <2>1 DEF ReusePayment, MakePayment, Attach, Issue, IInv, Places
    <3>2. serves'[w] = serves[w] \/ pc'[w] = "idle"
      BY <2>1 DEF ReusePayment, MakePayment, Attach, Issue, Goto, EndCall, IInv, TypeOK
    <3>3. QED
      BY <3>1, <3>2, PayLinkAssumption
  <2>2. ASSUME RequestSession(w) \/ CreateSession(w)
        PROVE  pc[w] # "idle" /\ serves[w] = None /\ row'[w] = row[w]
    BY <2>2 DEF RequestSession, CreateSession, Goto, IInv, TypeOK
  <2>3. ASSUME StoreSession(w)
        PROVE  FALSE
    BY <2>3 DEF StoreSession, Goto, EndCall, IInv, TypeOK
  <2>4. QED
    BY <1>4, <2>1, <2>2, <2>3 DEF Call
<1>5. ASSUME NEW i \in Invoices, Deliver(w, i)
      PROVE  FALSE
  BY <1>5, PayLinkAssumption DEF Deliver, IInv, TypeOK
<1>6. ASSUME GiveUp(w)
      PROVE  FALSE
  BY <1>6 DEF GiveUp, EndCall, IInv, TypeOK
<1>7. ASSUME NEW v \in Workers \ {w},
             \/ Call(v) \/ GiveUp(v) \/ \E i \in Invoices : Deliver(v, i)
             \/ \E r \in Rows : ClickRenew(v, r) \/ ClickMint(v, r)
      PROVE  pc'[w] = pc[w] /\ serves'[w] = serves[w] /\ row'[w] = row[w]
  <2>1. ASSUME Call(v)
        PROVE  pc'[w] = pc[w] /\ serves'[w] = serves[w] /\ row'[w] = row[w]
    BY <2>1 DEF Call, ReusePayment, MakePayment, RequestSession, CreateSession, StoreSession,
                Attach, Issue, Goto, EndCall, IInv, TypeOK
  <2>2. QED
    BY <1>7, <2>1 DEF GiveUp, Deliver, ClickRenew, ClickMint, Goto, EndCall, IInv, TypeOK
<1>8. ASSUME \/ \E q \in Rows : ClickPaid(q) \/ ClickRedirect(q) \/ Age(q)
             \/ \E s \in Sessions :
                  \/ Stripe(s) \/ GiveBack(s)
                  \/ PaidEvent(s) \/ ExpiredEvent(s) \/ FailedEvent(s)
                  \/ \E n \in 1 .. 2 : RefundEvent(s, n)
             \/ \E j \in Invoices : \E n \in 1 .. Amount[j] : RecordOffline(j, n)
             \/ UNCHANGED vars
      PROVE  UNCHANGED callVars
  BY <1>8 DEF ClickPaid, ClickRedirect, Age, Stripe, Become, GiveBack, PaidEvent, ExpiredEvent,
              FailedEvent, RefundEvent, RecordOffline, vars
<1>9. QED
  BY <1>2, <1>3, <1>4, <1>5, <1>6, <1>7, <1>8 DEF Next, callVars

\* A Session reaches the customer by a click on a link, and goes on from there.
LEMMA HandedStep ==
  ASSUME IInv, Clicked, Handed, [Next]_vars
  PROVE  Handed'
<1> DEFINE Out == {"offered", "processing", "paid"}
<1> SUFFICES ASSUME NEW s \in Sessions, session'[s] \in Out
             PROVE  \E i \in Invoices : payment'[i] = s[1]
  BY DEF Handed
<1>1. s[1] \in Rows
  BY Parts
<1>2. \/ session[s] \in Out
      \/ \E i \in Invoices : payment[i] = s[1]
  <2> SUFFICES ASSUME session[s] \notin Out
               PROVE  \E i \in Invoices : payment[i] = s[1]
    OBVIOUS
  <2>1. ASSUME NEW w \in Workers, StoreSession(w)
        PROVE  \E i \in Invoices : payment[i] = s[1]
    <3>1. serves[w] = None /\ pc[w] = "store" /\ s[1] = row[w]
      BY <2>1 DEF StoreSession, IInv, TypeOK
    <3>2. QED
      BY <3>1 DEF Clicked
  <2>2. ASSUME NEW r \in Rows, ClickRedirect(r)
        PROVE  \E i \in Invoices : payment[i] = s[1]
    BY <2>2 DEF ClickRedirect, Clickable, Current, IInv, TypeOK
  <2>3. ASSUME NEW t \in Sessions, Stripe(t)
        PROVE  FALSE
    BY <2>3 DEF Stripe, Become, IInv, TypeOK
  <2>4. ASSUME NEW w \in Workers, MakePayment(w) \/ CreateSession(w)
        PROVE  FALSE
    BY <2>4 DEF MakePayment, Retire, CreateSession, IInv, TypeOK
  <2>5. ASSUME NEW w \in Workers, NEW r \in Rows, ClickRenew(w, r)
        PROVE  FALSE
    BY <2>5 DEF ClickRenew, IInv, TypeOK
  <2>6. ASSUME NEW i \in Invoices, NEW n \in 1 .. Amount[i], RecordOffline(i, n)
        PROVE  FALSE
    BY <2>6 DEF RecordOffline, Retire, IInv, TypeOK
  <2>7. ASSUME NEW w \in Workers,
               \/ GiveUp(w) \/ \E i \in Invoices : Deliver(w, i)
               \/ \E r \in Rows : ClickMint(w, r)
               \/ ReusePayment(w) \/ RequestSession(w) \/ Attach(w) \/ Issue(w)
        PROVE  FALSE
    BY <2>7 DEF GiveUp, Deliver, ClickMint, ReusePayment, RequestSession, Attach, Issue,
                stripeVars
  <2>8. ASSUME \/ \E r \in Rows : ClickPaid(r) \/ Age(r)
               \/ \E t \in Sessions :
                    \/ GiveBack(t) \/ PaidEvent(t) \/ ExpiredEvent(t) \/ FailedEvent(t)
                    \/ \E n \in 1 .. 2 : RefundEvent(t, n)
               \/ UNCHANGED vars
        PROVE  FALSE
    BY <2>8 DEF ClickPaid, Age, GiveBack, PaidEvent, ExpiredEvent, FailedEvent, RefundEvent,
                vars, stripeVars
  <2>9. QED
    BY <2>1, <2>2, <2>3, <2>4, <2>5, <2>6, <2>7, <2>8 DEF Next, Call
<1>3. PICK i \in Invoices : payment[i] = s[1]
  BY <1>2 DEF Handed
<1>4. QED
  BY <1>1, <1>3, LinksStay

-----------------------------------------------------------------------------
(* An invoice is paid once                                                 *)

LinkInv == IInv /\ OwnLink /\ Clicked /\ Handed

LEMMA LinkInvariant == ASSUME LinksApart PROVE Spec => []LinkInv
<1>1. Init => OwnLink /\ Clicked /\ Handed
  BY DEF Init, OwnLink, Clicked, Handed
<1>2. IInv /\ OwnLink /\ Clicked /\ Handed /\ [Next]_vars => OwnLink' /\ Clicked' /\ Handed'
  BY OwnLinkStep, ClickedStep, HandedStep
<1>3. QED
  BY <1>1, <1>2, Invariant, PTL DEF Spec, LinkInv

\* What belongs to the four sets.
InTaken(i) == \E s \in Sessions : session[s] = "paid" /\ madeFor[s[1]] = i
InGiven(p) == \E s \in Sessions : \E n \in 1 .. returned[s] : p = <<madeFor[s[1]], n>>
InBooked(i) == \E r \in Rows : Settled(r) /\ madeFor[r] = i
InNoted(p) == \E r \in Rows : \E n \in 1 .. refunded[r] : p = <<madeFor[r], n>>

LEMMA Bars ==
  /\ \A i : i \in takenBar <=> InTaken(i)
  /\ \A p : p \in givenBar <=> InGiven(p)
  /\ \A i : i \in bookedBar <=> InBooked(i)
  /\ \A p : p \in notedBar <=> InNoted(p)
<1>1. \A i : i \in takenBar <=> InTaken(i)
  BY DEF takenBar, InTaken
<1>2. \A p : p \in givenBar <=> InGiven(p)
  BY DEF givenBar, InGiven
<1>3. \A i : i \in bookedBar <=> InBooked(i)
  BY DEF bookedBar, InBooked
<1>4. \A p : p \in notedBar <=> InNoted(p)
  BY DEF notedBar, InNoted
<1>5. QED
  BY <1>1, <1>2, <1>3, <1>4

LEMMA BarsNext ==
  /\ \A i : i \in takenBar' <=> InTaken(i)'
  /\ \A p : p \in givenBar' <=> InGiven(p)'
  /\ \A i : i \in bookedBar' <=> InBooked(i)'
  /\ \A p : p \in notedBar' <=> InNoted(p)'
<1>1. \A i : i \in takenBar' <=> InTaken(i)'
  BY DEF takenBar, InTaken
<1>2. \A p : p \in givenBar' <=> InGiven(p)'
  BY DEF givenBar, InGiven
<1>3. \A i : i \in bookedBar' <=> InBooked(i)'
  BY DEF bookedBar, InBooked
<1>4. \A p : p \in notedBar' <=> InNoted(p)'
  BY DEF notedBar, InNoted
<1>5. QED
  BY <1>1, <1>2, <1>3, <1>4

\* The money of an invoice was taken by one Session, of one row.
LEMMA OnePaid ==
  ASSUME IInv, NEW s \in Sessions, session[s] = "paid"
  PROVE  /\ s[1] \in Rows /\ madeFor[s[1]] \in Invoices /\ s = First(s[1])
         /\ \A t \in Sessions :
              session[t] \in Live \cup {"processing", "paid"} /\ madeFor[t[1]] = madeFor[s[1]] => t = s
<1>1. s[1] \in Rows /\ s = First(s[1]) /\ rowStatus[s[1]] \notin {"absent", "superseded"}
  BY AliveIsFirst DEF Dead
<1>2. madeFor[s[1]] \in Invoices
  BY <1>1 DEF IInv, Made, TypeOK
<1>3. ASSUME NEW t \in Sessions, session[t] \in Live \cup {"processing", "paid"},
             madeFor[t[1]] = madeFor[s[1]]
      PROVE  t = s
  <2>1. t[1] \in Rows /\ t = First(t[1]) /\ rowStatus[t[1]] \notin {"absent", "superseded"}
    BY <1>3, AliveIsFirst DEF Live, Dead
  <2>2. t[1] = s[1]
    BY <1>1, <1>3, <2>1 DEF IInv, OneRow
  <2>3. QED
    BY <1>1, <2>1, <2>2
<1>4. QED
  BY <1>1, <1>2, <1>3

\* A settled row is the one whose Session was paid.
LEMMA SettledIsPaid ==
  ASSUME IInv, NEW r \in Rows, Settled(r)
  PROVE  First(r) \in Sessions /\ First(r)[1] = r /\ session[First(r)] = "paid"
<1>1. generation[r] \in 0 .. MaxGen
  BY DEF IInv, TypeOK
<1>2. QED
  BY <1>1, Parts DEF IInv, Books, First

\* Where a customer can pay online, no offline receipt was recorded.
LEMMA OutHasNoReceipt ==
  ASSUME LinkInv, NEW s \in Sessions, session[s] \in {"offered", "processing", "paid"}
  PROVE  madeFor[s[1]] \in Invoices /\ offline[madeFor[s[1]]] = 0
<1>1. PICK i \in Invoices : payment[i] = s[1]
  BY DEF LinkInv, Handed
<1>2. s[1] \in Rows /\ rowStatus[s[1]] # "superseded"
  BY AliveIsFirst DEF LinkInv, Dead
<1>3. madeFor[s[1]] = i
  BY <1>1, <1>2, PayLinkAssumption DEF LinkInv, OwnLink, Rows
<1>4. ~(offline[i] > 0) /\ offline[i] \in Nat
  BY <1>1, <1>2 DEF LinkInv, IInv, Receipts, TypeOK
<1>5. QED
  BY <1>3, <1>4

\* Where neither money nor refunds move, a step changes nothing: a new row
\* has neither.
LEMMA LedgerStands ==
  ASSUME IInv, UNCHANGED <<returned, refunded>>,
         \A s \in Sessions : session'[s] = "paid" <=> session[s] = "paid",
         \A r \in Rows : Settled(r)' <=> Settled(r),
         \A r \in Rows : madeFor'[r] = madeFor[r] \/ rowStatus[r] = "absent"
  PROVE  UNCHANGED <<takenBar, givenBar, bookedBar, notedBar>>
<1>1. \A s \in Sessions : session[s] = "paid" => madeFor'[s[1]] = madeFor[s[1]]
  BY AliveIsFirst DEF Dead
<1>2. \A r \in Rows : Settled(r) => madeFor'[r] = madeFor[r]
  BY DEF Settled
<1>3. \A s \in Sessions : returned[s] \in 0 .. 2 /\ (returned[s] > 0 => session[s] = "paid")
  BY DEF IInv, TypeOK, GivenBack
<1>4. \A r \in Rows : refunded[r] \in 0 .. 2 /\ (refunded[r] > 0 => Settled(r))
  BY DEF IInv, TypeOK, Books
<1>5. takenBar' = takenBar
  <2>1. \A i : InTaken(i)' <=> InTaken(i)
    BY <1>1 DEF InTaken
  <2>2. QED
    BY <2>1, Bars, BarsNext
<1>6. givenBar' = givenBar
  <2>1. \A s \in Sessions : \A n \in 1 .. returned[s] : madeFor'[s[1]] = madeFor[s[1]]
    BY <1>1, <1>3
  <2>2. \A p : InGiven(p)' <=> InGiven(p)
    BY <2>1 DEF InGiven
  <2>3. QED
    BY <2>2, Bars, BarsNext
<1>7. bookedBar' = bookedBar
  <2>1. \A i : InBooked(i)' <=> InBooked(i)
    BY <1>2 DEF InBooked
  <2>2. QED
    BY <2>1, Bars, BarsNext
<1>8. notedBar' = notedBar
  <2>1. \A r \in Rows : \A n \in 1 .. refunded[r] : madeFor'[r] = madeFor[r]
    BY <1>2, <1>4
  <2>2. \A p : InNoted(p)' <=> InNoted(p)
    BY <2>1 DEF InNoted
  <2>3. QED
    BY <2>2, Bars, BarsNext
<1>9. QED
  BY <1>5, <1>6, <1>7, <1>8

LedgerStep ==
  Ledger!Next \/ UNCHANGED <<offline, takenBar, givenBar, bookedBar, notedBar>>

\* A payment goes through.
LEMMA StripeTakes ==
  ASSUME LinkInv, NEW s \in Sessions, Stripe(s)
  PROVE  LedgerStep
<1>1. UNCHANGED <<madeFor, rowStatus, refunded, returned, offline>>
  BY DEF Stripe, Become, rowVars, invoiceVars
<1>2. /\ session[s] # "paid"
      /\ \E to \in {"processing", "paid", "failed", "expired"} :
           session' = [session EXCEPT ![s] = to]
  BY DEF Stripe, Become, Live
<1>3. CASE session'[s] # "paid"
  <2>1. \A t \in Sessions : session'[t] = "paid" <=> session[t] = "paid"
    BY <1>2, <1>3 DEF LinkInv, IInv, TypeOK
  <2>2. QED
    BY <1>1, <2>1, LedgerStands DEF LinkInv, LedgerStep, Settled
<1>4. CASE session'[s] = "paid"
  <2> DEFINE i == madeFor[s[1]]
  <2>1. session[s] \in {"offered", "processing"}
    BY <1>2, <1>4 DEF Stripe, Become, LinkInv, IInv, TypeOK
  <2>2. i \in Invoices /\ offline[i] = 0
    BY <2>1, OutHasNoReceipt
  <2>3. i \notin takenBar
    <3> SUFFICES ASSUME NEW t \in Sessions, session[t] = "paid", madeFor[t[1]] = i
                 PROVE  FALSE
      BY Bars DEF InTaken
    <3>1. s = t
      BY <2>1, OnePaid DEF LinkInv, Live
    <3>2. QED
      BY <1>2, <3>1
  <2>4. takenBar' = takenBar \cup {i}
    <3>1. \A t \in Sessions : session'[t] = "paid" <=> session[t] = "paid" \/ t = s
      BY <1>2, <1>4 DEF LinkInv, IInv, TypeOK
    <3>2. \A j : InTaken(j)' <=> InTaken(j) \/ j = i
      BY <1>1, <3>1 DEF InTaken
    <3>3. QED
      BY <3>2, Bars, BarsNext
  <2>5. UNCHANGED <<givenBar, bookedBar, notedBar>>
    BY <1>1 DEF givenBar, bookedBar, notedBar, Settled
  <2>6. Ledger!Take(i)
    BY <1>1, <2>2, <2>3, <2>4, <2>5 DEF Ledger!Take
  <2>7. QED
    BY <2>2, <2>6 DEF Ledger!Next, LedgerStep
<1>5. QED
  BY <1>3, <1>4

\* The owner gives money back.
LEMMA GiveBackReturns ==
  ASSUME LinkInv, NEW s \in Sessions, GiveBack(s)
  PROVE  LedgerStep
<1> DEFINE i == madeFor[s[1]]
<1>1. session[s] = "paid" /\ UNCHANGED <<rowVars, session, invoiceVars>>
  BY DEF GiveBack
<1>2. PICK n \in returned[s] + 1 .. 2 : returned' = [returned EXCEPT ![s] = n]
  BY DEF GiveBack
<1>3. /\ i \in Invoices
      /\ \A t \in Sessions : session[t] = "paid" /\ madeFor[t[1]] = i => t = s
  BY <1>1, OnePaid DEF LinkInv
<1>4. returned \in [Sessions -> 0 .. 2]
  BY DEF LinkInv, IInv, TypeOK
<1>5. n \in 1 .. 2 /\ returned[s] < n
  BY <1>2, <1>4
<1>6. i \in takenBar
  BY <1>1, Bars DEF InTaken
<1>7. <<i, n>> \notin givenBar
  <2> SUFFICES ASSUME NEW t \in Sessions, NEW m \in 1 .. returned[t], <<i, n>> = <<madeFor[t[1]], m>>
               PROVE  FALSE
    BY Bars DEF InGiven
  <2>1. session[t] = "paid" /\ madeFor[t[1]] = i /\ m = n
    BY <1>4 DEF LinkInv, IInv, GivenBack
  <2>2. t = s
    BY <1>3, <2>1
  <2>3. QED
    BY <1>4, <1>5, <2>1, <2>2
<1>8. givenBar' = givenBar \cup ({i} \X (1 .. n))
  <2>1. returned'[s] = n /\ \A t \in Sessions : t # s => returned'[t] = returned[t]
    BY <1>2, <1>4
  <2>2. madeFor' = madeFor
    BY <1>1 DEF rowVars
  <2>3. 1 .. returned[s] \subseteq 1 .. n
    BY <1>4, <1>5
  <2>4. \A p : InGiven(p)' <=> InGiven(p) \/ \E m \in 1 .. n : p = <<i, m>>
    BY <2>1, <2>2, <2>3 DEF InGiven
  <2>5. \A p : p \in {i} \X (1 .. n) <=> \E m \in 1 .. n : p = <<i, m>>
    OBVIOUS
  <2>6. QED
    BY <2>4, <2>5, Bars, BarsNext
<1>9. UNCHANGED <<offline, takenBar, bookedBar, notedBar>>
  BY <1>1 DEF takenBar, bookedBar, notedBar, Settled, rowVars, invoiceVars
<1>10. Ledger!Return(i, n)
  BY <1>6, <1>7, <1>8, <1>9 DEF Ledger!Return
<1>11. QED
  BY <1>3, <1>5, <1>10 DEF Ledger!Next, LedgerStep

\* A row is booked as paid, by an event or a click.
LEMMA PaymentBooks ==
  ASSUME LinkInv, NEW s \in Sessions, session[s] = "paid",
         rowStatus[s[1]] # "refunded", rowStatus' = [rowStatus EXCEPT ![s[1]] = "paid"],
         UNCHANGED <<madeFor, session, returned, refunded, offline>>
  PROVE  LedgerStep
<1> DEFINE r == s[1]
           i == madeFor[r]
<1>1. r \in Rows /\ s = First(r) /\ i \in Invoices
  BY OnePaid DEF LinkInv
<1>2. \A q \in Rows : Settled(q)' <=> Settled(q) \/ q = r
  BY <1>1 DEF Settled, LinkInv, IInv, TypeOK
<1>3. CASE Settled(r)
  BY <1>2, <1>3, LedgerStands DEF LinkInv, LedgerStep
<1>4. CASE ~Settled(r)
  <2>1. i \in takenBar
    BY Bars DEF InTaken
  <2>2. i \notin bookedBar
    <3> SUFFICES ASSUME NEW q \in Rows, Settled(q), madeFor[q] = i
                 PROVE  FALSE
      BY Bars DEF InBooked
    <3>1. First(q) \in Sessions /\ First(q)[1] = q /\ session[First(q)] = "paid"
      BY SettledIsPaid DEF LinkInv
    <3>2. First(q) = s
      BY <3>1, OnePaid DEF LinkInv
    <3>3. QED
      BY <1>4, <3>1, <3>2
  <2>3. bookedBar' = bookedBar \cup {i}
    <3>1. \A j : InBooked(j)' <=> InBooked(j) \/ j = i
      BY <1>1, <1>2 DEF InBooked
    <3>2. QED
      BY <3>1, Bars, BarsNext
  <2>4. UNCHANGED <<takenBar, givenBar, notedBar>>
    BY DEF takenBar, givenBar, notedBar
  <2>5. Ledger!Book(i)
    BY <2>1, <2>2, <2>3, <2>4 DEF Ledger!Book
  <2>6. QED
    BY <1>1, <2>5 DEF Ledger!Next, LedgerStep
<1>5. QED
  BY <1>3, <1>4

\* A refund is booked, and with it the payment; an older report adds nothing.
LEMMA RefundNotes ==
  ASSUME LinkInv, NEW s \in Sessions, NEW n \in 1 .. 2, RefundEvent(s, n)
  PROVE  LedgerStep
<1> DEFINE r == s[1]
           i == madeFor[r]
<1>1. /\ n <= returned[s]
      /\ refunded' = [refunded EXCEPT ![r] = Greater(refunded[r], n)]
      /\ rowStatus' = [rowStatus EXCEPT ![r] =
                         IF Greater(refunded[r], n) = 2 THEN "refunded" ELSE "paid"]
      /\ UNCHANGED <<madeFor, session, returned, offline>>
  BY DEF RefundEvent, stripeVars, invoiceVars
<1>2. session[s] = "paid" /\ returned[s] \in 0 .. 2
  BY <1>1 DEF LinkInv, IInv, TypeOK, GivenBack
<1>3. r \in Rows /\ s = First(r) /\ i \in Invoices
  BY <1>2, OnePaid DEF LinkInv
<1>4. /\ \A q \in Rows : Settled(q) \/ refunded[q] > 0 => madeFor[q] # i \/ q = r
      /\ refunded[r] \in 0 .. 2
      /\ refunded[r] > 0 => Settled(r)
  <2>1. ASSUME NEW q \in Rows, Settled(q), madeFor[q] = i
        PROVE  q = r
    <3>1. First(q) \in Sessions /\ First(q)[1] = q /\ session[First(q)] = "paid"
      BY <2>1, SettledIsPaid DEF LinkInv
    <3>2. QED
      BY <1>2, <2>1, <3>1, OnePaid DEF LinkInv
  <2>2. QED
    BY <1>3, <2>1 DEF LinkInv, IInv, Books, TypeOK
<1>5. \A q \in Rows : Settled(q)' <=> Settled(q) \/ q = r
  BY <1>1, <1>3 DEF Settled, LinkInv, IInv, TypeOK
<1>6. CASE refunded[r] >= n
  <2>1. refunded' = refunded
    BY <1>1, <1>6 DEF Greater, LinkInv, IInv, TypeOK
  <2>2. Settled(r)
    BY <1>4, <1>6
  <2>3. QED
    BY <1>1, <1>5, <2>1, <2>2, LedgerStands DEF LinkInv, LedgerStep
<1>7. CASE refunded[r] < n
  <2>1. <<i, n>> \in givenBar
    <3>1. n \in 1 .. returned[s]
      BY <1>1, <1>2
    <3>2. QED
      BY <3>1, Bars DEF InGiven
  <2>2. <<i, n>> \notin notedBar
    <3> SUFFICES ASSUME NEW q \in Rows, NEW m \in 1 .. refunded[q],
                        <<i, n>> = <<madeFor[q], m>>
                 PROVE  FALSE
      BY Bars DEF InNoted
    <3>1. madeFor[q] = i /\ m = n /\ refunded[q] \in 0 .. 2
      BY DEF LinkInv, IInv, TypeOK
    <3>2. q = r
      BY <1>4, <3>1
    <3>3. QED
      BY <1>7, <3>1, <3>2
  <2>3. notedBar' = notedBar \cup ({i} \X (1 .. n))
    <3>1. refunded'[r] = n /\ \A q \in Rows : q # r => refunded'[q] = refunded[q]
      BY <1>1, <1>3, <1>4, <1>7 DEF Greater, LinkInv, IInv, TypeOK
    <3>2. 1 .. refunded[r] \subseteq 1 .. n
      BY <1>4, <1>7
    <3>3. \A p : InNoted(p)' <=> InNoted(p) \/ \E m \in 1 .. n : p = <<i, m>>
      BY <1>1, <1>3, <3>1, <3>2 DEF InNoted
    <3>4. \A p : p \in {i} \X (1 .. n) <=> \E m \in 1 .. n : p = <<i, m>>
      OBVIOUS
    <3>5. QED
      BY <3>3, <3>4, Bars, BarsNext
  <2>4. bookedBar' = bookedBar \cup {i}
    <3>1. \A j : InBooked(j)' <=> InBooked(j) \/ j = i
      BY <1>1, <1>3, <1>5 DEF InBooked
    <3>2. QED
      BY <3>1, Bars, BarsNext
  <2>5. UNCHANGED <<takenBar, givenBar>>
    BY <1>1 DEF takenBar, givenBar
  <2>6. Ledger!Note(i, n)
    BY <1>1, <2>1, <2>2, <2>3, <2>4, <2>5 DEF Ledger!Note
  <2>7. QED
    BY <1>3, <2>6 DEF Ledger!Next, LedgerStep
<1>8. QED
  BY <1>4, <1>6, <1>7

\* A receipt is recorded on an invoice that cannot be paid online.
LEMMA OfflineReceives ==
  ASSUME LinkInv, NEW i \in Invoices, NEW n \in 1 .. Amount[i], RecordOffline(i, n)
  PROVE  LedgerStep
<1> DEFINE r == payment[i]
<1>1. r \in Rows /\ madeFor[r] = i
  BY PayLinkAssumption DEF RecordOffline, LinkInv, IInv, Receipts, OwnLink, Rows
<1>2. /\ offline[i] + n <= Amount[i]
      /\ offline' = [offline EXCEPT ![i] = @ + n]
      /\ UNCHANGED <<madeFor, refunded, returned>>
      /\ \/ UNCHANGED <<rowStatus, session>> /\ rowStatus[r] = "superseded"
         \/ Retire(r, rowStatus)
  BY DEF RecordOffline
<1>3. i \notin takenBar
  <2> SUFFICES ASSUME NEW s \in Sessions, session[s] = "paid", madeFor[s[1]] = i
               PROVE  FALSE
    BY Bars DEF InTaken
  <2>1. /\ s[1] \in Rows /\ s = Current(s[1]) /\ tracked[s[1]] = 1
        /\ rowStatus[s[1]] # "superseded"
    BY PaidIsTracked DEF LinkInv
  <2>2. PICK j \in Invoices : payment[j] = s[1]
    BY DEF LinkInv, Handed
  <2>3. j = i
    BY <2>1, <2>2, PayLinkAssumption DEF LinkInv, OwnLink, Rows
  <2>4. QED
    BY <1>2, <2>1, <2>2, <2>3 DEF Retire, Retirable, Live
<1>4. \A s \in Sessions : session'[s] = "paid" <=> session[s] = "paid"
  BY <1>2 DEF Retire, Live
<1>5. \A q \in Rows : Settled(q)' <=> Settled(q)
  BY <1>1, <1>2 DEF Retire, Retirable, Settled, LinkInv, IInv, TypeOK
<1>6. UNCHANGED <<takenBar, givenBar, bookedBar, notedBar>>
  BY <1>2, <1>4, <1>5, LedgerStands DEF LinkInv
<1>7. Ledger!Receive(i, n)
  BY <1>2, <1>3, <1>6 DEF Ledger!Receive
<1>8. QED
  BY <1>7 DEF Ledger!Next, LedgerStep

\* What a process does for a delivery or a click moves no money.
LEMMA CallIsQuiet ==
  ASSUME LinkInv, NEW w \in Workers,
         \/ Call(w) \/ GiveUp(w) \/ \E i \in Invoices : Deliver(w, i)
         \/ \E r \in Rows : ClickRenew(w, r) \/ ClickMint(w, r)
  PROVE  LedgerStep
<1> USE DEF LinkInv
<1>1. CASE MakePayment(w)
  <2>1. NewRow \in Rows /\ rowStatus[NewRow] = "absent"
    BY <1>1 DEF MakePayment, NewRow, IInv, Made
  <2>2. \A r \in Rows : madeFor'[r] = madeFor[r] \/ rowStatus[r] = "absent"
    BY <1>1, <2>1 DEF MakePayment, IInv, TypeOK
  <2>3. \A s \in Sessions : session'[s] = "paid" <=> session[s] = "paid"
    BY <1>1 DEF MakePayment, Retire, Live
  <2>4. \A r \in Rows : Settled(r)' <=> Settled(r)
    <3>1. \A r \in Rows :
            \/ rowStatus'[r] = rowStatus[r]
            \/ rowStatus'[r] = "open" /\ r = NewRow
            \/ rowStatus'[r] = "superseded" /\ ~Settled(r)
      BY <1>1, <2>1 DEF MakePayment, Retire, Retirable, Existing, IInv, TypeOK
    <3>2. QED
      BY <2>1, <3>1 DEF Settled
  <2>5. UNCHANGED <<refunded, returned, offline>>
    BY <1>1 DEF MakePayment, invoiceVars
  <2>6. QED
    BY <2>2, <2>3, <2>4, <2>5, LedgerStands DEF LedgerStep
<1>2. CASE CreateSession(w)
  <2>1. \A s \in Sessions : session'[s] = "paid" <=> session[s] = "paid"
    BY <1>2 DEF CreateSession, IInv, TypeOK
  <2>2. QED
    BY <1>2, <2>1, LedgerStands
       DEF CreateSession, rowVars, invoiceVars, Settled, LedgerStep
<1>3. CASE StoreSession(w)
  <2>1. \A s \in Sessions : session'[s] = "paid" <=> session[s] = "paid"
    BY <1>3 DEF StoreSession, IInv, TypeOK
  <2>2. row[w] \in Rows /\ ~Settled(row[w])
    BY <1>3 DEF StoreSession, IInv, Places, Locked, Collectible, Settled
  <2>3. \A r \in Rows : Settled(r)' <=> Settled(r)
    BY <1>3, <2>2 DEF StoreSession, Settled, IInv, TypeOK
  <2>4. QED
    BY <1>3, <2>1, <2>3, LedgerStands DEF StoreSession, invoiceVars, LedgerStep
<1>4. ASSUME NEW r \in Rows, ClickRenew(w, r)
      PROVE  LedgerStep
  <2>1. \A s \in Sessions : session'[s] = "paid" <=> session[s] = "paid"
    <3>1. session' = [session EXCEPT ![Current(r)] = IF @ \in Live THEN "expired" ELSE @]
      BY <1>4 DEF ClickRenew
    <3>2. QED
      BY <3>1 DEF IInv, TypeOK, Live
  <2>2. QED
    BY <1>4, <2>1, LedgerStands DEF ClickRenew, invoiceVars, Settled, LedgerStep
<1>5. ASSUME \/ ReusePayment(w) \/ RequestSession(w) \/ Attach(w) \/ Issue(w) \/ GiveUp(w)
             \/ \E i \in Invoices : Deliver(w, i)
             \/ \E r \in Rows : ClickMint(w, r)
      PROVE  LedgerStep
  <2>1. UNCHANGED <<madeFor, rowStatus, refunded, session, returned, offline>>
    BY <1>5 DEF ReusePayment, RequestSession, Attach, Issue, GiveUp, Deliver, ClickMint,
                rowVars, stripeVars, invoiceVars
  <2>2. QED
    BY <2>1, LedgerStands DEF Settled, LedgerStep
<1>6. QED
  BY <1>1, <1>2, <1>3, <1>4, <1>5 DEF Call

LEMMA LedgerStepped == LinkInv /\ [Next]_vars => LedgerStep
<1> SUFFICES ASSUME LinkInv, [Next]_vars PROVE LedgerStep
  OBVIOUS
<1>1. ASSUME NEW s \in Sessions, PaidEvent(s)
      PROVE  LedgerStep
  BY <1>1, PaymentBooks DEF PaidEvent, stripeVars, invoiceVars
<1>2. ASSUME NEW r \in Rows, ClickPaid(r)
      PROVE  LedgerStep
  <2>1. /\ Current(r) \in Sessions /\ Current(r)[1] = r
        /\ session[Current(r)] = "paid" /\ rowStatus[r] # "refunded"
    BY <1>2, Parts DEF ClickPaid, Clickable, Current, LinkInv, IInv, TypeOK, Tracking
  <2>2. QED
    BY <1>2, <2>1, PaymentBooks DEF ClickPaid, stripeVars, invoiceVars
<1>3. ASSUME NEW r \in Rows, ClickRedirect(r)
      PROVE  LedgerStep
  <2>1. \A s \in Sessions : session'[s] = "paid" <=> session[s] = "paid"
    BY <1>3 DEF ClickRedirect, Live, LinkInv, IInv, TypeOK
  <2>2. QED
    BY <1>3, <2>1, LedgerStands
       DEF LinkInv, ClickRedirect, rowVars, invoiceVars, Settled, LedgerStep
<1>4. ASSUME NEW s \in Sessions, ExpiredEvent(s) \/ FailedEvent(s)
      PROVE  LedgerStep
  <2>1. \A r \in Rows : Settled(r)' <=> Settled(r)
    BY <1>4 DEF ExpiredEvent, FailedEvent, Collectible, Settled, LinkInv, IInv, TypeOK
  <2>2. QED
    BY <1>4, <2>1, LedgerStands
       DEF LinkInv, ExpiredEvent, FailedEvent, stripeVars, invoiceVars, LedgerStep
<1>5. ASSUME (\E r \in Rows : Age(r)) \/ UNCHANGED vars
      PROVE  LedgerStep
  BY <1>5, LedgerStands
     DEF LinkInv, Age, vars, rowVars, stripeVars, invoiceVars, Settled, LedgerStep
<1>6. QED
  BY <1>1, <1>2, <1>3, <1>4, <1>5, StripeTakes, GiveBackReturns, RefundNotes, OfflineReceives,
     CallIsQuiet DEF Next

\* Where no two invoices of one period key ask for the same amount, an invoice
\* is paid once: by one Session, or by receipts up to its amount, never both;
\* and the books follow what Stripe took and gave back.
THEOREM PaidOnlyOnce ==
  ASSUME LinksApart
  PROVE  Spec => PaidOnceSpec
<1>1. Init => Ledger!Init
  <2> SUFFICES ASSUME Init PROVE Ledger!Init
    OBVIOUS
  <2>1. \A s \in Sessions : session[s] # "paid" /\ returned[s] = 0
    BY DEF Init
  <2>2. \A r \in Rows : ~Settled(r) /\ refunded[r] = 0
    BY DEF Init, Settled
  <2>3. takenBar = {} /\ givenBar = {} /\ bookedBar = {} /\ notedBar = {}
    BY <2>1, <2>2, Bars DEF InTaken, InGiven, InBooked, InNoted
  <2>4. QED
    BY <2>3 DEF Init, Ledger!Init
<1>2. LinkInv /\ [Next]_vars => [Ledger!Next]_<<offline, takenBar, givenBar, bookedBar, notedBar>>
  BY LedgerStepped DEF LedgerStep
<1>3. QED
  BY <1>1, <1>2, LinkInvariant, PTL DEF Spec, PaidOnceSpec, Ledger!Spec, Ledger!vars

\* What a customer pays for an invoice, online and offline together, never
\* exceeds what it asks for.
NobodyPaysTwice ==
  \A i \in Invoices : offline[i] + (IF i \in takenBar THEN Amount[i] ELSE 0) <= Amount[i]

\* So it is where no two invoices of one period key ask for the same amount,
\* over all rows, Sessions, clicks, deliveries and receipts.
THEOREM CustomersPayOnce ==
  ASSUME LinksApart
  PROVE  Spec => []NobodyPaysTwice
<1>1. LinkInv => NobodyPaysTwice
  <2> SUFFICES ASSUME LinkInv, NEW i \in Invoices
               PROVE  offline[i] + (IF i \in takenBar THEN Amount[i] ELSE 0) <= Amount[i]
    BY DEF NobodyPaysTwice
  <2>1. Amount[i] \in Nat /\ offline[i] \in Nat /\ offline[i] <= Amount[i]
    BY PayLinkAssumption DEF LinkInv, IInv, TypeOK
  <2>2. i \in takenBar => offline[i] = 0
    BY OutHasNoReceipt, Bars DEF InTaken
  <2>3. QED
    BY <2>1, <2>2
<1>2. QED
  BY <1>1, LinkInvariant, PTL

-----------------------------------------------------------------------------
(* The single link of an invoice                                           *)

\* Invoices end on different days.
PeriodsApart == \A i, j \in Invoices : PeriodKey[i] = PeriodKey[j] => i = j

\* A row is retired only over an offline receipt of its invoice.
OwnRetired ==
  \A r \in Rows :
    rowStatus[r] = "superseded" => madeFor[r] \in Invoices /\ offline[madeFor[r]] > 0

\* Under an invoice's own period key there is only its own row.
LEMMA ExistingIsOwn ==
  ASSUME PeriodsApart, IInv, NEW i \in Invoices, NEW r \in Existing(i)
  PROVE  r \in Rows /\ madeFor[r] = i
<1>1. r \in Rows /\ rowStatus[r] # "absent" /\ PeriodKey[madeFor[r]] = PeriodKey[i]
  BY DEF Existing
<1>2. madeFor[r] \in Invoices
  BY <1>1 DEF IInv, Made, TypeOK
<1>3. QED
  BY <1>1, <1>2 DEF PeriodsApart

\* An offline receipt retires the row of its own invoice.
LEMMA OfflineKeepsOwnRetired ==
  ASSUME IInv, OwnLink, OwnRetired, NEW i \in Invoices, NEW n \in 1 .. Amount[i], RecordOffline(i, n)
  PROVE  OwnRetired'
<1>1. payment[i] \in Rows /\ madeFor[payment[i]] = i
  BY PayLinkAssumption DEF RecordOffline, IInv, Receipts, OwnLink, Rows
<1>2. UNCHANGED <<madeFor, payment, callVars>>
  BY DEF RecordOffline
<1>3. Amount[i] \in Nat /\ n \in Nat /\ n > 0
  BY PayLinkAssumption
<1>4. \A j \in Invoices : offline[j] \in Nat
  BY DEF IInv, TypeOK
<1>5. offline' = [offline EXCEPT ![i] = offline[i] + n] /\ offline \in [Invoices -> Nat]
  BY DEF RecordOffline, IInv, TypeOK
<1>6. offline'[i] > 0
  BY <1>3, <1>4, <1>5
<1>7. \A j \in Invoices \ {i} : offline'[j] = offline[j]
  BY <1>5
<1>8. \A r \in Rows \ {payment[i]} : rowStatus'[r] = rowStatus[r]
  BY <1>1 DEF RecordOffline, Retire, IInv, TypeOK
<1>9. ASSUME NEW r \in Rows, rowStatus'[r] = "superseded"
      PROVE  madeFor[r] \in Invoices /\ offline'[madeFor[r]] > 0
  <2>1. CASE r = payment[i]
    BY <1>1, <1>6, <2>1
  <2>2. CASE r # payment[i]
    <3>1. madeFor[r] \in Invoices /\ offline[madeFor[r]] > 0
      BY <1>8, <1>9, <2>2 DEF OwnRetired
    <3>2. QED
      BY <1>6, <1>7, <3>1
  <2>3. QED
    BY <2>1, <2>2
<1>10. QED
  BY <1>2, <1>9 DEF OwnRetired

\* Where periods are apart, no other step retires a row.
LEMMA OwnRetiredStep ==
  ASSUME PeriodsApart, IInv, OwnLink, OwnRetired, [Next]_vars
  PROVE  OwnRetired'
<1>1. ASSUME UNCHANGED offline,
             \A r \in Rows : rowStatus'[r] = "superseded"
                             => rowStatus[r] = "superseded" /\ madeFor'[r] = madeFor[r]
      PROVE  OwnRetired'
  BY <1>1 DEF OwnRetired
<1>2. ASSUME NEW w \in Workers, MakePayment(w)
      PROVE  OwnRetired'
  <2> DEFINE i == serves[w]
             made == [rowStatus EXCEPT ![NewRow] = "open"]
  <2>1. i \in Invoices
    BY <1>2 DEF MakePayment, IInv, Places
  <2>2. NewRow \in Rows /\ rowStatus[NewRow] = "absent"
    BY <1>2 DEF MakePayment, NewRow, IInv, Made
  <2>3. \A r \in Existing(i) : Amount[madeFor[r]] = Amount[i]
    BY <2>1, ExistingIsOwn
  <2>4. /\ rowStatus' = made
        /\ madeFor' = [madeFor EXCEPT ![NewRow] = i]
        /\ UNCHANGED invoiceVars
    BY <1>2, <2>3 DEF MakePayment
  <2> HIDE DEF i
  <2>5. \A r \in Rows : rowStatus'[r] = "superseded"
                        => rowStatus[r] = "superseded" /\ madeFor'[r] = madeFor[r]
    BY <2>2, <2>4 DEF IInv, TypeOK
  <2>6. QED
    BY <1>1, <2>4, <2>5 DEF invoiceVars
<1>3. ASSUME NEW w \in Workers, StoreSession(w)
      PROVE  OwnRetired'
  <2>1. \A r \in Rows : rowStatus'[r] = "superseded" => rowStatus[r] = "superseded"
    BY <1>3 DEF StoreSession, IInv, TypeOK
  <2>2. QED
    BY <1>1, <1>3, <2>1 DEF StoreSession, invoiceVars
<1>4. ASSUME NEW w \in Workers,
             \/ GiveUp(w) \/ \E i \in Invoices : Deliver(w, i)
             \/ \E r \in Rows : ClickRenew(w, r) \/ ClickMint(w, r)
             \/ ReusePayment(w) \/ RequestSession(w) \/ CreateSession(w)
             \/ Attach(w) \/ Issue(w)
      PROVE  OwnRetired'
  BY <1>1, <1>4 DEF GiveUp, Deliver, ClickRenew, ClickMint, ReusePayment, RequestSession,
                    CreateSession, Attach, Issue, rowVars, invoiceVars
<1>5. ASSUME \/ \E r \in Rows : ClickRedirect(r) \/ Age(r)
             \/ \E s \in Sessions : Stripe(s) \/ GiveBack(s)
             \/ UNCHANGED vars
      PROVE  OwnRetired'
  BY <1>1, <1>5 DEF ClickRedirect, Age, Stripe, Become, GiveBack, vars, rowVars, invoiceVars
<1>6. ASSUME NEW r \in Rows, ClickPaid(r)
      PROVE  OwnRetired'
  <2>1. \A q \in Rows : rowStatus'[q] = "superseded" => rowStatus[q] = "superseded"
    BY <1>6 DEF ClickPaid, IInv, TypeOK
  <2>2. QED
    BY <1>1, <1>6, <2>1 DEF ClickPaid, invoiceVars
<1>7. ASSUME NEW s \in Sessions, NEW n \in 1 .. 2,
             PaidEvent(s) \/ ExpiredEvent(s) \/ FailedEvent(s) \/ RefundEvent(s, n)
      PROVE  OwnRetired'
  <2>1. \A q \in Rows : rowStatus'[q] = "superseded" => rowStatus[q] = "superseded"
    BY <1>7 DEF PaidEvent, ExpiredEvent, FailedEvent, RefundEvent, IInv, TypeOK
  <2>2. QED
    BY <1>1, <1>7, <2>1
       DEF PaidEvent, ExpiredEvent, FailedEvent, RefundEvent, invoiceVars
<1>8. QED
  BY <1>2, <1>3, <1>4, <1>5, <1>6, <1>7, OfflineKeepsOwnRetired DEF Next, Call

\* Where no two invoices end on one day, the link of an issued invoice keeps
\* working until an offline receipt retires it.  The run that refutes this
\* in general has an August invoice and a settlement that ends in August:
\* the shared period key is its only cause.
THEOREM LinkKeepsWorkingApart ==
  ASSUME PeriodsApart
  PROVE  Spec => []LinkKeepsWorking
<1>1. Init => OwnLink /\ OwnRetired
  BY DEF Init, OwnLink, OwnRetired
<1>2. LinksApart
  BY DEF PeriodsApart, LinksApart
<1>3. IInv /\ OwnLink /\ OwnRetired /\ [Next]_vars => OwnLink' /\ OwnRetired'
  BY <1>2, OwnLinkStep, OwnRetiredStep
<1>4. IInv /\ OwnLink /\ OwnRetired => LinkKeepsWorking
  <2> SUFFICES ASSUME IInv, OwnLink, OwnRetired, NEW i \in Invoices, accepted[i], offline[i] = 0,
                      rowStatus[payment[i]] = "superseded"
               PROVE  FALSE
    BY DEF LinkKeepsWorking
  <2>1. payment[i] \in Rows /\ payment[i] # None
    BY PayLinkAssumption DEF IInv, Receipts, Rows
  <2>2. madeFor[payment[i]] = i /\ offline[i] > 0
    BY <2>1 DEF OwnLink, OwnRetired
  <2>3. QED
    BY <2>2
<1>5. QED
  BY <1>1, <1>3, <1>4, Invariant, PTL DEF Spec
=============================================================================
