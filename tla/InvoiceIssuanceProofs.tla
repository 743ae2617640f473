----------------------- MODULE InvoiceIssuanceProofs -----------------------
(***************************************************************************)
(* Proofs about InvoiceIssuance for any obligations, calendar, amounts and *)
(* processes.                                                              *)
(*                                                                         *)
(* The argument: a process is inside send_email_once exactly while its     *)
(* task is "sending", so the issuance only takes steps the outbox allows   *)
(* (Coupled) and all that is proved of the outbox holds here.  An email is *)
(* prepared only for a frozen obligation (Frozen), frozen obligations bill *)
(* disjoint months (Disjoint), and nobody applies an acceptance that the   *)
(* outbox did not see delivered (Evidenced).                               *)
(***************************************************************************)
EXTENDS InvoiceIssuance, EmailOutboxProofs, FiniteSetTheorems, CreditSums

Delivered(k) == \E a \in Attempts : fate[k][a] = "delivered"

\* The tasks and the calls of the processes agree.
Coupled ==
  \A w \in Workers :
    /\ task[w] = "sending" <=> pc[w] # "idle"
    /\ task[w] = "sending" => job[w] = target[w]
    /\ task[w] # "idle" => target[w] \in Keys
    /\ pc[w] = "idle" => job[w] = NoKey /\ attempt[w] = 0 /\ result[w] = "none"

\* The outbox and the processes know only of obligations that are frozen.
Frozen ==
  /\ \A k \in Keys : status[k] # "absent" => frozen[k]
  /\ \A w \in Workers : task[w] # "idle" => frozen[target[w]]

\* Frozen ordinary obligations bill disjoint months.
Disjoint ==
  \A j, k \in Ordinary :
    frozen[j] /\ frozen[k] /\ j # k => Covers[j] \cap Covers[k] = {}

\* What is applied, or about to be, was delivered.
Evidenced ==
  /\ AcceptedWasMailed
  /\ \A w \in Workers : task[w] = "accept" => Delivered(target[w])

\* A call that is done has a result to return.
DoneHasResult == \A w \in Workers : pc[w] = "done" => result[w] \in Results \ {"none"}

IssuanceInv ==
  /\ TypeOK /\ Busy /\ Inv
  /\ Coupled
  /\ DoneHasResult
  /\ IssuanceTypeOK
  /\ Frozen
  /\ Disjoint
  /\ Evidenced
  /\ LatestSendIsReal

-----------------------------------------------------------------------------
(* The issuance is a caller of the outbox                                  *)

LEMMA CoupledInit == IssuanceInit => Coupled
  BY DEF IssuanceInit, Init, Coupled

\* A step of one process's task that makes no call.
LEMMA TaskStep ==
  ASSUME Coupled, NEW w \in Workers, UNCHANGED callVars,
         task \in [Workers -> Tasks], target \in [Workers -> Keys \cup {NoKey}],
         task[w] # "sending",
         \E t \in Tasks \ {"sending"} : task' = [task EXCEPT ![w] = t],
         \E k \in Keys \cup {NoKey} : target' = [target EXCEPT ![w] = k],
         task'[w] # "idle" => target'[w] \in Keys
  PROVE  Coupled'
  BY DEF Coupled, callVars

LEMMA StepKeepsCall ==
  ASSUME TypeOK, NEW w \in Workers, Step(w)
  PROVE  /\ UNCHANGED job
         /\ pc[w] # "idle" /\ pc'[w] # "idle"
         /\ \A v \in Workers \ {w} : /\ pc'[v] = pc[v] /\ attempt'[v] = attempt[v]
                                     /\ result'[v] = result[v]
  BY DEF TypeOK, Step, Claim, ClaimLost, ReadWinner, Transmit, NotTransmitted,
         GiveUp, Answered, Record

LEMMA CoupledStep ==
  TypeOK /\ IssuanceTypeOK /\ Coupled /\ [IssuanceNext]_issuanceVars => Coupled'
<1> SUFFICES ASSUME TypeOK, IssuanceTypeOK, Coupled, [IssuanceNext]_issuanceVars
             PROVE  Coupled'
  OBVIOUS
<1>t. task \in [Workers -> Tasks] /\ target \in [Workers -> Keys \cup {NoKey}]
  BY DEF IssuanceTypeOK
<1>1. ASSUME NEW w \in Workers, NEW k \in Keys, Freeze(w, k) \/ Resume(w, k)
      PROVE  Coupled'
  <2>1. Begin(w, "recover", k) /\ UNCHANGED outboxVars
    BY <1>1 DEF Freeze, FreezeRow, Resume
  <2>2. QED
    BY <1>t, <2>1, TaskStep DEF Begin, Tasks, outboxVars
<1>2. ASSUME NEW w \in Workers,
             Recover(w) \/ PayLinkReady(w) \/ HoldRead(w) \/ HoldWrite(w) \/ Accept(w)
      PROVE  Coupled'
  <2>1. /\ task[w] \in {"recover", "pay", "hold", "accept"}
        /\ UNCHANGED outboxVars
        /\ End(w) \/ \E t \in {"accept", "pay", "send", "hold"} : Goto(w, t)
    BY <1>2 DEF Recover, PayLinkReady, HoldRead, HoldWrite, Accept
  <2>2. CASE End(w)
    BY <1>t, <2>1, <2>2, TaskStep DEF End, Tasks, outboxVars
  <2>3. ASSUME NEW t \in {"accept", "pay", "send", "hold"}, Goto(w, t)
        PROVE  Coupled'
    <3>1. target' = [target EXCEPT ![w] = target[w]] /\ target[w] \in Keys
      BY <1>t, <2>1, <2>3 DEF Goto, Coupled
    <3>2. QED
      BY <1>t, <2>1, <2>3, <3>1, TaskStep DEF Goto, Tasks, outboxVars
  <2>4. QED
    BY <2>1, <2>2, <2>3
<1>3. ASSUME NEW w \in Workers, NEW k \in Keys, Sweep(w, k) \/ OperatorReceipt(w, k)
      PROVE  Coupled'
  <2>1. Begin(w, "accept", k) /\ UNCHANGED callVars
    BY <1>3 DEF Sweep, OperatorReceipt, ReconcileReceipt, outboxVars
  <2>2. QED
    BY <1>t, <2>1, TaskStep DEF Begin, Tasks
<1>4. ASSUME NEW w \in Workers, NEW k \in Keys, Enqueue(w, k),
             task' = [task EXCEPT ![w] = "sending"], target'[w] = k,
             \A v \in Workers \ {w} : target'[v] = target[v]
      PROVE  Coupled'
  BY <1>4, <1>t DEF Coupled, Enqueue, TypeOK
<1>5. ASSUME NEW w \in Workers, SendCall(w)
      PROVE  Coupled'
  <2>1. target[w] \in Keys
    BY <1>5 DEF SendCall, Coupled
  <2>2. QED
    BY <1>4, <1>5, <2>1 DEF SendCall, Goto
<1>6. ASSUME NEW w \in Workers, NEW k \in Keys, RetryDispatch(w, k)
      PROVE  Coupled'
  BY <1>4, <1>6, <1>t DEF RetryDispatch, Begin
<1>7. ASSUME NEW w \in Workers, OutboxStep(w)
      PROVE  Coupled'
  BY <1>7, StepKeepsCall DEF OutboxStep, Coupled, taskVars
<1>8. ASSUME NEW w \in Workers, Finish(w) \/ Die(w)
      PROVE  Coupled'
  <2>1. End(w) /\ Forget(w)
    BY <1>8 DEF Finish, Return, Die
  <2>2. QED
    BY <1>t, <2>1 DEF End, Forget, Coupled, TypeOK
<1>9. ASSUME NEW k \in Keys, QueuePeriod(k) \/ Repair(k)
      PROVE  Coupled'
  BY <1>9 DEF QueuePeriod, Repair, Coupled, taskVars, outboxVars, callVars
<1>10. CASE Outside
  <2>1. UNCHANGED <<callVars, taskVars>>
    BY <1>10 DEF Outside, BecomeDue, Provider, callVars
  <2>2. QED
    BY <2>1 DEF Coupled, callVars, taskVars
<1>11. CASE UNCHANGED issuanceVars
  BY <1>11 DEF issuanceVars, Coupled, taskVars, outboxVars, callVars
<1>12. QED
  BY <1>1, <1>2, <1>3, <1>5, <1>6, <1>7, <1>8, <1>9, <1>10, <1>11
  DEF IssuanceNext, Deliver, Work

\* Every step of the issuance is a step of the outbox or leaves it alone.
LEMMA OutboxAllows ==
  TypeOK /\ Coupled /\ [IssuanceNext]_issuanceVars => [Next]_outboxVars
<1> SUFFICES ASSUME TypeOK, Coupled, [IssuanceNext]_issuanceVars
             PROVE  Next \/ UNCHANGED outboxVars
  OBVIOUS
<1>1. ASSUME NEW w \in Workers, NEW k \in Keys, Freeze(w, k) \/ Resume(w, k) \/ Sweep(w, k)
      PROVE  UNCHANGED outboxVars
  BY <1>1 DEF Freeze, FreezeRow, Resume, Sweep
<1>2. ASSUME NEW w \in Workers,
             Recover(w) \/ PayLinkReady(w) \/ HoldRead(w) \/ HoldWrite(w) \/ Accept(w)
      PROVE  UNCHANGED outboxVars
  BY <1>2 DEF Recover, PayLinkReady, HoldRead, HoldWrite, Accept
<1>3. ASSUME NEW w \in Workers, SendCall(w)
      PROVE  Next
  <2>1. target[w] \in Keys /\ Enqueue(w, target[w])
    BY <1>3 DEF SendCall, Coupled
  <2>2. QED
    BY <2>1 DEF Next
<1>4. ASSUME NEW w \in Workers, OutboxStep(w) \/ Finish(w)
      PROVE  Next
  BY <1>4 DEF OutboxStep, Finish, Next
<1>5. ASSUME NEW w \in Workers, NEW k \in Keys, RetryDispatch(w, k) \/ OperatorReceipt(w, k)
      PROVE  Next
  BY <1>5 DEF RetryDispatch, OperatorReceipt, Next, Environment
<1>6. ASSUME NEW w \in Workers, Die(w)
      PROVE  Next \/ UNCHANGED outboxVars
  <2>1. CASE pc[w] # "idle"
    BY <1>6, <2>1 DEF Die, Crash, Next
  <2>2. CASE pc[w] = "idle"
    <3>1. job[w] = NoKey /\ attempt[w] = 0 /\ result[w] = "none"
      BY <2>2 DEF Coupled
    <3>2. UNCHANGED callVars
      BY <1>6, <2>2, <3>1 DEF Die, Forget, TypeOK, callVars
    <3>3. QED
      BY <1>6, <3>2 DEF Die, outboxVars
  <2>3. QED
    BY <2>1, <2>2
<1>7. ASSUME NEW k \in Keys, QueuePeriod(k) \/ Repair(k)
      PROVE  UNCHANGED outboxVars
  BY <1>7 DEF QueuePeriod, Repair
<1>8. CASE Outside
  BY <1>8 DEF Outside, Next, Environment
<1>9. CASE UNCHANGED issuanceVars
  BY <1>9 DEF issuanceVars
<1>10. QED
  BY <1>1, <1>2, <1>3, <1>4, <1>5, <1>6, <1>7, <1>8, <1>9
  DEF IssuanceNext, Deliver, Work

-----------------------------------------------------------------------------
(* Type correctness                                                        *)

LEMMA IssuanceTypingInit == IssuanceInit => IssuanceTypeOK
  BY TypingInit, AmountsAssumption
  DEF IssuanceInit, IssuanceTypeOK, InvoiceStatuses, Tasks

\* The credit an obligation takes is within its amount and the balance.
LEMMA CreditBounds ==
  ASSUME pendingCredit \in Nat, NEW k \in Keys
  PROVE  /\ Credit(k) \in 0 .. pendingCredit
         /\ Credit(k) <= Gross[k]
         /\ k \in Trueups => Credit(k) = 0
  BY AmountsAssumption DEF Credit, Lesser

LEMMA FreezeRowTyping ==
  ASSUME IssuanceTypeOK, NEW k \in Keys, FreezeRow(k)
  PROVE  /\ invoice' \in [Keys -> InvoiceStatuses]
         /\ frozen' \in [Keys -> BOOLEAN]
         /\ reserved' \in [Keys -> Nat]
         /\ number' \in [Keys -> Nat]
         /\ applied' \in [Keys -> BOOLEAN]
         /\ pendingCredit' \in Nat
         /\ nextNumber' \in Nat \ {0}
         /\ latest' \in Keys \cup {NoKey}
         /\ lastPeriod' \in Nat
         /\ lastTrueup' \in Nat
<1>1. pendingCredit - Credit(k) \in Nat /\ Credit(k) \in Nat
  BY CreditBounds DEF IssuanceTypeOK
<1>2. QED
  BY <1>1 DEF IssuanceTypeOK, FreezeRow, InvoiceStatuses

\* What _finish_locked may do, whatever branch it takes.
LEMMA FinishTyping ==
  ASSUME IssuanceTypeOK, NEW k \in Keys, NEW r \in {"ok", "uncertain", "failed"},
         NEW overtaken \in BOOLEAN, FinishLocked(k, r, overtaken), UNCHANGED finishFrame
  PROVE  /\ invoice' \in [Keys -> InvoiceStatuses]
         /\ frozen' \in [Keys -> BOOLEAN]
         /\ reserved' \in [Keys -> Nat]
         /\ number' \in [Keys -> Nat]
         /\ applied' \in [Keys -> BOOLEAN]
         /\ pendingCredit' \in Nat
         /\ nextNumber' \in Nat \ {0}
         /\ latest' \in Keys \cup {NoKey}
         /\ lastPeriod' \in Nat
         /\ lastTrueup' \in Nat
<1>1. PeriodEnd[k] \in Nat /\ Grant[k] \in Nat
  BY ObligationsAssumption, AmountsAssumption
<1>2. invoice' \in [Keys -> InvoiceStatuses]
  BY DEF FinishLocked, IssuanceTypeOK, InvoiceStatuses
<1>3. applied' \in [Keys -> BOOLEAN]
  BY DEF FinishLocked, IssuanceTypeOK
<1>4. pendingCredit' \in Nat
  <2> DEFINE banked == IF k \in Trueups THEN Grant[k] ELSE 0
  <2>1. banked \in Nat /\ pendingCredit \in Nat
    BY <1>1 DEF IssuanceTypeOK
  <2>2. pendingCredit' = pendingCredit \/ pendingCredit' = pendingCredit + banked
    BY DEF FinishLocked
  <2>3. QED
    BY <2>1, <2>2
<1>5. latest' \in Keys \cup {NoKey} /\ lastPeriod' \in Nat /\ lastTrueup' \in Nat
  BY <1>1 DEF FinishLocked, MarkLatest, IssuanceTypeOK
<1>6. QED
  BY <1>2, <1>3, <1>4, <1>5 DEF finishFrame, IssuanceTypeOK

\* A call that is done has a result, and the outbox's typing of it.
LEMMA FinishResult ==
  ASSUME TypeOK, Coupled, DoneHasResult, NEW w \in Workers, Finish(w)
  PROVE  /\ target[w] \in Keys /\ job[w] = target[w] /\ pc[w] = "done"
         /\ result[w] \in {"ok", "uncertain", "failed"}
  BY DEF Finish, Return, Coupled, DoneHasResult, Results

LEMMA TasksTyping ==
  ASSUME IssuanceTypeOK, Coupled, [IssuanceNext]_issuanceVars
  PROVE  task' \in [Workers -> Tasks] /\ target' \in [Workers -> Keys \cup {NoKey}]
<1> USE DEF IssuanceTypeOK, Tasks
<1>1. ASSUME NEW w \in Workers, NEW k \in Keys,
             \/ Freeze(w, k) \/ Resume(w, k) \/ RetryDispatch(w, k)
             \/ Sweep(w, k) \/ OperatorReceipt(w, k)
      PROVE  task' \in [Workers -> Tasks] /\ target' \in [Workers -> Keys \cup {NoKey}]
  BY <1>1 DEF Freeze, Resume, RetryDispatch, Sweep, OperatorReceipt, Begin
<1>2. ASSUME NEW w \in Workers, Work(w) \/ Die(w)
      PROVE  task' \in [Workers -> Tasks] /\ target' \in [Workers -> Keys \cup {NoKey}]
  BY <1>2 DEF Work, Recover, PayLinkReady, HoldRead, HoldWrite, SendCall, OutboxStep,
              Finish, Accept, Die, Goto, End, taskVars
<1>3. ASSUME NEW k \in Keys, QueuePeriod(k) \/ Repair(k)
      PROVE  task' \in [Workers -> Tasks] /\ target' \in [Workers -> Keys \cup {NoKey}]
  BY <1>3 DEF QueuePeriod, Repair, taskVars
<1>4. CASE Outside \/ UNCHANGED issuanceVars
  BY <1>4 DEF Outside, issuanceVars, taskVars
<1>5. QED
  BY <1>1, <1>2, <1>3, <1>4 DEF IssuanceNext, Deliver

\* Each way an obligation or the subscription can change keeps its types; the
\* steps of the outbox keep theirs by TypingStep.
LEMMA IssuanceTypingStep ==
  TypeOK' /\ Coupled /\ DoneHasResult /\ IssuanceTypeOK /\ [IssuanceNext]_issuanceVars
    => IssuanceTypeOK'
<1> SUFFICES ASSUME TypeOK', Coupled, DoneHasResult, IssuanceTypeOK,
                    [IssuanceNext]_issuanceVars
             PROVE  IssuanceTypeOK'
  OBVIOUS
<1> DEFINE Typed ==
      /\ invoice' \in [Keys -> InvoiceStatuses]
      /\ frozen' \in [Keys -> BOOLEAN]
      /\ reserved' \in [Keys -> Nat]
      /\ number' \in [Keys -> Nat]
      /\ applied' \in [Keys -> BOOLEAN]
      /\ pendingCredit' \in Nat
      /\ nextNumber' \in Nat \ {0}
      /\ latest' \in Keys \cup {NoKey}
      /\ lastPeriod' \in Nat
      /\ lastTrueup' \in Nat
<1>1. ASSUME UNCHANGED <<obligationVars, subscriptionVars>>
      PROVE  Typed
  BY <1>1 DEF obligationVars, subscriptionVars, IssuanceTypeOK
<1>2. ASSUME NEW w \in Workers, NEW k \in Keys, Freeze(w, k)
      PROVE  Typed
  BY <1>2, FreezeRowTyping DEF Freeze
<1>3. ASSUME NEW w \in Workers, Finish(w)
      PROVE  Typed
  <2>1. /\ target[w] \in Keys /\ result[w] \in {"ok", "uncertain", "failed"}
        /\ FinishLocked(target[w], result[w], FALSE) /\ UNCHANGED finishFrame
    BY <1>3, FinishResult DEF Finish, IssuanceTypeOK
  <2>2. QED
    BY <2>1, FinishTyping
<1>4. ASSUME NEW w \in Workers, Accept(w)
      PROVE  Typed
  <2>1. target[w] \in Keys
    BY <1>4 DEF Accept, Coupled
  <2>2. QED
    BY <1>4, <2>1, FinishTyping DEF Accept
<1>5. ASSUME NEW k \in Keys, Repair(k)
      PROVE  Typed
  BY <1>5, FinishTyping DEF Repair
<1>6. ASSUME NEW k \in Keys, QueuePeriod(k)
      PROVE  Typed
  BY <1>6 DEF QueuePeriod, subscriptionVars, IssuanceTypeOK, InvoiceStatuses
<1>7. ASSUME NEW w \in Workers, HoldWrite(w)
      PROVE  Typed
  BY <1>7 DEF HoldWrite, subscriptionVars, IssuanceTypeOK, InvoiceStatuses
<1>8. ASSUME NEW w \in Workers,
             \/ Recover(w) \/ PayLinkReady(w) \/ HoldRead(w) \/ SendCall(w)
             \/ OutboxStep(w) \/ Die(w)
      PROVE  Typed
  BY <1>1, <1>8 DEF Recover, PayLinkReady, HoldRead, SendCall, OutboxStep, Die
<1>9. ASSUME NEW w \in Workers, NEW k \in Keys,
             Resume(w, k) \/ RetryDispatch(w, k) \/ Sweep(w, k) \/ OperatorReceipt(w, k)
      PROVE  Typed
  <2>1. UNCHANGED <<obligationVars, subscriptionVars>>
    BY <1>9 DEF Resume, RetryDispatch, Sweep, OperatorReceipt
  <2>2. QED
    BY <1>1, <2>1
<1>10. ASSUME Outside \/ UNCHANGED issuanceVars
       PROVE  Typed
  <2>1. UNCHANGED <<obligationVars, subscriptionVars>>
    BY <1>10 DEF Outside, issuanceVars
  <2>2. QED
    BY <1>1, <2>1
<1>11. Typed
  BY <1>2, <1>3, <1>4, <1>5, <1>6, <1>7, <1>8, <1>9, <1>10
  DEF IssuanceNext, Deliver, Work
<1>12. QED
  BY <1>11, TasksTyping DEF IssuanceTypeOK

-----------------------------------------------------------------------------
(* What the outbox guarantees its callers                                  *)

\* A delivered email stays delivered.
LEMMA DeliveredStays ==
  ASSUME TypeOK, Busy, Inv, [Next]_outboxVars, NEW k \in Keys, Delivered(k)
  PROVE  Delivered(k)'
<1>1. PICK a \in Attempts : fate[k][a] = "delivered"
  BY DEF Delivered
<1> USE DEF TypeOK
<1>2. ASSUME NEW w \in Workers, Transmit(w) \/ NotTransmitted(w)
      PROVE  fate'[k][a] = "delivered"
  <2>1. job[w] \in Keys /\ Holding(w, job[w]) /\ pc[w] = "claimed"
    BY <1>2 DEF Transmit, NotTransmitted, Busy, Holding
  <2>2. fate[job[w]][attempt[w]] = "none"
    BY <2>1 DEF Inv, Held
  <2>3. QED
    BY <1>1, <1>2, <2>1, <2>2 DEF Transmit, NotTransmitted
<1>3. ASSUME NEW j \in Keys, NEW b \in Attempts, Provider(j, b)
      PROVE  fate'[k][a] = "delivered"
  BY <1>1, <1>3 DEF Provider
<1>4. ASSUME NEW w \in Workers,
             \/ \E j \in Keys : Enqueue(w, j)
             \/ Claim(w) \/ ClaimLost(w) \/ ReadWinner(w) \/ GiveUp(w)
             \/ Answered(w) \/ Record(w) \/ Return(w) \/ Crash(w)
      PROVE  fate'[k][a] = "delivered"
  BY <1>1, <1>4 DEF Enqueue, Claim, ClaimLost, ReadWinner, GiveUp, Answered, Record,
                    Return, Crash
<1>5. ASSUME NEW j \in Keys, BecomeDue(j) \/ \E b \in Attempts : ReconcileReceipt(j, b)
      PROVE  fate'[k][a] = "delivered"
  BY <1>1, <1>5 DEF BecomeDue, ReconcileReceipt
<1>6. CASE UNCHANGED outboxVars
  <2>1. fate'[k][a] = "delivered"
    BY <1>1, <1>6 DEF outboxVars
  <2>2. QED
    BY <2>1 DEF Delivered
<1>7. CASE Next
  <2>1. fate'[k][a] = "delivered"
    BY <1>2, <1>3, <1>4, <1>5, <1>7 DEF Next, Step, Environment
  <2>2. QED
    BY <2>1 DEF Delivered
<1>8. QED
  BY <1>6, <1>7

\* An accepted row was delivered, and so was what a call answers "ok" for.
LEMMA AcceptedDelivered ==
  ASSUME TypeOK, Inv, NEW k \in Keys, status[k] = "accepted"
  PROVE  Delivered(k)
<1>1. attempts[k] \in Attempts /\ fate[k][attempts[k]] = "delivered"
  BY MaxAttemptsAssumption DEF TypeOK, Inv, Recorded, Attempts
<1>2. QED
  BY <1>1 DEF Delivered

\* An email without a row was never sent.
LEMMA DeliveredHasRow ==
  ASSUME TypeOK, Inv, NEW k \in Keys, Delivered(k)
  PROVE  status[k] # "absent"
<1>1. PICK a \in Attempts : fate[k][a] = "delivered"
  BY DEF Delivered
<1>2. a = attempts[k] /\ a # 0
  BY <1>1, LiveIsLast DEF Inv
<1>3. QED
  BY <1>2 DEF Inv, Recorded

LEMMA DoneHasResultStep ==
  ASSUME TypeOK, Busy, Inv, DoneHasResult, [Next]_outboxVars
  PROVE  DoneHasResult'
<1> USE DEF TypeOK, DoneHasResult, Results
<1>1. ASSUME NEW w \in Workers, NEW k \in Keys, Enqueue(w, k)
      PROVE  DoneHasResult'
  BY <1>1 DEF Enqueue, DuplicateResult
<1>2. ASSUME NEW w \in Workers, ReadWinner(w)
      PROVE  DoneHasResult'
  BY <1>2 DEF ReadWinner, DuplicateResult
<1>3. ASSUME NEW w \in Workers, Record(w)
      PROVE  DoneHasResult'
  <2>1. job[w] \in Keys /\ Holding(w, job[w]) /\ pc[w] = "record"
    BY <1>3 DEF Record, Busy, Holding
  <2>2. result[w] \in {"ok", "uncertain", "failed"}
    BY <2>1 DEF Inv, Held
  <2>3. QED
    BY <1>3, <2>2 DEF Record
<1>4. ASSUME NEW w \in Workers,
             \/ Claim(w) \/ ClaimLost(w) \/ Transmit(w) \/ NotTransmitted(w)
             \/ GiveUp(w) \/ Answered(w) \/ Return(w) \/ Crash(w)
      PROVE  DoneHasResult'
  BY <1>4 DEF Claim, ClaimLost, Transmit, NotTransmitted, GiveUp, Answered, Return,
              Crash, Forget
<1>5. CASE Environment \/ UNCHANGED outboxVars
  BY <1>5 DEF Environment, BecomeDue, Provider, ReconcileReceipt, callVars, outboxVars
<1>6. QED
  BY <1>1, <1>2, <1>3, <1>4, <1>5 DEF Next, Step

-----------------------------------------------------------------------------
(* What a step may do to the obligations                                   *)

\* An outcome is applied to a frozen obligation, and "ok" only if the email
\* was delivered.
Finishing ==
  \E k \in Keys : \E r \in {"ok", "uncertain", "failed"} : \E overtaken \in BOOLEAN :
    /\ FinishLocked(k, r, overtaken)
    /\ UNCHANGED finishFrame
    /\ frozen[k]
    /\ r = "ok" => Delivered(k)

\* An obligation is queued or held.
Holds ==
  \E k \in Keys :
    /\ invoice' = [invoice EXCEPT ![k] = "held"]
    /\ UNCHANGED <<frozen, reserved, number, applied, subscriptionVars>>

LEMMA FourWays ==
  ASSUME IssuanceInv, IssuanceNext
  PROVE  \/ /\ UNCHANGED fate
            /\ \/ \E w \in Workers : \E k \in Keys : Freeze(w, k)
               \/ Finishing
               \/ Holds
         \/ UNCHANGED <<obligationVars, subscriptionVars>>
<1>1. ASSUME NEW w \in Workers, Finish(w)
      PROVE  Finishing /\ UNCHANGED fate
  <2>1. /\ target[w] \in Keys /\ job[w] = target[w] /\ pc[w] = "done"
        /\ result[w] \in {"ok", "uncertain", "failed"}
    BY <1>1, FinishResult DEF IssuanceInv
  <2>2. frozen[target[w]]
    BY <1>1 DEF Finish, IssuanceInv, Frozen
  <2>3. result[w] = "ok" => Delivered(target[w])
    BY <2>1 DEF IssuanceInv, Inv, OkMeansDelivered, Delivered
  <2>4. QED
    BY <1>1, <2>1, <2>2, <2>3 DEF Finish, Finishing, Return
<1>2. ASSUME NEW w \in Workers, Accept(w)
      PROVE  Finishing /\ UNCHANGED fate
  <2>1. target[w] \in Keys /\ frozen[target[w]] /\ Delivered(target[w])
    BY <1>2 DEF Accept, IssuanceInv, Coupled, Frozen, Evidenced
  <2>2. QED
    BY <1>2, <2>1 DEF Accept, Finishing, outboxVars
<1>3. ASSUME NEW k \in Keys, Repair(k)
      PROVE  Finishing /\ UNCHANGED fate
  BY <1>3, AcceptedDelivered DEF Repair, Finishing, IssuanceInv, outboxVars
<1>4. ASSUME NEW k \in Keys, QueuePeriod(k)
      PROVE  Holds /\ UNCHANGED fate
  BY <1>4 DEF QueuePeriod, Holds, outboxVars
<1>5. ASSUME NEW w \in Workers, HoldWrite(w)
      PROVE  Holds /\ UNCHANGED fate
  BY <1>5 DEF HoldWrite, Holds, outboxVars, IssuanceInv, Coupled
<1>6. ASSUME NEW w \in Workers, NEW k \in Keys, Freeze(w, k)
      PROVE  UNCHANGED fate
  BY <1>6 DEF Freeze, FreezeRow, outboxVars
<1>7. ASSUME NEW w \in Workers,
             \/ Recover(w) \/ PayLinkReady(w) \/ HoldRead(w) \/ SendCall(w)
             \/ OutboxStep(w) \/ Die(w)
      PROVE  UNCHANGED <<obligationVars, subscriptionVars>>
  BY <1>7 DEF Recover, PayLinkReady, HoldRead, SendCall, OutboxStep, Die
<1>8. ASSUME NEW w \in Workers, NEW k \in Keys,
             Resume(w, k) \/ RetryDispatch(w, k) \/ Sweep(w, k) \/ OperatorReceipt(w, k)
      PROVE  UNCHANGED <<obligationVars, subscriptionVars>>
  BY <1>8 DEF Resume, RetryDispatch, Sweep, OperatorReceipt
<1>9. Outside => UNCHANGED <<obligationVars, subscriptionVars>>
  BY DEF Outside
<1>10. QED
  BY <1>1, <1>2, <1>3, <1>4, <1>5, <1>6, <1>7, <1>8, <1>9 DEF IssuanceNext, Deliver, Work

-----------------------------------------------------------------------------
(* The invariant                                                           *)

LEMMA FrozenStep ==
  ASSUME IssuanceInv, [IssuanceNext]_issuanceVars
  PROVE  Frozen'
<1> USE DEF IssuanceInv, IssuanceTypeOK, TypeOK, Frozen, obligationVars
<1>1. ASSUME NEW w \in Workers, NEW k \in Keys, Freeze(w, k)
      PROVE  Frozen'
  BY <1>1 DEF Freeze, FreezeRow, Begin, outboxVars, rowVars
<1>2. ASSUME NEW w \in Workers, NEW k \in Keys, Resume(w, k) \/ Sweep(w, k)
      PROVE  Frozen'
  BY <1>2 DEF Resume, Sweep, Begin, outboxVars, rowVars
<1>3. ASSUME NEW w \in Workers, NEW k \in Keys, RetryDispatch(w, k)
      PROVE  Frozen'
  BY <1>3 DEF RetryDispatch, Begin, Enqueue
<1>4. ASSUME NEW w \in Workers, NEW k \in Keys, OperatorReceipt(w, k)
      PROVE  Frozen'
  BY <1>4 DEF OperatorReceipt, Begin, ReconcileReceipt
<1>5. ASSUME NEW w \in Workers,
             Recover(w) \/ PayLinkReady(w) \/ HoldRead(w) \/ HoldWrite(w)
      PROVE  Frozen'
  BY <1>5 DEF Recover, PayLinkReady, HoldRead, HoldWrite, Goto, End, outboxVars, rowVars
<1>6. ASSUME NEW w \in Workers, Accept(w) \/ Finish(w) \/ Die(w)
      PROVE  Frozen'
  <2>1. UNCHANGED <<frozen, status>> /\ End(w)
    BY <1>6 DEF Accept, Finish, Return, Die, finishFrame, outboxVars, rowVars
  <2>2. QED
    BY <2>1 DEF End
<1>7. ASSUME NEW w \in Workers, SendCall(w)
      PROVE  Frozen'
  BY <1>7 DEF SendCall, Goto, Enqueue, Coupled
<1>8. ASSUME NEW w \in Workers, OutboxStep(w)
      PROVE  Frozen'
  <2>1. job[w] \in Keys /\ frozen[job[w]]
    BY <1>8 DEF OutboxStep, Coupled
  <2>2. \A k \in Keys : k # job[w] => status'[k] = status[k]
    BY <1>8 DEF OutboxStep, Step, Claim, ClaimLost, ReadWinner, Transmit, NotTransmitted,
                GiveUp, Answered, Record, rowVars
  <2>3. QED
    BY <1>8, <2>1, <2>2 DEF OutboxStep, taskVars
<1>9. ASSUME NEW k \in Keys, QueuePeriod(k) \/ Repair(k)
      PROVE  Frozen'
  BY <1>9 DEF QueuePeriod, Repair, finishFrame, taskVars, outboxVars, rowVars
<1>10. CASE Outside
  BY <1>10 DEF Outside, BecomeDue, Provider, taskVars, rowVars
<1>11. CASE UNCHANGED issuanceVars
  BY <1>11 DEF issuanceVars, taskVars, outboxVars, rowVars
<1>12. QED
  BY <1>1, <1>2, <1>3, <1>4, <1>5, <1>6, <1>7, <1>8, <1>9, <1>10, <1>11
  DEF IssuanceNext, Deliver, Work

\* Only a freeze adds an obligation, and it looks at all that are frozen.
LEMMA DisjointStep ==
  ASSUME IssuanceInv, [IssuanceNext]_issuanceVars
  PROVE  Disjoint'
<1> USE DEF IssuanceInv, IssuanceTypeOK, Disjoint
<1>1. ASSUME NEW w \in Workers, NEW k \in Keys, Freeze(w, k)
      PROVE  Disjoint'
  <2>1. frozen' = [frozen EXCEPT ![k] = TRUE] /\ Unbilled(k)
    BY <1>1 DEF Freeze, FreezeRow
  <2>2. QED
    BY <2>1 DEF Unbilled, Ordinary
<1>2. ASSUME UNCHANGED frozen
      PROVE  Disjoint'
  BY <1>2
<1>3. CASE Finishing \/ Holds \/ UNCHANGED <<obligationVars, subscriptionVars>>
  BY <1>2, <1>3 DEF Finishing, Holds, finishFrame, obligationVars
<1>4. CASE UNCHANGED issuanceVars
  BY <1>2, <1>4 DEF issuanceVars, obligationVars
<1>5. QED
  BY <1>1, <1>3, <1>4, FourWays

LEMMA EvidencedStep ==
  ASSUME IssuanceInv, [IssuanceNext]_issuanceVars
  PROVE  Evidenced'
<1>1. \A k \in Keys : Delivered(k) => Delivered(k)'
  BY OutboxAllows, DeliveredStays DEF IssuanceInv
<1>2. AcceptedWasMailed'
  <2> SUFFICES ASSUME NEW k \in Keys, invoice'[k] = "accepted" \/ applied'[k]
               PROVE  Delivered(k)'
    BY DEF AcceptedWasMailed, Delivered
  <2>1. CASE Delivered(k)
    BY <1>1, <2>1
  <2>2. CASE ~Delivered(k)
    <3>1. invoice[k] # "accepted" /\ ~applied[k]
      BY <2>2 DEF IssuanceInv, Evidenced, AcceptedWasMailed, Delivered
    <3>2. ASSUME NEW w \in Workers, NEW j \in Keys, Freeze(w, j)
          PROVE  FALSE
      BY <3>1, <3>2 DEF Freeze, FreezeRow, IssuanceInv, IssuanceTypeOK
    <3>3. CASE Finishing
      BY <2>2, <3>1, <3>3 DEF Finishing, FinishLocked, IssuanceInv, IssuanceTypeOK
    <3>4. CASE Holds
      BY <3>1, <3>4 DEF Holds, IssuanceInv, IssuanceTypeOK
    <3>5. CASE UNCHANGED <<obligationVars, subscriptionVars>> \/ UNCHANGED issuanceVars
      BY <3>1, <3>5 DEF obligationVars, issuanceVars
    <3>6. QED
      BY <3>2, <3>3, <3>4, <3>5, FourWays
  <2>3. QED
    BY <2>1, <2>2
<1>3. ASSUME NEW w \in Workers, task'[w] = "accept"
      PROVE  Delivered(target[w])'
  <2> USE DEF IssuanceInv, IssuanceTypeOK
  <2>1. CASE task[w] = "accept" /\ target'[w] = target[w]
    <3>1. target[w] \in Keys /\ Delivered(target[w])
      BY <2>1 DEF Coupled, Evidenced
    <3>2. Delivered(target[w])' <=> \E a \in Attempts : fate'[target'[w]][a] = "delivered"
      BY DEF Delivered
    <3>3. QED
      BY <1>1, <2>1, <3>1, <3>2 DEF Delivered
  <2>2. CASE ~(task[w] = "accept" /\ target'[w] = target[w])
    <3>1. \/ Recover(w)
          \/ \E k \in Keys : Sweep(w, k) \/ OperatorReceipt(w, k)
      <4>1. ASSUME NEW v \in Workers, NEW k \in Keys, NEW t \in Tasks, Begin(v, t, k)
            PROVE  v = w /\ t = "accept"
        BY <1>3, <2>2, <4>1 DEF Begin
      <4>2. ASSUME NEW v \in Workers, End(v)
            PROVE  FALSE
        BY <1>3, <2>2, <4>2 DEF End
      <4>3. ASSUME NEW v \in Workers, NEW t \in Tasks, Goto(v, t)
            PROVE  v = w /\ t = "accept"
        BY <1>3, <2>2, <4>3 DEF Goto
      <4>4. ASSUME UNCHANGED taskVars
            PROVE  FALSE
        BY <1>3, <2>2, <4>4 DEF taskVars
      <4>5. ASSUME NEW v \in Workers, Deliver(v) \/ \E k \in Keys : RetryDispatch(v, k)
            PROVE  FALSE
        BY <4>1, <4>5 DEF Deliver, Freeze, Resume, RetryDispatch, Tasks
      <4>6. ASSUME NEW v \in Workers, Work(v) \/ Die(v)
            PROVE  Recover(w)
        BY <4>2, <4>3, <4>4, <4>6
        DEF Work, Recover, PayLinkReady, HoldRead, HoldWrite, SendCall, OutboxStep, Finish,
            Accept, Die, Tasks
      <4>7. ASSUME NEW v \in Workers, NEW k \in Keys, Sweep(v, k) \/ OperatorReceipt(v, k)
            PROVE  v = w
        BY <4>1, <4>7 DEF Sweep, OperatorReceipt, Tasks
      <4>8. ASSUME NEW k \in Keys, QueuePeriod(k) \/ Repair(k)
            PROVE  FALSE
        BY <4>4, <4>8 DEF QueuePeriod, Repair
      <4>9. ~Outside /\ ~UNCHANGED issuanceVars
        BY <4>4 DEF Outside, issuanceVars
      <4>10. QED
        BY <4>5, <4>6, <4>7, <4>8, <4>9 DEF IssuanceNext
    <3>2. CASE Recover(w)
      <4>1. target'[w] = target[w] /\ target[w] \in Keys /\ status[target[w]] = "accepted"
        BY <1>3, <3>2 DEF Recover, Goto, End, Coupled
      <4>2. Delivered(target[w]) /\ UNCHANGED fate
        BY <3>2, <4>1, AcceptedDelivered DEF Recover, outboxVars
      <4>3. QED
        BY <4>1, <4>2 DEF Delivered
    <3>3. ASSUME NEW k \in Keys, Sweep(w, k)
          PROVE  Delivered(target[w])'
      <4>1. target'[w] = k /\ Delivered(k) /\ UNCHANGED fate
        BY <3>3, AcceptedDelivered DEF Sweep, Begin, outboxVars
      <4>2. QED
        BY <4>1 DEF Delivered
    <3>4. ASSUME NEW k \in Keys, OperatorReceipt(w, k)
          PROVE  Delivered(target[w])'
      <4>1. target'[w] = k /\ Delivered(k) /\ UNCHANGED fate
        BY <3>4 DEF OperatorReceipt, ReconcileReceipt, Begin, Delivered
      <4>2. QED
        BY <4>1 DEF Delivered
    <3>5. QED
      BY <3>1, <3>2, <3>3, <3>4
  <2>3. QED
    BY <2>1, <2>2
<1>4. QED
  BY <1>2, <1>3 DEF Evidenced

\* The latest-send state after an outcome: left alone, or moved to k.
LEMMA MarkedLatest ==
  ASSUME IssuanceTypeOK, NEW k \in Keys, NEW r \in {"ok", "uncertain", "failed"},
         NEW overtaken \in BOOLEAN, FinishLocked(k, r, overtaken)
  PROVE  /\ \A j \in Keys : applied[j] => applied'[j]
         /\ \/ UNCHANGED <<latest, lastPeriod, lastTrueup>>
            \/ /\ applied'[k] /\ latest' = k
               /\ \/ /\ k \in Ordinary
                     /\ lastPeriod' = PeriodEnd[k] /\ lastPeriod' >= lastPeriod
                     /\ UNCHANGED lastTrueup
                  \/ lastTrueup' >= lastTrueup /\ UNCHANGED lastPeriod
<1>1. PeriodEnd[k] \in Nat /\ lastPeriod \in Nat /\ lastTrueup \in Nat
  BY ObligationsAssumption DEF IssuanceTypeOK
<1>2. \A j \in Keys : applied[j] => applied'[j]
  BY DEF FinishLocked, IssuanceTypeOK
<1>3. \/ UNCHANGED <<latest, lastPeriod, lastTrueup>>
      \/ applied' = [applied EXCEPT ![k] = TRUE] /\ MarkLatest(k, overtaken)
  BY DEF FinishLocked
<1>4. CASE applied' = [applied EXCEPT ![k] = TRUE] /\ MarkLatest(k, overtaken)
  <2>1. applied'[k]
    BY <1>4 DEF IssuanceTypeOK
  <2>2. QED
    BY <1>1, <1>2, <1>4, <2>1 DEF MarkLatest, Ordinary
<1>5. QED
  BY <1>2, <1>3, <1>4

LEMMA LatestSendStep ==
  ASSUME IssuanceInv, [IssuanceNext]_issuanceVars
  PROVE  LatestSendIsReal'
<1> USE DEF IssuanceInv, LatestSendIsReal
<1>1. ASSUME UNCHANGED <<applied, latest, lastPeriod>>
      PROVE  LatestSendIsReal'
  BY <1>1
<1>2. CASE Finishing
  <2>1. PICK k \in Keys : \E r \in {"ok", "uncertain", "failed"}, overtaken \in BOOLEAN :
               FinishLocked(k, r, overtaken)
    BY <1>2 DEF Finishing
  <2>2. /\ \A j \in Keys : applied[j] => applied'[j]
        /\ \/ UNCHANGED <<latest, lastPeriod>>
           \/ /\ applied'[k] /\ latest' = k
              /\ (k \in Ordinary /\ lastPeriod' = PeriodEnd[k]) \/ UNCHANGED lastPeriod
    BY <2>1, MarkedLatest
  <2>3. latest # NoKey => latest \in Keys
    BY DEF IssuanceTypeOK
  <2>4. Ordinary \subseteq Keys
    BY DEF Ordinary
  <2>5. QED
    BY <2>2, <2>3, <2>4
<1>3. ASSUME NEW w \in Workers, NEW k \in Keys, Freeze(w, k)
      PROVE  LatestSendIsReal'
  BY <1>1, <1>3 DEF Freeze, FreezeRow
<1>4. CASE Holds
  BY <1>1, <1>4 DEF Holds, subscriptionVars
<1>5. CASE UNCHANGED <<obligationVars, subscriptionVars>> \/ UNCHANGED issuanceVars
  BY <1>1, <1>5 DEF obligationVars, subscriptionVars, issuanceVars
<1>6. QED
  BY <1>2, <1>3, <1>4, <1>5, FourWays

LEMMA IssuanceInvInit == IssuanceInit => IssuanceInv
<1> SUFFICES ASSUME IssuanceInit
             PROVE  IssuanceInv
  OBVIOUS
<1>1. TypeOK /\ Busy /\ Inv
  BY TypingInit, InvInit DEF IssuanceInit
<1>2. Coupled /\ IssuanceTypeOK
  BY CoupledInit, IssuanceTypingInit
<1>3. DoneHasResult /\ Frozen /\ Disjoint /\ Evidenced /\ LatestSendIsReal
  BY DEF IssuanceInit, Init, DoneHasResult, Frozen, Disjoint, Ordinary, Evidenced,
         AcceptedWasMailed, LatestSendIsReal
<1>4. QED
  BY <1>1, <1>2, <1>3 DEF IssuanceInv

LEMMA IssuanceInvStep == IssuanceInv /\ [IssuanceNext]_issuanceVars => IssuanceInv'
<1> SUFFICES ASSUME IssuanceInv, [IssuanceNext]_issuanceVars
             PROVE  IssuanceInv'
  OBVIOUS
<1> USE DEF IssuanceInv
<1>1. [Next]_outboxVars
  BY OutboxAllows
<1>2. TypeOK' /\ Busy' /\ Inv'
  BY <1>1, TypingStep, InvStep
<1>3. Coupled' /\ DoneHasResult'
  BY <1>1, CoupledStep, DoneHasResultStep
<1>4. IssuanceTypeOK'
  BY <1>2, IssuanceTypingStep
<1>5. Frozen' /\ Disjoint' /\ Evidenced' /\ LatestSendIsReal'
  BY FrozenStep, DisjointStep, EvidencedStep, LatestSendStep
<1>6. QED
  BY <1>2, <1>3, <1>4, <1>5

LEMMA IssuanceInvariance == IssuanceSpec => []IssuanceInv
  BY IssuanceInvInit, IssuanceInvStep, PTL DEF IssuanceSpec

\* The obligations, the subscription and the tasks are always well-formed; in
\* particular the customer's credit never goes below zero.
THEOREM IssuanceTypeCorrect == IssuanceSpec => []IssuanceTypeOK
  BY IssuanceInvariance, PTL DEF IssuanceInv

\* The issuance uses the outbox only in ways it allows, so that every theorem
\* about the outbox holds of the invoices' emails.
THEOREM IssuanceUsesOutbox == IssuanceSpec => OutboxSpec
<1>1. IssuanceInit => Init
  BY DEF IssuanceInit
<1>2. IssuanceInv /\ [IssuanceNext]_issuanceVars => [Next]_outboxVars
  BY OutboxAllows DEF IssuanceInv
<1>3. QED
  BY <1>1, <1>2, IssuanceInvariance, PTL DEF IssuanceSpec, OutboxSpec, Spec

\* So each invoice has at most one delivered email and is never sent again
\* once it was, whichever of the issuance's paths asks for it.
THEOREM InvoicesAreMailedOnce == IssuanceSpec => OnceEmailSpec
  BY IssuanceUsesOutbox, OutboxImplementsOnceEmail, PTL DEF OutboxSpec

\* An invoice is recorded as accepted, and its acceptance applied, only if the
\* customer's email was delivered.
THEOREM BooksFollowTheMail == IssuanceSpec => []AcceptedWasMailed
  BY IssuanceInvariance, PTL DEF IssuanceInv, Evidenced

\* The guard of the next period and the figures a subscription shows are of
\* invoices that were applied.
THEOREM LatestSendIsRecorded == IssuanceSpec => []LatestSendIsReal
  BY IssuanceInvariance, PTL DEF IssuanceInv

-----------------------------------------------------------------------------
(* Months, frozen amounts and the latest-send state                        *)

LEMMA AtMostOneElement ==
  ASSUME NEW S, \A x, y \in S : x = y
  PROVE  Cardinality(S) <= 1
<1>1. CASE S = {}
  BY <1>1, FS_EmptySet
<1>2. CASE S # {}
  <2>1. PICK x : S = {x}
    BY <1>2
  <2>2. QED
    BY <2>1, FS_Singleton
<1>3. QED
  BY <1>1, <1>2

\* No month reaches the customer on two emails: two emails with a month in
\* common are of one obligation, and an obligation has one delivered attempt.
THEOREM NoMonthMailedTwice == IssuanceSpec => []MonthsMailedOnce
<1>1. IssuanceInv => MonthsMailedOnce
  <2> SUFFICES ASSUME IssuanceInv, NEW m \in Months
               PROVE  Cardinality({ka \in Ordinary \X Attempts :
                        m \in Covers[ka[1]] /\ fate[ka[1]][ka[2]] = "delivered"}) <= 1
    BY DEF MonthsMailedOnce
  <2> DEFINE S == {ka \in Ordinary \X Attempts :
                     m \in Covers[ka[1]] /\ fate[ka[1]][ka[2]] = "delivered"}
  <2>1. ASSUME NEW x \in S, NEW y \in S
        PROVE  x = y
    <3>1. /\ x[1] \in Ordinary /\ x[2] \in Attempts /\ x = <<x[1], x[2]>>
          /\ y[1] \in Ordinary /\ y[2] \in Attempts /\ y = <<y[1], y[2]>>
      OBVIOUS
    <3>2. x[1] \in Keys /\ y[1] \in Keys
      BY <3>1 DEF Ordinary
    <3>3. Delivered(x[1]) /\ Delivered(y[1])
      BY <3>1 DEF Delivered
    <3>4. frozen[x[1]] /\ frozen[y[1]]
      BY <3>2, <3>3, DeliveredHasRow DEF IssuanceInv, Frozen
    <3>5. x[1] = y[1]
      BY <3>1, <3>4 DEF IssuanceInv, Disjoint
    <3>6. x[2] = y[2]
      BY <3>1, <3>2, <3>5, LiveIsLast DEF IssuanceInv, Inv
    <3>7. QED
      BY <3>1, <3>5, <3>6
  <2>2. Cardinality(S) <= 1
    <3> HIDE DEF S
    <3>1. QED
      BY <2>1, AtMostOneElement
  <2>3. QED
    BY <2>2
<1>2. QED
  BY <1>1, IssuanceInvariance, PTL

LEMMA FrozenStays ==
  ASSUME IssuanceInv, [IssuanceNext]_issuanceVars, NEW k \in Keys, frozen[k]
  PROVE  frozen'[k] /\ reserved'[k] = reserved[k] /\ number'[k] = number[k]
<1>1. ASSUME NEW w \in Workers, NEW j \in Keys, Freeze(w, j)
      PROVE  frozen'[k] /\ reserved'[k] = reserved[k] /\ number'[k] = number[k]
  BY <1>1 DEF Freeze, FreezeRow, IssuanceInv, IssuanceTypeOK
<1>2. CASE Finishing \/ Holds \/ UNCHANGED <<obligationVars, subscriptionVars>>
           \/ UNCHANGED issuanceVars
  <2>1. UNCHANGED <<frozen, reserved, number>>
    BY <1>2 DEF Finishing, finishFrame, Holds, obligationVars, issuanceVars
  <2>2. QED
    BY <2>1
<1>3. QED
  BY <1>1, <1>2, FourWays

\* Once an email may exist its obligation is frozen, and a frozen obligation
\* keeps its amount and number whatever runs again.
THEOREM FrozenForGood == IssuanceSpec => ObligationImmutable
<1> DEFINE A == \A k \in Keys :
                  frozen[k] \/ status'[k] # "absent"
                    => /\ frozen'[k]
                       /\ frozen[k] => reserved'[k] = reserved[k] /\ number'[k] = number[k]
<1>1. IssuanceInv /\ IssuanceInv' /\ [IssuanceNext]_issuanceVars => [A]_issuanceVars
  <2>1. IssuanceInv' => \A k \in Keys : status'[k] # "absent" => frozen'[k]
    BY DEF IssuanceInv, Frozen
  <2>2. QED
    BY <2>1, FrozenStays
<1>2. QED
  BY <1>1, IssuanceInvariance, PTL DEF IssuanceSpec, ObligationImmutable

\* The recovery of an older invoice never rolls the latest-send state back.
THEOREM LatestSendOnlyAdvances == IssuanceSpec => NeverRolledBack
<1> DEFINE A == /\ lastPeriod' >= lastPeriod
                /\ lastTrueup' >= lastTrueup
                /\ \A k \in Keys : applied[k] => applied'[k]
<1>1. IssuanceInv /\ [IssuanceNext]_issuanceVars => [A]_issuanceVars
  <2> SUFFICES ASSUME IssuanceInv, IssuanceNext
               PROVE  A
    OBVIOUS
  <2>1. lastPeriod \in Nat /\ lastTrueup \in Nat
    BY DEF IssuanceInv, IssuanceTypeOK
  <2>2. ASSUME UNCHANGED <<applied, lastPeriod, lastTrueup>>
        PROVE  A
    BY <2>1, <2>2
  <2>3. CASE Finishing
    <3>1. PICK k \in Keys : \E r \in {"ok", "uncertain", "failed"}, overtaken \in BOOLEAN :
                 FinishLocked(k, r, overtaken)
      BY <2>3 DEF Finishing
    <3>2. QED
      BY <2>1, <3>1, MarkedLatest DEF IssuanceInv
  <2>4. ASSUME NEW w \in Workers, NEW k \in Keys, Freeze(w, k)
        PROVE  A
    BY <2>2, <2>4 DEF Freeze, FreezeRow
  <2>5. CASE Holds \/ UNCHANGED <<obligationVars, subscriptionVars>>
    BY <2>2, <2>5 DEF Holds, obligationVars, subscriptionVars
  <2>6. QED
    BY <2>3, <2>4, <2>5, FourWays
<1>2. QED
  BY <1>1, IssuanceInvariance, PTL DEF IssuanceSpec, NeverRolledBack

-----------------------------------------------------------------------------
(* Credit                                                                  *)

\* What each settlement has banked so far.
Banked == [k \in Keys |-> IF applied[k] /\ k \in Trueups THEN Grant[k] ELSE 0]

\* An obligation that is not frozen holds no credit: without this a freeze
\* could overwrite a reservation, and its credit would be lost.
CreditInv ==
  /\ CreditConserved
  /\ \A k \in Keys : ~frozen[k] => reserved[k] = 0

LEMMA BankedType == IssuanceTypeOK => Banked \in [Keys -> Nat]
  BY AmountsAssumption DEF Banked, IssuanceTypeOK

\* The sums of the two accounts are numbers.
LEMMA AccountsTyping ==
  ASSUME IssuanceTypeOK
  PROVE  /\ SumFunction(reserved) \in Nat /\ SumFunction(Banked) \in Nat
         /\ pendingCredit \in Nat /\ InitialCredit \in Nat
  BY BankedType, SumType, FiniteAssumption, AmountsAssumption DEF IssuanceTypeOK

LEMMA CreditInvInit == IssuanceInit => CreditInv
<1> SUFFICES ASSUME IssuanceInit
             PROVE  CreditInv
  OBVIOUS
<1>1. reserved = [k \in Keys |-> 0] /\ Banked = [k \in Keys |-> 0]
  BY DEF IssuanceInit, Banked
<1>2. SumFunction(reserved) = 0 /\ SumFunction(Banked) = 0
  BY <1>1, SumOfZeros, FiniteAssumption
<1>3. pendingCredit = InitialCredit /\ InitialCredit \in Nat
  BY AmountsAssumption DEF IssuanceInit
<1>4. CreditConserved
  BY <1>2, <1>3 DEF CreditConserved, Banked
<1>5. QED
  BY <1>1, <1>4 DEF CreditInv

\* A freeze moves what it reserves out of the balance.
LEMMA FreezeConserves ==
  ASSUME IssuanceInv, IssuanceInv', CreditInv, NEW w \in Workers, NEW k \in Keys, Freeze(w, k)
  PROVE  CreditConserved'
<1> USE DEF IssuanceInv, IssuanceTypeOK
<1>1. /\ FreezeRow(k) /\ ~frozen[k]
      /\ reserved \in [Keys -> Nat] /\ reserved' \in [Keys -> Nat]
  BY DEF Freeze
<1>2. reserved[k] = 0 /\ reserved'[k] = Credit(k)
  BY <1>1 DEF CreditInv, FreezeRow
<1>3. SumFunction(reserved') + reserved[k] = SumFunction(reserved) + reserved'[k]
  <2>1. \A j \in Keys \ {k} : reserved'[j] = reserved[j]
    BY <1>1 DEF FreezeRow
  <2> HIDE DEF IssuanceInv, IssuanceTypeOK
  <2>2. QED
    BY <1>1, <2>1, SumChanged, FiniteAssumption
<1>4. pendingCredit' = pendingCredit - Credit(k) /\ Credit(k) \in Nat
  BY <1>1, CreditBounds DEF FreezeRow
<1>5. Banked' = Banked
  BY <1>1 DEF FreezeRow, Banked
<1>6. pendingCredit + SumFunction(reserved) = InitialCredit + SumFunction(Banked)
  BY DEF CreditInv, CreditConserved, Banked
<1>7. SumFunction(reserved) \in Nat /\ SumFunction(reserved') \in Nat /\ pendingCredit \in Nat
  BY <1>1, SumType, FiniteAssumption
<1>8. pendingCredit' + SumFunction(reserved') = InitialCredit + SumFunction(Banked')
  <2> HIDE DEF IssuanceInv
  <2>1. SumFunction(reserved') = SumFunction(reserved) + Credit(k)
    BY <1>2, <1>3, <1>4, <1>7
  <2>2. QED
    BY <1>4, <1>5, <1>6, <1>7, <2>1
<1>9. QED
  BY <1>8 DEF CreditConserved, Banked

\* An acceptance banks the settlement's credit the first time and never again.
LEMMA FinishConserves ==
  ASSUME IssuanceInv, IssuanceInv', CreditInv, Finishing
  PROVE  CreditConserved'
<1>1. PICK k \in Keys, r \in {"ok", "uncertain", "failed"}, overtaken \in BOOLEAN :
             FinishLocked(k, r, overtaken) /\ UNCHANGED finishFrame
  BY DEF Finishing
<1>2. reserved' = reserved
  BY <1>1 DEF finishFrame
<1>3. pendingCredit + SumFunction(reserved) = InitialCredit + SumFunction(Banked)
  BY DEF CreditInv, CreditConserved, Banked
<1>4. CASE UNCHANGED <<applied, pendingCredit>>
  BY <1>2, <1>4 DEF CreditInv, CreditConserved
<1>5. CASE ~UNCHANGED <<applied, pendingCredit>>
  <2>1. /\ ~applied[k] /\ applied' = [applied EXCEPT ![k] = TRUE]
        /\ pendingCredit' = pendingCredit + IF k \in Trueups THEN Grant[k] ELSE 0
    BY <1>1, <1>5 DEF FinishLocked
  <2>2. Banked \in [Keys -> Nat] /\ Banked' \in [Keys -> Nat]
    BY AmountsAssumption DEF Banked
  <2>3. /\ Banked[k] = 0
        /\ Banked'[k] = IF k \in Trueups THEN Grant[k] ELSE 0
        /\ \A j \in Keys \ {k} : Banked'[j] = Banked[j]
    BY <2>1 DEF Banked, IssuanceInv, IssuanceTypeOK
  <2>4. SumFunction(Banked') + Banked[k] = SumFunction(Banked) + Banked'[k]
    BY <2>2, <2>3, SumChanged, FiniteAssumption
  <2>5. /\ SumFunction(reserved) \in Nat /\ SumFunction(Banked) \in Nat
        /\ SumFunction(Banked') \in Nat
        /\ pendingCredit \in Nat /\ InitialCredit \in Nat /\ Banked'[k] \in Nat
    BY <2>2, AccountsTyping, SumType, FiniteAssumption DEF IssuanceInv
  <2>6. pendingCredit' + SumFunction(reserved') = InitialCredit + SumFunction(Banked')
    BY <1>2, <1>3, <2>1, <2>3, <2>4, <2>5
  <2>7. QED
    BY <2>6 DEF CreditConserved, Banked
<1>6. QED
  BY <1>4, <1>5

LEMMA CreditInvStep ==
  IssuanceInv /\ IssuanceInv' /\ CreditInv /\ [IssuanceNext]_issuanceVars => CreditInv'
<1> SUFFICES ASSUME IssuanceInv, IssuanceInv', CreditInv, [IssuanceNext]_issuanceVars
             PROVE  CreditInv'
  OBVIOUS
<1>1. ASSUME NEW w \in Workers, NEW k \in Keys, Freeze(w, k)
      PROVE  CreditInv'
  <2>1. \A j \in Keys : ~frozen'[j] => reserved'[j] = 0
    BY <1>1 DEF Freeze, FreezeRow, CreditInv, IssuanceInv, IssuanceTypeOK
  <2>2. QED
    BY <1>1, <2>1, FreezeConserves DEF CreditInv
<1>2. CASE Finishing
  <2>1. UNCHANGED <<frozen, reserved>>
    BY <1>2 DEF Finishing, finishFrame
  <2>2. QED
    BY <1>2, <2>1, FinishConserves DEF CreditInv
<1>3. ASSUME UNCHANGED <<frozen, reserved, applied, pendingCredit>>
      PROVE  CreditInv'
  BY <1>3 DEF CreditInv, CreditConserved
<1>4. CASE Holds \/ UNCHANGED <<obligationVars, subscriptionVars>> \/ UNCHANGED issuanceVars
  BY <1>3, <1>4 DEF Holds, obligationVars, subscriptionVars, issuanceVars
<1>5. QED
  BY <1>1, <1>2, <1>4, FourWays

\* Credit is neither lost nor spent twice, for any obligations and amounts:
\* the balance and the reservations add up to the opening balance and the
\* banked settlements after every freeze, acceptance, recovery and repair.
THEOREM CreditIsConserved == IssuanceSpec => []CreditConserved
<1>1. CreditInv => CreditConserved
  BY DEF CreditInv
<1>2. QED
  BY <1>1, CreditInvInit, CreditInvStep, IssuanceInvariance, PTL DEF IssuanceSpec

-----------------------------------------------------------------------------
(* Invoice numbers                                                         *)

\* The invoices of a subscription carry the numbers from one up, each once
\* and without a gap, whichever processes froze them: freeze takes the next
\* number in the transaction that writes the snapshot.
NumbersInOrder ==
  /\ \A k \in Keys : frozen[k] => number[k] \in 1 .. nextNumber - 1
  /\ \A j, k \in Keys : frozen[j] /\ frozen[k] /\ number[j] = number[k] => j = k
  /\ \A n \in 1 .. nextNumber - 1 : \E k \in Keys : frozen[k] /\ number[k] = n

\* The new number is above all that are taken, and is the next one.
LEMMA FreezeNumbers ==
  ASSUME IssuanceInv, NumbersInOrder, NEW w \in Workers, NEW k \in Keys, Freeze(w, k)
  PROVE  NumbersInOrder'
<1>1. /\ frozen \in [Keys -> BOOLEAN] /\ number \in [Keys -> Nat] /\ nextNumber \in Nat \ {0}
      /\ frozen' = [frozen EXCEPT ![k] = TRUE] /\ ~frozen[k]
      /\ number' = [number EXCEPT ![k] = nextNumber]
      /\ nextNumber' = nextNumber + 1
  BY DEF IssuanceInv, IssuanceTypeOK, Freeze, FreezeRow
<1>2. \A j \in Keys \ {k} : frozen'[j] = frozen[j] /\ number'[j] = number[j]
  BY <1>1
<1>3. frozen'[k] /\ number'[k] = nextNumber
  BY <1>1
<1>4. ASSUME NEW j \in Keys, frozen[j]
      PROVE  j # k /\ number[j] \in 1 .. nextNumber - 1
  BY <1>1, <1>4 DEF NumbersInOrder
<1>5. \A j \in Keys : frozen'[j] => number'[j] \in 1 .. nextNumber' - 1
  BY <1>1, <1>2, <1>3, <1>4
<1>6. ASSUME NEW i \in Keys, NEW j \in Keys, frozen'[i], frozen'[j], number'[i] = number'[j]
      PROVE  i = j
  BY <1>1, <1>2, <1>3, <1>4, <1>6 DEF NumbersInOrder
<1>7. ASSUME NEW n \in 1 .. nextNumber' - 1
      PROVE  \E j \in Keys : frozen'[j] /\ number'[j] = n
  <2>1. CASE n = nextNumber
    BY <1>3, <2>1
  <2>2. CASE n # nextNumber
    <3>1. n \in 1 .. nextNumber - 1
      BY <1>1, <2>2
    <3>2. PICK j \in Keys : frozen[j] /\ number[j] = n
      BY <3>1 DEF NumbersInOrder
    <3>3. QED
      BY <1>2, <1>4, <3>2
  <2>3. QED
    BY <2>1, <2>2
<1>8. QED
  BY <1>5, <1>6, <1>7 DEF NumbersInOrder

\* Every subscription numbers its invoices without a gap or a duplicate, for
\* any obligations, processes, crashes and retries.
THEOREM NumbersAreGapless == IssuanceSpec => []NumbersInOrder
<1>1. IssuanceInit => NumbersInOrder
  BY DEF IssuanceInit, NumbersInOrder
<1>2. IssuanceInv /\ NumbersInOrder /\ [IssuanceNext]_issuanceVars => NumbersInOrder'
  <2> SUFFICES ASSUME IssuanceInv, NumbersInOrder, [IssuanceNext]_issuanceVars
               PROVE  NumbersInOrder'
    OBVIOUS
  <2>1. ASSUME UNCHANGED <<frozen, number, nextNumber>>
        PROVE  NumbersInOrder'
    BY <2>1 DEF NumbersInOrder
  <2>2. CASE Finishing \/ Holds \/ UNCHANGED <<obligationVars, subscriptionVars>>
             \/ UNCHANGED issuanceVars
    BY <2>1, <2>2 DEF Finishing, finishFrame, Holds, obligationVars, subscriptionVars,
                      issuanceVars
  <2>3. QED
    BY <2>2, FreezeNumbers, FourWays
<1>3. QED
  BY <1>1, <1>2, IssuanceInvariance, PTL DEF IssuanceSpec

-----------------------------------------------------------------------------
(* The promise to the customer                                             *)

LEMMA LedgerInit == IssuanceInit => Ledger!Init
<1> SUFFICES ASSUME IssuanceInit
             PROVE  Ledger!Init
  OBVIOUS
<1>1. billedBar = {} /\ mailedBar = {} /\ settledBar = {}
  BY DEF IssuanceInit, Init, billedBar, mailedBar, settledBar
<1>2. QED
  BY <1>1 DEF Ledger!Init, IssuanceInit

\* A freeze bills: the month is free, and the credit is within the balance.
LEMMA FreezeBills ==
  ASSUME IssuanceInv, NEW w \in Workers, NEW k \in Keys, Freeze(w, k), UNCHANGED fate
  PROVE  Ledger!Bill(k)
<1> USE DEF IssuanceInv, IssuanceTypeOK
<1>1. FreezeRow(k) /\ ~frozen[k] /\ Unbilled(k)
  BY DEF Freeze
<1>2. k \notin billedBar
  BY <1>1 DEF billedBar
<1>3. k \notin Trueups => \A j \in billedBar \ Trueups : Covers[j] \cap Covers[k] = {}
  BY <1>1, <1>2 DEF Unbilled, Ordinary, billedBar
<1>4. billedBar' = billedBar \cup {k}
  BY <1>1 DEF FreezeRow, billedBar
<1>5. /\ Credit(k) \in 0 .. pendingCredit
      /\ Credit(k) <= Gross[k]
      /\ k \in Trueups => Credit(k) = 0
      /\ reserved' = [reserved EXCEPT ![k] = Credit(k)]
      /\ pendingCredit' = pendingCredit - Credit(k)
  BY <1>1, CreditBounds DEF FreezeRow
<1>6. UNCHANGED <<mailedBar, settledBar>>
  BY <1>1 DEF FreezeRow, mailedBar, settledBar
<1>7. QED
  BY <1>2, <1>3, <1>4, <1>5, <1>6 DEF Ledger!Bill

\* An outcome settles a mailed obligation for the first time, or nothing.
LEMMA FinishSettles ==
  ASSUME IssuanceInv, Finishing, UNCHANGED fate
  PROVE  (\E k \in Keys : Ledger!Settle(k)) \/ UNCHANGED Ledger!vars
<1>1. PICK k \in Keys, r \in {"ok", "uncertain", "failed"}, overtaken \in BOOLEAN :
             /\ FinishLocked(k, r, overtaken)
             /\ UNCHANGED finishFrame
             /\ r = "ok" => Delivered(k)
  BY DEF Finishing
<1>2. UNCHANGED <<billedBar, reserved, mailedBar>>
  BY <1>1 DEF finishFrame, billedBar, mailedBar
<1>3. CASE UNCHANGED <<applied, pendingCredit>>
  BY <1>2, <1>3 DEF Ledger!vars, settledBar
<1>4. CASE ~UNCHANGED <<applied, pendingCredit>>
  <2>1. /\ r = "ok" /\ ~applied[k]
        /\ applied' = [applied EXCEPT ![k] = TRUE]
        /\ pendingCredit' = pendingCredit + IF k \in Trueups THEN Grant[k] ELSE 0
    BY <1>1, <1>4 DEF FinishLocked
  <2>2. k \in mailedBar \ settledBar
    BY <1>1, <2>1 DEF mailedBar, settledBar, Delivered
  <2>3. settledBar' = settledBar \cup {k}
    BY <2>1 DEF settledBar, IssuanceInv, IssuanceTypeOK
  <2>4. Ledger!Settle(k)
    BY <1>2, <2>1, <2>2, <2>3 DEF Ledger!Settle
  <2>5. QED
    BY <2>4
<1>5. QED
  BY <1>3, <1>4

\* A step of the outbox delivers at most one email, of a key that was not
\* delivered before.
LEMMA OutboxMails ==
  ASSUME IssuanceInv, IssuanceInv', [Next]_outboxVars
  PROVE  mailedBar' = mailedBar \/ \E k \in Keys \ mailedBar : mailedBar' = mailedBar \cup {k}
<1> USE DEF IssuanceInv, TypeOK
<1>1. \A k \in Keys : k \in mailedBar <=> Delivered(k)
  BY DEF mailedBar, Delivered
<1>2. \A k \in Keys : k \in mailedBar' <=> Delivered(k)'
  BY DEF mailedBar, Delivered
<1>3. mailedBar \subseteq Keys /\ mailedBar' \subseteq Keys
  BY DEF mailedBar
<1>4. \A k \in Keys : Delivered(k) => Delivered(k)'
  BY DeliveredStays
<1>5. ASSUME \A k \in Keys : Delivered(k)' => Delivered(k)
      PROVE  mailedBar' = mailedBar
  BY <1>1, <1>2, <1>3, <1>4, <1>5
<1>6. ASSUME NEW k \in Keys, NEW a \in Attempts, Provider(k, a), ~Delivered(k)
      PROVE  mailedBar' = mailedBar \/ mailedBar' = mailedBar \cup {k}
  <2>1. PICK f \in {"delivered", "refused"} : fate' = [fate EXCEPT ![k][a] = f]
    BY <1>6 DEF Provider
  <2>2. \A j \in Keys \ {k} : Delivered(j)' <=> Delivered(j)
    BY <2>1 DEF Delivered
  <2>3. QED
    BY <1>1, <1>2, <1>3, <1>4, <2>2
<1>7. ASSUME NEW k \in Keys, NEW a \in Attempts, Provider(k, a), Delivered(k)
      PROVE  mailedBar' = mailedBar
  <2>1. PICK f \in {"delivered", "refused"} : fate' = [fate EXCEPT ![k][a] = f]
    BY <1>7 DEF Provider
  <2>2. \A j \in Keys \ {k} : Delivered(j)' <=> Delivered(j)
    BY <2>1 DEF Delivered
  <2>3. QED
    BY <1>1, <1>2, <1>3, <1>4, <1>7, <2>2
<1>8. ASSUME ~\E k \in Keys, a \in Attempts : Provider(k, a)
      PROVE  \A k \in Keys : Delivered(k)' => Delivered(k)
  <2> SUFFICES ASSUME NEW k \in Keys, NEW a \in Attempts, fate'[k][a] = "delivered"
               PROVE  fate[k][a] = "delivered"
    BY DEF Delivered
  <2>1. ASSUME NEW w \in Workers, Transmit(w) \/ NotTransmitted(w)
        PROVE  fate[k][a] = "delivered"
    <3>1. job[w] \in Keys /\ Holding(w, job[w]) /\ pc[w] = "claimed"
      BY <2>1 DEF Transmit, NotTransmitted, Busy, Holding
    <3>2. attempt[w] \in Attempts
      BY <3>1 DEF Inv, Held
    <3>3. QED
      BY <2>1, <3>1, <3>2 DEF Transmit, NotTransmitted
  <2>2. ASSUME NEW w \in Workers,
               \/ \E j \in Keys : Enqueue(w, j)
               \/ Claim(w) \/ ClaimLost(w) \/ ReadWinner(w) \/ GiveUp(w)
               \/ Answered(w) \/ Record(w) \/ Return(w) \/ Crash(w)
        PROVE  UNCHANGED fate
    BY <2>2 DEF Enqueue, Claim, ClaimLost, ReadWinner, GiveUp, Answered, Record,
                Return, Crash
  <2>3. ASSUME NEW j \in Keys, BecomeDue(j) \/ \E b \in Attempts : ReconcileReceipt(j, b)
        PROVE  UNCHANGED fate
    BY <2>3 DEF BecomeDue, ReconcileReceipt
  <2>4. UNCHANGED outboxVars => UNCHANGED fate
    BY DEF outboxVars
  <2>5. QED
    BY <1>8, <2>1, <2>2, <2>3, <2>4 DEF Next, Step, Environment
<1>9. QED
  BY <1>1, <1>5, <1>6, <1>7, <1>8

\* What was delivered is billed.
LEMMA MailedIsFrozen == IssuanceInv => \A k \in Keys : Delivered(k) => frozen[k]
  BY DeliveredHasRow DEF IssuanceInv, Frozen

LEMMA LedgerStep ==
  IssuanceInv /\ IssuanceInv' /\ [IssuanceNext]_issuanceVars => [Ledger!Next]_(Ledger!vars)
<1> SUFFICES ASSUME IssuanceInv, IssuanceInv', [IssuanceNext]_issuanceVars
             PROVE  Ledger!Next \/ UNCHANGED Ledger!vars
  OBVIOUS
<1>f. (\A k \in Keys : Delivered(k) => frozen[k])'
  BY MailedIsFrozen, PTL
<1>1. ASSUME NEW w \in Workers, NEW k \in Keys, Freeze(w, k), UNCHANGED fate
      PROVE  Ledger!Next
  <2>1. Ledger!Bill(k)
    BY <1>1, FreezeBills
  <2>2. QED
    BY <2>1 DEF Ledger!Next
<1>2. ASSUME Finishing, UNCHANGED fate
      PROVE  Ledger!Next \/ UNCHANGED Ledger!vars
  BY <1>2, FinishSettles DEF Ledger!Next
<1>3. ASSUME Holds, UNCHANGED fate
      PROVE  UNCHANGED Ledger!vars
  BY <1>3 DEF Holds, Ledger!vars, subscriptionVars, billedBar, mailedBar, settledBar
<1>4. ASSUME UNCHANGED <<obligationVars, subscriptionVars>>
      PROVE  Ledger!Next \/ UNCHANGED Ledger!vars
  <2>1. UNCHANGED <<pendingCredit, billedBar, reserved, settledBar>>
    BY <1>4 DEF obligationVars, subscriptionVars, billedBar, settledBar
  <2>2. mailedBar' = mailedBar \/ \E k \in Keys \ mailedBar : mailedBar' = mailedBar \cup {k}
    BY OutboxAllows, OutboxMails DEF IssuanceInv
  <2>3. CASE mailedBar' = mailedBar
    BY <2>1, <2>3 DEF Ledger!vars
  <2>4. ASSUME NEW k \in Keys \ mailedBar, mailedBar' = mailedBar \cup {k}
        PROVE  Ledger!Next
    <3>1. Delivered(k)'
      BY <2>4 DEF mailedBar, Delivered
    <3>2. frozen'[k]
      BY <1>f, <3>1
    <3>3. k \in billedBar
      BY <2>1, <3>2 DEF billedBar
    <3>4. QED
      BY <2>1, <2>4, <3>3 DEF Ledger!Next, Ledger!Mail
  <2>5. QED
    BY <2>2, <2>3, <2>4
<1>5. UNCHANGED issuanceVars => UNCHANGED <<obligationVars, subscriptionVars>>
  BY DEF issuanceVars
<1>6. QED
  BY <1>1, <1>2, <1>3, <1>4, <1>5, FourWays

\* The issuance keeps the promise of BillingLedger: a month billed once, credit
\* debited once and within the balance, and a settlement banked once, after
\* it was mailed.
THEOREM IssuanceImplementsLedger == IssuanceSpec => LedgerSpec
<1>1. IssuanceInv /\ IssuanceInv' /\ [IssuanceNext]_issuanceVars
        => [Ledger!Next]_(Ledger!vars)
  BY LedgerStep
<1>2. QED
  BY <1>1, LedgerInit, IssuanceInvariance, PTL DEF IssuanceSpec, LedgerSpec, Ledger!Spec
=============================================================================
