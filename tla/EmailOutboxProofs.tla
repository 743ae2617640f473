------------------------- MODULE EmailOutboxProofs -------------------------
(***************************************************************************)
(* Proofs about EmailOutbox for any sets of keys and processes and any     *)
(* bound on the attempts.                                                  *)
(*                                                                         *)
(* The argument: attempts are numbered, and every attempt but the last of  *)
(* a row was refused (History).  The last attempt belongs to at most one   *)
(* process (OneHolder), whose local view agrees with the row (Held), so    *)
(* what it records is what happened (Recorded).                            *)
(***************************************************************************)
EXTENDS EmailOutbox, TLAPS

\* A process in a call has a key.
Busy == \A w \in Workers : pc[w] # "idle" => job[w] \in Keys

\* Attempts before the row's last were refused, those after it never started.
History ==
  \A k \in Keys : \A a \in Attempts :
    /\ a < attempts[k] => fate[k][a] = "refused"
    /\ a > attempts[k] => fate[k][a] = "none"

\* The row's columns tell the truth about its last attempt.
Recorded ==
  \A k \in Keys :
    /\ status[k] \in {"absent", "prepared"} <=> attempts[k] = 0
    /\ status[k] = "failed" => fate[k][attempts[k]] = "refused"
    /\ status[k] = "accepted" => receipt[k] # 0
    /\ receipt[k] # 0 => receipt[k] = attempts[k] /\ fate[k][attempts[k]] = "delivered"

\* A process that holds a claim holds the row's last attempt, and knows of it
\* only what is true.
Held ==
  \A w \in Workers : \A k \in Keys :
    Holding(w, k) =>
      /\ attempt[w] \in Attempts
      /\ attempt[w] = attempts[k]
      /\ status[k] \in {"sending", "accepted"}
      /\ pc[w] = "claimed" => fate[k][attempt[w]] = "none"
      /\ pc[w] = "record" =>
           /\ result[w] \in {"ok", "uncertain", "failed"}
           /\ result[w] = "ok" => fate[k][attempt[w]] = "delivered"
           /\ result[w] = "failed" => fate[k][attempt[w]] = "refused"

Inv ==
  /\ History
  /\ Recorded
  /\ Held
  /\ OneHolder
  /\ OkMeansDelivered

-----------------------------------------------------------------------------
(* Type correctness                                                        *)

LEMMA TypingInit == Init => TypeOK /\ Busy
  BY MaxAttemptsAssumption
  DEF Init, TypeOK, Busy, Statuses, Results, Fates, Attempts

\* Every step of every process, of the provider and of the operator keeps the
\* rows, the attempts and the calls well-formed; Busy makes the key of a call
\* a real key, which the typing of the rows needs.
LEMMA TypingStep == TypeOK /\ Busy /\ [Next]_outboxVars => TypeOK' /\ Busy'
<1> SUFFICES ASSUME TypeOK, Busy, [Next]_outboxVars
             PROVE  TypeOK' /\ Busy'
  OBVIOUS
<1> USE MaxAttemptsAssumption, NoKeyAssumption
    DEF TypeOK, Busy, Statuses, Results, Fates, Attempts, rowVars, callVars
<1>1. ASSUME NEW w \in Workers, NEW k \in Keys, Enqueue(w, k)
      PROVE  TypeOK' /\ Busy'
  BY <1>1 DEF Enqueue, DuplicateResult
<1>2. ASSUME NEW w \in Workers, Claim(w)
      PROVE  TypeOK' /\ Busy'
  BY <1>2 DEF Claim, Claimable
<1>3. ASSUME NEW w \in Workers, ClaimLost(w)
      PROVE  TypeOK' /\ Busy'
  BY <1>3 DEF ClaimLost
<1>4. ASSUME NEW w \in Workers, ReadWinner(w)
      PROVE  TypeOK' /\ Busy'
  BY <1>4 DEF ReadWinner, DuplicateResult
<1>5. ASSUME NEW w \in Workers, Transmit(w)
      PROVE  TypeOK' /\ Busy'
  BY <1>5 DEF Transmit
<1>6. ASSUME NEW w \in Workers, NotTransmitted(w)
      PROVE  TypeOK' /\ Busy'
  BY <1>6 DEF NotTransmitted
<1>7. ASSUME NEW w \in Workers, GiveUp(w)
      PROVE  TypeOK' /\ Busy'
  BY <1>7 DEF GiveUp
<1>8. ASSUME NEW w \in Workers, Answered(w)
      PROVE  TypeOK' /\ Busy'
  BY <1>8 DEF Answered
<1>9. ASSUME NEW w \in Workers, Record(w)
      PROVE  TypeOK' /\ Busy'
  BY <1>9 DEF Record, Outcome
<1>10. ASSUME NEW w \in Workers, Return(w) \/ Crash(w)
       PROVE  TypeOK' /\ Busy'
  <2>1. Forget(w) /\ UNCHANGED <<rowVars, fate>>
    BY <1>10 DEF Return, Crash
  <2>2. QED
    BY <2>1 DEF Forget
<1>11. ASSUME NEW k \in Keys, BecomeDue(k)
       PROVE  TypeOK' /\ Busy'
  BY <1>11 DEF BecomeDue
<1>12. ASSUME NEW k \in Keys, NEW a \in Attempts, Provider(k, a)
       PROVE  TypeOK' /\ Busy'
  <2>1. PICK f \in {"delivered", "refused"} : fate' = [fate EXCEPT ![k][a] = f]
    BY <1>12 DEF Provider
  <2>2. QED
    BY <1>12, <2>1 DEF Provider
<1>13. ASSUME NEW k \in Keys, NEW a \in Attempts, ReconcileReceipt(k, a)
       PROVE  TypeOK' /\ Busy'
  BY <1>13 DEF ReconcileReceipt
<1>14. CASE UNCHANGED outboxVars
  BY <1>14 DEF outboxVars
<1>15. QED
  BY <1>1, <1>2, <1>3, <1>4, <1>5, <1>6, <1>7, <1>8, <1>9, <1>10, <1>11,
     <1>12, <1>13, <1>14 DEF Next, Step, Environment

\* The rows, the attempts and the calls are always well-formed.
THEOREM TypeCorrect == Spec => []TypeOK
<1>1. Spec => [](TypeOK /\ Busy)
  BY TypingInit, TypingStep, PTL DEF Spec
<1>2. QED
  BY <1>1, PTL

-----------------------------------------------------------------------------
(* Safety                                                                  *)

LEMMA InvInit == Init => Inv
  BY MaxAttemptsAssumption
  DEF Init, Inv, History, Recorded, Held, OneHolder, OkMeansDelivered, Holding,
      Attempts

\* The steps that leave the rows and the attempts alone, and move a call
\* outside the part in which it holds a claim.
LEMMA QuietStep ==
  ASSUME TypeOK, Inv, NEW w \in Workers,
         UNCHANGED <<rowVars, fate>>,
         \A v \in Workers \ {w} : /\ pc'[v] = pc[v] /\ job'[v] = job[v]
                                   /\ attempt'[v] = attempt[v] /\ result'[v] = result[v],
         pc'[w] \in {"idle", "slot", "lost", "done"},
         pc'[w] = "done" /\ result'[w] = "ok"
           => \E a \in Attempts : fate[job'[w]][a] = "delivered"
  PROVE  Inv'
<1>1. History' /\ Recorded'
  BY DEF Inv, History, Recorded, rowVars
<1>2. \A v \in Workers : \A k \in Keys : Holding(v, k)' => v # w /\ Holding(v, k)
  BY DEF Holding
<1>3. Held'
  BY <1>2 DEF Inv, Held, rowVars, Holding
<1>4. OneHolder'
  BY <1>2 DEF Inv, OneHolder
<1>5. OkMeansDelivered'
  BY DEF Inv, OkMeansDelivered
<1>6. QED
  BY <1>1, <1>3, <1>4, <1>5 DEF Inv

LEMMA EnqueueStep ==
  ASSUME TypeOK, Inv, NEW w \in Workers, NEW k \in Keys, Enqueue(w, k)
  PROVE  Inv'
<1> USE DEF TypeOK, Enqueue, Inv
<1>1. \A v \in Workers : \A j \in Keys : Holding(v, j)' => v # w /\ Holding(v, j)
  BY DEF Holding
<1>2. History'
  BY DEF History
<1>3. Recorded'
  BY DEF Recorded
<1>4. Held'
  BY <1>1 DEF Held, Holding
<1>5. OneHolder'
  BY <1>1 DEF OneHolder
<1>6. result'[w] = "ok" /\ pc'[w] = "done"
        => \E a \in Attempts : fate[k][a] = "delivered"
  <2> SUFFICES ASSUME result'[w] = "ok", pc'[w] = "done"
               PROVE  \E a \in Attempts : fate[k][a] = "delivered"
    OBVIOUS
  <2>1. status[k] = "accepted"
    BY DEF DuplicateResult
  <2>2. attempts[k] \in Attempts /\ fate[k][attempts[k]] = "delivered"
    BY <2>1, MaxAttemptsAssumption DEF Recorded, Attempts
  <2>3. QED
    BY <2>2
<1>7. OkMeansDelivered'
  BY <1>6 DEF OkMeansDelivered
<1>8. QED
  BY <1>2, <1>3, <1>4, <1>5, <1>7

LEMMA ClaimStep ==
  ASSUME TypeOK, Busy, Inv, NEW w \in Workers, Claim(w)
  PROVE  Inv'
<1> DEFINE k == job[w]
<1>k. k \in Keys
  BY DEF Busy, Claim
<1> USE DEF TypeOK, Claim, Claimable, Inv
<1>1. \A v \in Workers : ~Holding(v, k)
  BY <1>k DEF Held
<1>2. \A v \in Workers : \A j \in Keys : v # w => (Holding(v, j)' <=> Holding(v, j))
  BY DEF Holding
<1>3. attempts[k] + 1 \in Attempts /\ attempts'[k] = attempts[k] + 1
  BY <1>k, MaxAttemptsAssumption DEF Attempts
<1>4. \A a \in Attempts : a < attempts[k] + 1 => fate[k][a] = "refused"
  BY <1>k, MaxAttemptsAssumption DEF History, Recorded, Attempts
<1>5. fate[k][attempts[k] + 1] = "none"
  BY <1>k, <1>3 DEF History
<1>6. History'
  BY <1>k, <1>3, <1>4, MaxAttemptsAssumption DEF History, Attempts
<1>7. receipt[k] = 0
  BY <1>k, MaxAttemptsAssumption DEF Recorded
<1>8. Recorded'
  BY <1>k, <1>3, <1>7, MaxAttemptsAssumption DEF Recorded
<1>9. Held'
  <2> SUFFICES ASSUME NEW v \in Workers, NEW j \in Keys, Holding(v, j)'
               PROVE  /\ attempt'[v] \in Attempts
                      /\ attempt'[v] = attempts'[j]
                      /\ status'[j] \in {"sending", "accepted"}
                      /\ pc'[v] = "claimed" => fate'[j][attempt'[v]] = "none"
                      /\ pc'[v] = "record" =>
                           /\ result'[v] \in {"ok", "uncertain", "failed"}
                           /\ result'[v] = "ok" => fate'[j][attempt'[v]] = "delivered"
                           /\ result'[v] = "failed" => fate'[j][attempt'[v]] = "refused"
    BY DEF Held
  <2>1. CASE v = w
    BY <1>3, <1>5, <1>k, <2>1 DEF Holding
  <2>2. CASE v # w
    <3>1. Holding(v, j) /\ j # k
      BY <1>1, <1>2, <2>2
    <3>2. QED
      BY <2>2, <3>1 DEF Held, Holding
  <2>3. QED
    BY <2>1, <2>2
<1>10. OneHolder'
  BY <1>1, <1>2 DEF OneHolder, Holding
<1>11. OkMeansDelivered'
  BY DEF OkMeansDelivered
<1>12. QED
  BY <1>6, <1>8, <1>9, <1>10, <1>11

\* Steps inside a held claim: Transmit, NotTransmitted, GiveUp and Answered
\* change the last attempt of the held key from "none" if at all, and leave
\* the rows alone.
LEMMA CallStep ==
  ASSUME TypeOK, Busy, Inv, NEW w \in Workers,
         Transmit(w) \/ NotTransmitted(w) \/ GiveUp(w) \/ Answered(w)
  PROVE  Inv'
<1> DEFINE k == job[w]
<1> DEFINE n == attempt[w]
<1> USE DEF TypeOK, Inv
<1>1. k \in Keys /\ Holding(w, k)
  BY DEF Busy, Holding, Transmit, NotTransmitted, GiveUp, Answered
<1>2. n \in Attempts /\ n = attempts[k] /\ status[k] \in {"sending", "accepted"}
  BY <1>1 DEF Held
<1>3. /\ UNCHANGED <<rowVars, job, attempt>>
      /\ pc' = [pc EXCEPT ![w] = pc'[w]] /\ pc'[w] \in {"calling", "record"}
      /\ result' = [result EXCEPT ![w] = result'[w]]
  BY DEF Transmit, NotTransmitted, GiveUp, Answered
<1>4. \/ UNCHANGED fate
      \/ /\ fate[k][n] = "none"
         /\ fate' = [fate EXCEPT ![k][n] = fate'[k][n]]
         /\ fate'[k][n] \in {"flying", "refused"}
  <2>1. CASE Transmit(w) \/ NotTransmitted(w)
    <3>1. pc[w] = "claimed"
      BY <2>1 DEF Transmit, NotTransmitted
    <3>2. fate[k][n] = "none"
      BY <1>1, <3>1 DEF Held
    <3>3. QED
      BY <1>1, <1>2, <2>1, <3>2 DEF Transmit, NotTransmitted
  <2>2. CASE GiveUp(w) \/ Answered(w)
    BY <2>2 DEF GiveUp, Answered
  <2>3. QED
    BY <2>1, <2>2
<1>5. pc'[w] = "record" =>
        /\ result'[w] \in {"ok", "uncertain", "failed"}
        /\ result'[w] = "ok" => fate'[k][n] = "delivered"
        /\ result'[w] = "failed" => fate'[k][n] = "refused"
  BY <1>1, <1>2 DEF Transmit, NotTransmitted, GiveUp, Answered
<1>6. pc'[w] # "claimed"
  BY <1>3
<1>7. \A j \in Keys : \A a \in Attempts :
        <<j, a>> # <<k, n>> \/ fate[k][n] # "none" => fate'[j][a] = fate[j][a]
  BY <1>1, <1>2, <1>4
<1>8. \A v \in Workers : \A j \in Keys : Holding(v, j)' <=> Holding(v, j)
  BY <1>1, <1>3 DEF Holding
<1>9. History'
  BY <1>2, <1>3, <1>4, <1>7 DEF History, rowVars, Attempts
<1>10. Recorded'
  <2>1. status[k] = "failed" \/ receipt[k] # 0 => fate[k][n] # "none"
    BY <1>1, <1>2 DEF Recorded
  <2> SUFFICES ASSUME NEW j \in Keys
               PROVE  /\ status[j] \in {"absent", "prepared"} <=> attempts[j] = 0
                      /\ status[j] = "failed" => fate'[j][attempts[j]] = "refused"
                      /\ status[j] = "accepted" => receipt[j] # 0
                      /\ receipt[j] # 0 => /\ receipt[j] = attempts[j]
                                           /\ fate'[j][attempts[j]] = "delivered"
    BY <1>3 DEF Recorded, rowVars
  <2>2. attempts[j] # 0 => attempts[j] \in Attempts
    BY MaxAttemptsAssumption DEF Attempts
  <2>3. QED
    BY <1>1, <1>2, <1>7, <2>1, <2>2 DEF Recorded
<1>11. Held'
  <2> SUFFICES ASSUME NEW v \in Workers, NEW j \in Keys, Holding(v, j)
               PROVE  /\ attempt[v] \in Attempts
                      /\ attempt[v] = attempts[j]
                      /\ status[j] \in {"sending", "accepted"}
                      /\ pc'[v] = "claimed" => fate'[j][attempt[v]] = "none"
                      /\ pc'[v] = "record" =>
                           /\ result'[v] \in {"ok", "uncertain", "failed"}
                           /\ result'[v] = "ok" => fate'[j][attempt[v]] = "delivered"
                           /\ result'[v] = "failed" => fate'[j][attempt[v]] = "refused"
    BY <1>3, <1>8 DEF Held, rowVars
  <2>1. CASE v = w
    <3>1. j = k
      BY <2>1 DEF Holding
    <3>2. QED
      BY <1>2, <1>5, <1>6, <2>1, <3>1
  <2>2. CASE v # w
    <3>1. j # k
      BY <1>1, <2>2 DEF OneHolder
    <3>2. pc'[v] = pc[v] /\ result'[v] = result[v]
      BY <1>3, <2>2
    <3>3. attempt[v] \in Attempts
      BY DEF Held
    <3>4. fate'[j][attempt[v]] = fate[j][attempt[v]]
      BY <1>7, <3>1, <3>3
    <3>5. QED
      BY <3>2, <3>4 DEF Held
  <2>3. QED
    BY <2>1, <2>2
<1>12. OneHolder'
  BY <1>8 DEF OneHolder
<1>13. OkMeansDelivered'
  <2>1. \A j \in Keys : \A a \in Attempts :
          fate[j][a] = "delivered" => fate'[j][a] = "delivered"
    BY <1>7
  <2>2. \A v \in Workers : pc'[v] = "done" => pc[v] = "done" /\ result'[v] = result[v] /\ v # w
    BY <1>3
  <2>3. QED
    BY <1>3, <2>1, <2>2 DEF OkMeansDelivered, Busy
<1>14. QED
  BY <1>9, <1>10, <1>11, <1>12, <1>13

LEMMA RecordStep ==
  ASSUME TypeOK, Busy, Inv, NEW w \in Workers, Record(w)
  PROVE  Inv'
<1> DEFINE k == job[w]
<1> DEFINE n == attempt[w]
<1> USE DEF TypeOK, Inv, Record, Outcome
<1>1. k \in Keys /\ Holding(w, k)
  BY DEF Busy, Holding
<1>2. /\ n \in Attempts /\ n = attempts[k] /\ n # 0
      /\ result[w] \in {"ok", "uncertain", "failed"}
      /\ result[w] = "ok" => fate[k][n] = "delivered"
      /\ result[w] = "failed" => fate[k][n] = "refused"
  BY <1>1, MaxAttemptsAssumption DEF Held, Attempts
<1>3. \A v \in Workers : \A j \in Keys : Holding(v, j)' => Holding(v, j) /\ v # w
  BY DEF Holding
<1>4. History'
  BY DEF History
<1>5. Recorded'
  BY <1>1, <1>2 DEF Recorded
<1>6. Held'
  BY <1>1, <1>3 DEF Held, Holding, OneHolder
<1>7. OneHolder'
  BY <1>3 DEF OneHolder
<1>8. OkMeansDelivered'
  BY <1>1, <1>2 DEF OkMeansDelivered
<1>9. QED
  BY <1>4, <1>5, <1>6, <1>7, <1>8

\* Only the last attempt of a row can be in flight or delivered.
LEMMA LiveIsLast ==
  ASSUME TypeOK, History, NEW k \in Keys, NEW a \in Attempts,
         fate[k][a] \in {"flying", "delivered"}
  PROVE  a = attempts[k] /\ a # 0
<1>1. a \in Nat /\ a # 0 /\ attempts[k] \in Nat
  BY MaxAttemptsAssumption DEF TypeOK, Attempts
<1>2. ~(a < attempts[k]) /\ ~(a > attempts[k])
  BY DEF History
<1>3. QED
  BY <1>1, <1>2

\* The provider decides only on the last attempt of a row: the earlier ones
\* were refused and the later ones do not exist.
LEMMA ProviderStep ==
  ASSUME TypeOK, Busy, Inv, NEW k \in Keys, NEW a \in Attempts, Provider(k, a)
  PROVE  Inv'
<1> USE DEF Inv
<1>t. /\ fate \in [Keys -> [Attempts -> Fates]]
      /\ attempts \in [Keys -> 0 .. MaxAttempts]
      /\ receipt \in [Keys -> 0 .. MaxAttempts]
      /\ attempt \in [Workers -> 0 .. MaxAttempts]
  BY DEF TypeOK
<1>1. PICK f \in {"delivered", "refused"} : fate' = [fate EXCEPT ![k][a] = f]
  BY DEF Provider
<1>2. fate[k][a] = "flying" /\ UNCHANGED <<rowVars, callVars>>
  BY DEF Provider
<1>3. a = attempts[k]
  BY <1>2, LiveIsLast
<1>4. \A j \in Keys : \A b \in Attempts :
        j # k \/ b # a => fate'[j][b] = fate[j][b]
  BY <1>1, <1>t
<1>5. \A j \in Keys : \A b \in Attempts :
        fate[j][b] # "flying" => fate'[j][b] = fate[j][b]
  BY <1>2, <1>4
<1>6. History'
  BY <1>2, <1>3, <1>4, <1>t DEF History, rowVars, Attempts
<1>7. Recorded'
  <2>1. \A j \in Keys : attempts[j] # 0 => attempts[j] \in Attempts
    BY <1>t, MaxAttemptsAssumption DEF Attempts
  <2>2. \A j \in Keys : status[j] = "failed" \/ receipt[j] # 0 => attempts[j] # 0
    BY DEF Recorded
  <2>3. QED
    BY <1>2, <1>5, <2>1, <2>2 DEF Recorded, rowVars
<1>8. \A v \in Workers : \A j \in Keys : Holding(v, j)' <=> Holding(v, j)
  BY <1>2 DEF Holding, callVars
<1>9. Held'
  BY <1>2, <1>5, <1>8 DEF Held, rowVars, callVars
<1>10. OneHolder'
  BY <1>8 DEF OneHolder
<1>11. OkMeansDelivered'
  BY <1>2, <1>5 DEF OkMeansDelivered, Busy, callVars
<1>12. QED
  BY <1>6, <1>7, <1>9, <1>10, <1>11

\* Evidence of a delivery can only be of the row's last attempt, and only when
\* the row is sending, uncertain or accepted.
LEMMA ReconcileStep ==
  ASSUME TypeOK, Busy, Inv, NEW k \in Keys, NEW a \in Attempts, ReconcileReceipt(k, a)
  PROVE  Inv'
<1> USE DEF TypeOK, Inv, ReconcileReceipt
<1>1. a = attempts[k] /\ a # 0
  BY LiveIsLast
<1>2. \A v \in Workers : \A j \in Keys : Holding(v, j)' <=> Holding(v, j)
  BY DEF Holding, callVars
<1>3. History'
  BY DEF History
<1>4. Recorded'
  BY <1>1 DEF Recorded
<1>5. Held'
  BY <1>2 DEF Held, callVars
<1>6. OneHolder'
  BY <1>2 DEF OneHolder
<1>7. OkMeansDelivered'
  BY DEF OkMeansDelivered, callVars
<1>8. QED
  BY <1>3, <1>4, <1>5, <1>6, <1>7

LEMMA DueStep ==
  ASSUME TypeOK, Inv, NEW k \in Keys, BecomeDue(k)
  PROVE  Inv'
  BY DEF TypeOK, Inv, BecomeDue, callVars, History, Recorded, Held, OneHolder,
         OkMeansDelivered, Holding

LEMMA InvStep == TypeOK /\ Busy /\ Inv /\ [Next]_outboxVars => Inv'
<1> SUFFICES ASSUME TypeOK, Busy, Inv, [Next]_outboxVars
             PROVE  Inv'
  OBVIOUS
<1>1. ASSUME NEW w \in Workers, ClaimLost(w)
      PROVE  Inv'
  BY <1>1, QuietStep DEF ClaimLost, TypeOK
<1>2. ASSUME NEW w \in Workers, ReadWinner(w)
      PROVE  Inv'
  <2>1. job[w] \in Keys
    BY <1>2 DEF ReadWinner, Busy
  <2>2. status[job[w]] = "accepted"
          => \E a \in Attempts : fate[job[w]][a] = "delivered"
    <3>1. status[job[w]] = "accepted"
            => /\ attempts[job[w]] \in Attempts
               /\ fate[job[w]][attempts[job[w]]] = "delivered"
      BY <2>1, MaxAttemptsAssumption DEF Inv, Recorded, TypeOK, Attempts
    <3>2. QED
      BY <3>1
  <2>3. QED
    BY <1>2, <2>1, <2>2, QuietStep DEF ReadWinner, DuplicateResult, TypeOK
<1>3. ASSUME NEW w \in Workers, Return(w) \/ Crash(w)
      PROVE  Inv'
  <2>1. Forget(w) /\ UNCHANGED <<rowVars, fate>>
    BY <1>3 DEF Return, Crash
  <2>2. QED
    BY <2>1, QuietStep DEF Forget, TypeOK
<1>4. CASE UNCHANGED outboxVars
  BY <1>4 DEF outboxVars, rowVars, callVars, Inv, History, Recorded, Held,
              OneHolder, OkMeansDelivered, Holding
<1>5. QED
  BY <1>1, <1>2, <1>3, <1>4, EnqueueStep, ClaimStep, CallStep, RecordStep,
     ProviderStep, ReconcileStep, DueStep DEF Next, Step, Environment

LEMMA Invariance == Spec => [](TypeOK /\ Busy /\ Inv)
<1>1. Init => TypeOK /\ Busy /\ Inv
  BY TypingInit, InvInit
<1>2. (TypeOK /\ Busy /\ Inv) /\ [Next]_outboxVars => (TypeOK /\ Busy /\ Inv)'
  BY TypingStep, InvStep
<1>3. QED
  BY <1>1, <1>2, PTL DEF Spec

\* Whatever the processes, the provider and the operator do, the customer
\* receives at most one email per key.
THEOREM ExactlyOnceEmail == Spec => []AtMostOneDelivery
<1>1. TypeOK /\ Inv => AtMostOneDelivery
  BY LiveIsLast DEF Inv, AtMostOneDelivery
<1>2. QED
  BY <1>1, Invariance, PTL

\* What the retry job picks up was never delivered and never will be by an
\* earlier attempt.
THEOREM RetriesAreSafe == Spec => []RetryableIsUnsent
<1>1. TypeOK /\ Inv => RetryableIsUnsent
  <2> SUFFICES ASSUME TypeOK, Inv, NEW k \in Keys, NEW a \in Attempts,
                      status[k] \in {"absent", "prepared", "failed"}
               PROVE  fate[k][a] \in {"none", "refused"}
    BY DEF RetryableIsUnsent
  <2>1. QED
    BY MaxAttemptsAssumption DEF Inv, History, Recorded, TypeOK, Attempts
<1>2. QED
  BY <1>1, Invariance, PTL

\* An accepted row references the transmission the provider took.
THEOREM AcceptanceIsEvidenced == Spec => []AcceptedHasReceipt
<1>1. TypeOK /\ Inv => AcceptedHasReceipt
  BY DEF Inv, Recorded, AcceptedHasReceipt
<1>2. QED
  BY <1>1, Invariance, PTL

\* Claims are exclusive, and a caller told "ok" may record the acceptance.
THEOREM ClaimsAreExclusive == Spec => [](OneHolder /\ OkMeansDelivered)
  BY Invariance, PTL DEF Inv

\* An email whose fate is unknown or accepted becomes retryable only when its
\* last attempt was refused.
THEOREM NoBlindRetry == Spec => UnknownNeverRetried
<1> DEFINE A == \A k \in Keys :
                  /\ status[k] \in {"sending", "uncertain", "accepted"}
                  /\ status'[k] \in {"prepared", "failed"}
                  => fate[k][attempts[k]] = "refused"
<1>1. TypeOK /\ Busy /\ Inv /\ [Next]_outboxVars => [A]_outboxVars
  <2> SUFFICES ASSUME TypeOK, Busy, Inv, Next, NEW k \in Keys,
                      status[k] \in {"sending", "uncertain", "accepted"},
                      status'[k] \in {"prepared", "failed"}
               PROVE  fate[k][attempts[k]] = "refused"
    OBVIOUS
  <2>1. \E w \in Workers : Record(w) /\ job[w] = k
    BY DEF TypeOK, Next, Step, Environment, Enqueue, Claim, ClaimLost, ReadWinner,
           Transmit, NotTransmitted, GiveUp, Answered, Record, Return, Crash,
           BecomeDue, Provider, ReconcileReceipt, rowVars
  <2>2. PICK w \in Workers : Record(w) /\ job[w] = k
    BY <2>1
  <2>3. result[w] = "failed"
    BY <2>2 DEF TypeOK, Record, Outcome, Inv, Held, Holding
  <2>4. QED
    BY <2>2, <2>3 DEF Record, Inv, Held, Holding
<1>2. QED
  BY <1>1, Invariance, PTL DEF Spec, UnknownNeverRetried

-----------------------------------------------------------------------------
(* Refinement                                                              *)

LEMMA RefinesInit == Init => Promise!Init
  BY MaxAttemptsAssumption DEF Init, Promise!Init, knownBar, sentBar, Attempts

\* A step that changes neither what is known of a key nor what was delivered.
LEMMA StutterStep ==
  ASSUME UNCHANGED <<knownBar, sentBar>>
  PROVE  UNCHANGED Promise!vars
  BY DEF Promise!vars

LEMMA RefinesStep ==
  TypeOK /\ Busy /\ Inv /\ [Next]_outboxVars => [Promise!Next]_(Promise!vars)
<1> SUFFICES ASSUME TypeOK, Busy, Inv, [Next]_outboxVars
             PROVE  Promise!Next \/ UNCHANGED Promise!vars
  OBVIOUS
<1> USE DEF TypeOK
<1>1. ASSUME NEW w \in Workers, NEW k \in Keys, Enqueue(w, k)
      PROVE  UNCHANGED Promise!vars
  BY <1>1, StutterStep DEF Enqueue, knownBar, sentBar
<1>2. ASSUME NEW w \in Workers, Claim(w)
      PROVE  Promise!Next
  <2>1. job[w] \in Keys
    BY <1>2 DEF Claim, Busy
  <2>2. Promise!Attempt(job[w])
    BY <1>2, <2>1 DEF Claim, Claimable, Promise!Attempt, knownBar, sentBar
  <2>3. QED
    BY <2>1, <2>2 DEF Promise!Next
<1>3. ASSUME NEW w \in Workers,
             \/ ClaimLost(w) \/ ReadWinner(w) \/ GiveUp(w) \/ Answered(w)
             \/ Return(w) \/ Crash(w)
      PROVE  UNCHANGED Promise!vars
  <2>1. UNCHANGED <<rowVars, fate>>
    BY <1>3 DEF ClaimLost, ReadWinner, GiveUp, Answered, Return, Crash
  <2>2. QED
    BY <2>1, StutterStep DEF rowVars, knownBar, sentBar
<1>4. ASSUME NEW w \in Workers, Transmit(w) \/ NotTransmitted(w)
      PROVE  UNCHANGED Promise!vars
  <2>1. job[w] \in Keys /\ Holding(w, job[w]) /\ pc[w] = "claimed"
    BY <1>4 DEF Transmit, NotTransmitted, Busy, Holding
  <2>2. attempt[w] \in Attempts /\ fate[job[w]][attempt[w]] = "none"
    BY <2>1 DEF Inv, Held
  <2>3. UNCHANGED status
    BY <1>4 DEF Transmit, NotTransmitted, rowVars
  <2>4. \A k \in Keys : \A a \in Attempts :
          fate'[k][a] = "delivered" <=> fate[k][a] = "delivered"
    BY <1>4, <2>1, <2>2 DEF Transmit, NotTransmitted
  <2>5. QED
    BY <2>3, <2>4, StutterStep DEF knownBar, sentBar
<1>5. ASSUME NEW w \in Workers, Record(w)
      PROVE  Promise!Next \/ UNCHANGED Promise!vars
  <2> DEFINE k == job[w]
  <2>1. k \in Keys /\ Holding(w, k)
    BY <1>5 DEF Record, Busy, Holding
  <2>2. /\ attempt[w] \in Attempts /\ attempt[w] = attempts[k]
        /\ status[k] \in {"sending", "accepted"}
        /\ result[w] \in {"ok", "uncertain", "failed"}
        /\ result[w] = "ok" => fate[k][attempt[w]] = "delivered"
        /\ result[w] = "failed" => fate[k][attempt[w]] = "refused"
    BY <1>5, <2>1 DEF Record, Inv, Held
  <2>3. UNCHANGED sentBar
    BY <1>5 DEF Record, sentBar
  <2>4. CASE result[w] = "ok"
    <3>1. sentBar[k] # {}
      BY <2>1, <2>2, <2>4 DEF sentBar
    <3>2. knownBar' = [knownBar EXCEPT ![k] = "accepted"]
      BY <1>5, <2>1, <2>4 DEF Record, Outcome, knownBar
    <3>3. QED
      BY <2>1, <2>3, <3>1, <3>2 DEF Promise!Next, Promise!Confirm
  <2>5. CASE result[w] = "uncertain"
    <3>1. knownBar' = [knownBar EXCEPT ![k] = "unknown"]
      BY <1>5, <2>1, <2>5 DEF Record, Outcome, knownBar
    <3>2. CASE status[k] = "accepted"
      BY <2>1, <2>3, <3>1, <3>2 DEF knownBar, Promise!Next, Promise!Doubt
    <3>3. CASE status[k] = "sending"
      <4>1. knownBar' = knownBar
        BY <2>1, <3>1, <3>3 DEF knownBar
      <4>2. QED
        BY <2>3, <4>1, StutterStep
    <3>4. QED
      BY <2>2, <3>2, <3>3
  <2>6. CASE result[w] = "failed"
    <3>1. knownBar' = [knownBar EXCEPT ![k] = "unsent"]
      BY <1>5, <2>1, <2>6 DEF Record, Outcome, knownBar
    <3>2. sentBar[k] = {}
      <4>1. ASSUME NEW a \in Attempts, fate[k][a] = "delivered"
            PROVE  FALSE
        BY <2>1, <2>2, <2>6, <4>1, LiveIsLast DEF Inv
      <4>2. QED
        BY <2>1, <4>1 DEF sentBar
    <3>3. status[k] # "accepted"
      BY <2>1, <2>2, <2>6 DEF Inv, Recorded
    <3>4. QED
      BY <2>1, <2>2, <2>3, <3>1, <3>2, <3>3 DEF knownBar, Promise!Next, Promise!Refuse
  <2>7. QED
    BY <2>2, <2>4, <2>5, <2>6
<1>6. ASSUME NEW k \in Keys, BecomeDue(k)
      PROVE  UNCHANGED Promise!vars
  BY <1>6, StutterStep DEF BecomeDue, knownBar, sentBar
<1>7. ASSUME NEW k \in Keys, NEW a \in Attempts, Provider(k, a)
      PROVE  Promise!Next \/ UNCHANGED Promise!vars
  <2>1. PICK f \in {"delivered", "refused"} : fate' = [fate EXCEPT ![k][a] = f]
    BY <1>7 DEF Provider
  <2>2. fate[k][a] = "flying" /\ UNCHANGED rowVars
    BY <1>7 DEF Provider
  <2>3. UNCHANGED knownBar
    BY <2>2 DEF knownBar, rowVars
  <2>4. a = attempts[k]
    BY <2>2, LiveIsLast DEF Inv
  <2>5. sentBar[k] = {}
    <3>1. ASSUME NEW b \in Attempts, fate[k][b] = "delivered"
          PROVE  FALSE
      BY <2>2, <2>4, <3>1, LiveIsLast DEF Inv
    <3>2. QED
      BY <3>1 DEF sentBar
  <2>6. CASE f = "delivered"
    <3>1. knownBar[k] = "unknown"
      <4>1. attempts[k] # 0
        BY <2>2, LiveIsLast DEF Inv
      <4>2. QED
        BY <2>2, <2>4, <4>1 DEF Inv, Recorded, knownBar, Statuses
    <3>2. sentBar' = [sentBar EXCEPT ![k] = {a}]
      <4>1. \A b \in Attempts : fate'[k][b] = "delivered" <=> b = a
        BY <2>1, <2>5, <2>6 DEF sentBar
      <4>2. \A j \in Keys : j # k => fate'[j] = fate[j]
        BY <2>1
      <4>3. QED
        BY <4>1, <4>2 DEF sentBar
    <3>3. QED
      BY <2>3, <2>5, <3>1, <3>2 DEF Promise!Next, Promise!Deliver
  <2>7. CASE f = "refused"
    <3>1. UNCHANGED sentBar
      BY <2>1, <2>2, <2>7 DEF sentBar
    <3>2. QED
      BY <2>3, <3>1, StutterStep
  <2>8. QED
    BY <2>6, <2>7
<1>8. ASSUME NEW k \in Keys, NEW a \in Attempts, ReconcileReceipt(k, a)
      PROVE  Promise!Next
  <2>1. sentBar[k] # {} /\ UNCHANGED sentBar
    BY <1>8 DEF ReconcileReceipt, sentBar
  <2>2. knownBar' = [knownBar EXCEPT ![k] = "accepted"]
    BY <1>8 DEF ReconcileReceipt, knownBar
  <2>3. QED
    BY <2>1, <2>2 DEF Promise!Next, Promise!Confirm
<1>9. CASE UNCHANGED outboxVars
  BY <1>9, StutterStep DEF outboxVars, rowVars, knownBar, sentBar
<1>10. QED
  BY <1>1, <1>2, <1>3, <1>4, <1>5, <1>6, <1>7, <1>8, <1>9
  DEF Next, Step, Environment

\* The outbox keeps its promise: it implements OnceEmail.
THEOREM OutboxImplementsOnceEmail == Spec => OnceEmailSpec
  BY RefinesInit, RefinesStep, Invariance, PTL DEF Spec, OnceEmailSpec, Promise!Spec
=============================================================================
