---------------------------- MODULE EmailOutbox ----------------------------
(***************************************************************************)
(* The durable billing email outbox, api/billing/dispatch.py.              *)
(*                                                                         *)
(* A dispatch row is keyed by (tenant, key), here a member of Keys.  Any   *)
(* web or worker process may run send_email_once on any key at any time; a *)
(* call is four database transactions with a wait and an HTTP call between *)
(* them, and the process may die at every point.  The mail provider takes  *)
(* a request late, answers late, or never, and the idempotency window of   *)
(* the provider is not relied on: a second transmission is a second email. *)
(*                                                                         *)
(* Time is abstracted to whether a row's retry_at has passed ("due").      *)
(***************************************************************************)
EXTENDS Naturals

CONSTANTS Keys,         \* dispatch keys
          Workers,      \* processes that call send_email_once
          MaxAttempts,  \* the attempts a row may use (8 in the code)
          NoKey         \* the key of an idle worker

ASSUME MaxAttemptsAssumption == MaxAttempts \in Nat \ {0}
ASSUME NoKeyAssumption == NoKey \notin Keys

VARIABLES status,    \* billing_email_dispatches.status, "absent" without a row
          attempts,  \* .attempts
          due,       \* .retry_at is null or has passed
          receipt,   \* .resend_email_id: the attempt it names, 0 for null
          fate,      \* what became of each attempt of each key
          pc,        \* where each process is in send_email_once
          job,       \* the key it was called with
          attempt,   \* the attempt it claimed
          result     \* its outcome, then the result it returns

rowVars == <<status, attempts, due, receipt>>
callVars == <<pc, job, attempt, result>>
outboxVars == <<rowVars, fate, callVars>>

Attempts == 1 .. MaxAttempts

Statuses == {"absent", "prepared", "sending", "accepted", "failed", "uncertain"}

\* "none": not transmitted; "flying": in the network or at the provider;
\* "refused": provably never taken (a 4xx answer, or never transmitted).
Fates == {"none", "flying", "delivered", "refused"}

Results == {"none", "ok", "uncertain", "failed"}

TypeOK ==
  /\ status \in [Keys -> Statuses]
  /\ attempts \in [Keys -> 0 .. MaxAttempts]
  /\ due \in [Keys -> BOOLEAN]
  /\ receipt \in [Keys -> 0 .. MaxAttempts]
  /\ fate \in [Keys -> [Attempts -> Fates]]
  /\ pc \in [Workers -> {"idle", "slot", "lost", "claimed", "calling", "record", "done"}]
  /\ job \in [Workers -> Keys \cup {NoKey}]
  /\ attempt \in [Workers -> 0 .. MaxAttempts]
  /\ result \in [Workers -> Results]

Init ==
  /\ status = [k \in Keys |-> "absent"]
  /\ attempts = [k \in Keys |-> 0]
  /\ due = [k \in Keys |-> TRUE]
  /\ receipt = [k \in Keys |-> 0]
  /\ fate = [k \in Keys |-> [a \in Attempts |-> "none"]]
  /\ pc = [w \in Workers |-> "idle"]
  /\ job = [w \in Workers |-> NoKey]
  /\ attempt = [w \in Workers |-> 0]
  /\ result = [w \in Workers |-> "none"]

\* Mutation of Claimable: an abandoned claim is taken over, as a lease would be.
ClaimableWithLease(k) ==
  /\ status[k] \in {"absent", "prepared", "failed", "sending"}
  /\ attempts[k] < MaxAttempts
  /\ due[k]

\* The rows a call may transmit, read first and re-checked by the claim.  A
\* key without a row counts: the call inserts the row before it reads it.
Claimable(k) ==
  /\ status[k] \in {"absent", "prepared", "failed"}
  /\ attempts[k] < MaxAttempts
  /\ due[k]

\* The answer of a call that finds the key already handled.
DuplicateResult(k) ==
  IF status[k] = "accepted" THEN "ok"
  ELSE IF status[k] \in {"sending", "uncertain"} THEN "uncertain" ELSE "failed"

\* The call of process w ends, with nothing left of it.
Forget(w) ==
  /\ pc' = [pc EXCEPT ![w] = "idle"]
  /\ job' = [job EXCEPT ![w] = NoKey]
  /\ attempt' = [attempt EXCEPT ![w] = 0]
  /\ result' = [result EXCEPT ![w] = "none"]

-----------------------------------------------------------------------------
(* send_email_once                                                         *)

\* The first transaction: insert the row unless it exists, and read it.
Enqueue(w, k) ==
  /\ pc[w] = "idle"
  /\ status' = [status EXCEPT ![k] = IF @ = "absent" THEN "prepared" ELSE @]
  /\ job' = [job EXCEPT ![w] = k]
  /\ \/ /\ Claimable(k)
        /\ pc' = [pc EXCEPT ![w] = "slot"]
        /\ UNCHANGED result
     \/ /\ ~Claimable(k)
        /\ pc' = [pc EXCEPT ![w] = "done"]
        /\ result' = [result EXCEPT ![w] = DuplicateResult(k)]
  /\ UNCHANGED <<attempts, due, receipt, fate, attempt>>

\* Mutation of Claim: the limit is checked before the attempt is counted only.
ClaimPastLimit(w) ==
  /\ pc[w] = "slot"
  /\ status[job[w]] \in {"absent", "prepared", "failed"}
  /\ due[job[w]]
  /\ attempts[job[w]] <= MaxAttempts
  /\ status' = [status EXCEPT ![job[w]] = "sending"]
  /\ attempts' = [attempts EXCEPT ![job[w]] = @ + 1]
  /\ attempt' = [attempt EXCEPT ![w] = attempts[job[w]] + 1]
  /\ pc' = [pc EXCEPT ![w] = "claimed"]
  /\ UNCHANGED <<due, receipt, fate, job, result>>

\* Mutation of Claim: the row is taken on the strength of the first read.
ClaimUnchecked(w) ==
  /\ pc[w] = "slot"
  /\ attempts[job[w]] < MaxAttempts
  /\ status' = [status EXCEPT ![job[w]] = "sending"]
  /\ attempts' = [attempts EXCEPT ![job[w]] = @ + 1]
  /\ attempt' = [attempt EXCEPT ![w] = attempts[job[w]] + 1]
  /\ pc' = [pc EXCEPT ![w] = "claimed"]
  /\ UNCHANGED <<due, receipt, fate, job, result>>

\* After the rate gate, one UPDATE takes the row for exactly one process.
Claim(w) ==
  /\ pc[w] = "slot"
  /\ Claimable(job[w])
  /\ status' = [status EXCEPT ![job[w]] = "sending"]
  /\ attempts' = [attempts EXCEPT ![job[w]] = @ + 1]
  /\ attempt' = [attempt EXCEPT ![w] = attempts[job[w]] + 1]
  /\ pc' = [pc EXCEPT ![w] = "claimed"]
  /\ UNCHANGED <<due, receipt, fate, job, result>>

\* The UPDATE matched no row: another process took it while this one waited.
ClaimLost(w) ==
  /\ pc[w] = "slot"
  /\ ~Claimable(job[w])
  /\ pc' = [pc EXCEPT ![w] = "lost"]
  /\ UNCHANGED <<rowVars, fate, job, attempt, result>>

\* The row is refreshed after the commit, and answers for this call.
ReadWinner(w) ==
  /\ pc[w] = "lost"
  /\ pc' = [pc EXCEPT ![w] = "done"]
  /\ result' = [result EXCEPT ![w] = DuplicateResult(job[w])]
  /\ UNCHANGED <<rowVars, fate, job, attempt>>

\* notify._send_via_resend hands the request to the provider.
Transmit(w) ==
  /\ pc[w] = "claimed"
  /\ pc' = [pc EXCEPT ![w] = "calling"]
  /\ fate' = [fate EXCEPT ![job[w]][attempt[w]] = "flying"]
  /\ UNCHANGED <<rowVars, job, attempt, result>>

\* No API key or SDK: the outcome is "not_sent" and nothing left the process.
NotTransmitted(w) ==
  /\ pc[w] = "claimed"
  /\ pc' = [pc EXCEPT ![w] = "record"]
  /\ result' = [result EXCEPT ![w] = "failed"]
  /\ fate' = [fate EXCEPT ![job[w]][attempt[w]] = "refused"]
  /\ UNCHANGED <<rowVars, job, attempt>>

\* Mutation of GiveUp: a timeout is taken for a refusal.
GiveUpAsFailed(w) ==
  /\ pc[w] = "calling"
  /\ pc' = [pc EXCEPT ![w] = "record"]
  /\ result' = [result EXCEPT ![w] = "failed"]
  /\ UNCHANGED <<rowVars, fate, job, attempt>>

\* A timeout, a 5xx, a 409 or any exception: the outcome stays "unknown".
GiveUp(w) ==
  /\ pc[w] = "calling"
  /\ pc' = [pc EXCEPT ![w] = "record"]
  /\ result' = [result EXCEPT ![w] = "uncertain"]
  /\ UNCHANGED <<rowVars, fate, job, attempt>>

\* The provider's answer arrives: a receipt id, or a 4xx that proves refusal.
Answered(w) ==
  /\ pc[w] = "calling"
  /\ \/ /\ fate[job[w]][attempt[w]] = "delivered"
        /\ result' = [result EXCEPT ![w] = "ok"]
     \/ /\ fate[job[w]][attempt[w]] = "refused"
        /\ result' = [result EXCEPT ![w] = "failed"]
  /\ pc' = [pc EXCEPT ![w] = "record"]
  /\ UNCHANGED <<rowVars, fate, job, attempt>>

\* The status the last transaction gives the row.
Outcome(w) ==
  IF result[w] = "ok" THEN "accepted"
  ELSE IF result[w] = "uncertain" THEN "uncertain" ELSE "failed"

\* The last transaction writes the outcome over whatever the row holds, and
\* a refusal schedules the next attempt after a back-off.
Record(w) ==
  /\ pc[w] = "record"
  /\ status' = [status EXCEPT ![job[w]] = Outcome(w)]
  /\ receipt' = [receipt EXCEPT ![job[w]] = IF result[w] = "ok" THEN attempt[w] ELSE 0]
  /\ due' = [due EXCEPT ![job[w]] = result[w] # "failed"]
  /\ pc' = [pc EXCEPT ![w] = "done"]
  /\ UNCHANGED <<attempts, fate, job, attempt, result>>

\* The caller takes the result.
Return(w) ==
  /\ pc[w] = "done"
  /\ Forget(w)
  /\ UNCHANGED <<rowVars, fate>>

\* The process dies and forgets its call; the row keeps what was committed.
Crash(w) ==
  /\ pc[w] # "idle"
  /\ Forget(w)
  /\ UNCHANGED <<rowVars, fate>>

-----------------------------------------------------------------------------
(* The provider, the clock and the operator                                *)

\* A transmitted request is taken or refused, however late, whether or not
\* the process that sent it still listens; one that is lost flies for ever.
Provider(k, a) ==
  /\ fate[k][a] = "flying"
  /\ \E f \in {"delivered", "refused"} : fate' = [fate EXCEPT ![k][a] = f]
  /\ UNCHANGED <<rowVars, callVars>>

\* The row's retry_at passes.
BecomeDue(k) ==
  /\ ~due[k]
  /\ due' = [due EXCEPT ![k] = TRUE]
  /\ UNCHANGED <<status, attempts, receipt, fate, callVars>>

\* Mutation of ReconcileReceipt: the operator clears the claim for a retry.
ReconcileByRetry(k, a) ==
  /\ status[k] \in {"sending", "uncertain"}
  /\ status' = [status EXCEPT ![k] = "failed"]
  /\ UNCHANGED <<attempts, due, receipt, fate, callVars>>

\* Mutation of ReconcileReceipt: the operator's word is taken without evidence.
ReconcileUnverified(k, a) ==
  /\ status[k] # "absent"
  /\ receipt[k] \in {0, a}
  /\ status' = [status EXCEPT ![k] = "accepted"]
  /\ receipt' = [receipt EXCEPT ![k] = a]
  /\ due' = [due EXCEPT ![k] = TRUE]
  /\ UNCHANGED <<attempts, fate, callVars>>

\* reconcile_provider_receipt: the operator names a receipt, the provider
\* confirms that it is this dispatch's, and the row is marked accepted unless
\* it already references another receipt.  The evidence, once true, stays
\* true, so reading it and writing the row are one step.
ReconcileReceipt(k, a) ==
  /\ status[k] # "absent"
  /\ fate[k][a] = "delivered"
  /\ receipt[k] \in {0, a}
  /\ status' = [status EXCEPT ![k] = "accepted"]
  /\ receipt' = [receipt EXCEPT ![k] = a]
  /\ due' = [due EXCEPT ![k] = TRUE]
  /\ UNCHANGED <<attempts, fate, callVars>>

-----------------------------------------------------------------------------
\* The steps of a call after its first transaction, up to its result.
Step(w) ==
  \/ Claim(w) \/ ClaimLost(w) \/ ReadWinner(w)
  \/ Transmit(w) \/ NotTransmitted(w) \/ GiveUp(w) \/ Answered(w) \/ Record(w)

Environment ==
  \E k \in Keys :
    \/ BecomeDue(k)
    \/ \E a \in Attempts : Provider(k, a) \/ ReconcileReceipt(k, a)

Next ==
  \/ \E w \in Workers :
       \/ \E k \in Keys : Enqueue(w, k)
       \/ Step(w) \/ Return(w) \/ Crash(w)
  \/ Environment

Spec == Init /\ [][Next]_outboxVars

-----------------------------------------------------------------------------
(* Properties                                                              *)

\* The customer receives at most one email per key, whatever processes race,
\* crash or lose answers, and however late the provider takes a request.
AtMostOneDelivery ==
  \A k \in Keys : \A a, b \in Attempts :
    fate[k][a] = "delivered" /\ fate[k][b] = "delivered" => a = b

\* A row that the code would retry was never delivered and cannot be any more:
\* no earlier request is still on its way to the provider.
RetryableIsUnsent ==
  \A k \in Keys : \A a \in Attempts :
    status[k] \in {"absent", "prepared", "failed"} => fate[k][a] \in {"none", "refused"}

\* An accepted row references the transmission the provider really took.
AcceptedHasReceipt ==
  \A k \in Keys :
    status[k] = "accepted" => receipt[k] # 0 /\ fate[k][receipt[k]] = "delivered"

\* Process w has claimed key k and has not recorded the outcome yet.
Holding(w, k) == pc[w] \in {"claimed", "calling", "record"} /\ job[w] = k

\* At most one process is between its claim on a key and the record of it.
OneHolder ==
  \A k \in Keys : \A v, w \in Workers : Holding(v, k) /\ Holding(w, k) => v = w

\* A caller told "ok" may apply the acceptance: the email was delivered.
OkMeansDelivered ==
  \A w \in Workers :
    pc[w] = "done" /\ result[w] = "ok"
      => \E a \in Attempts : fate[job[w]][a] = "delivered"

\* An accepted or unknown email never becomes retryable, except by the record
\* of the refusal of its last attempt.
UnknownNeverRetried ==
  [][\A k \in Keys :
       /\ status[k] \in {"sending", "uncertain", "accepted"}
       /\ status'[k] \in {"prepared", "failed"}
       => fate[k][attempts[k]] = "refused"]_outboxVars

\* The outbox implements the promise of OnceEmail.
knownBar ==
  [k \in Keys |-> IF status[k] \in {"absent", "prepared", "failed"} THEN "unsent"
                  ELSE IF status[k] = "accepted" THEN "accepted" ELSE "unknown"]

sentBar == [k \in Keys |-> {a \in Attempts : fate[k][a] = "delivered"}]

Promise == INSTANCE OnceEmail
             WITH Transmissions <- Attempts, known <- knownBar, sent <- sentBar

OnceEmailSpec == Promise!Spec
=============================================================================
