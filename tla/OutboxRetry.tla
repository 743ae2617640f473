---------------------------- MODULE OutboxRetry ----------------------------
(***************************************************************************)
(* The minutely retry job over EmailOutbox, api/billing/dispatch.py.       *)
(*                                                                         *)
(* The job passes over rows whose tenant is missing, paused, or not        *)
(* active; and over invoice rows whose subscription is missing, deleted or *)
(* disabled.  Operators change these at any time.  While a row is passed   *)
(* over it rests as it is, prepared or failed, for as long as that lasts.  *)
(***************************************************************************)
EXTENDS EmailOutbox

VARIABLE skipped     \* the keys the retry job passes over

retryVars == <<skipped, outboxVars>>

RetryInit == Init /\ skipped = {}

\* The tenant or the subscription of a key is paused, disabled or deleted, or
\* taken up again.
ChangeScope(k) ==
  /\ skipped' = IF k \in skipped THEN skipped \ {k} ELSE skipped \cup {k}
  /\ UNCHANGED outboxVars

RetryNext ==
  \/ Next /\ UNCHANGED skipped
  \/ \E k \in Keys : ChangeScope(k)

RetrySpec == RetryInit /\ [][RetryNext]_retryVars

\* Mutation of RetryDue: refused rows are left to their next delivery.
RetryPrepared(w, k) ==
  /\ status[k] = "prepared" /\ Claimable(k)
  /\ Enqueue(w, k)
  /\ UNCHANGED skipped

\* retry_due_dispatches calls send_email_once for a row that is due.
RetryDue(w, k) ==
  /\ status[k] # "absent" /\ Claimable(k)
  /\ Enqueue(w, k)
  /\ UNCHANGED skipped

\* The job runs every minute over all due rows, oldest first, and those that
\* it passes over take no place of others.  So a row it has stopped passing
\* over is picked up again and again as long as it stays due; about the rest
\* nothing is promised.  A process that keeps reaching the rate gate gets its
\* turn (it does not crash there for ever), every call that runs on goes on,
\* and back-offs end.
Fairness ==
  /\ \A k \in Keys :
       /\ <>[](k \notin skipped) => SF_retryVars(\E w \in Workers : RetryDue(w, k))
       /\ WF_retryVars(BecomeDue(k) /\ UNCHANGED skipped)
  /\ \A w \in Workers :
       /\ SF_retryVars(Claim(w) /\ UNCHANGED skipped)
       /\ WF_retryVars(Step(w) /\ UNCHANGED skipped)
       /\ WF_retryVars(Return(w) /\ UNCHANGED skipped)

FairSpec == RetrySpec /\ Fairness

-----------------------------------------------------------------------------
(* Properties                                                              *)

Retryable(k) == status[k] \in {"prepared", "failed"} /\ attempts[k] < MaxAttempts

\* An email that the retry job has stopped passing over does not wait in the
\* outbox for ever: after finitely many attempts its row is accepted, held as
\* uncertain, or out of attempts, whoever crashed or lost the row to another.
\* An email passed over for good rests where it is (mailroom.outgoing_items).
EventuallyAtRest ==
  \A k \in Keys : <>[](k \notin skipped) => <>[]~Retryable(k)
=============================================================================
