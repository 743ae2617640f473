---------------------------- MODULE BillingRuns ----------------------------
(***************************************************************************)
(* The daily billing runs of api/scheduler.py over ApprovalDrafts.         *)
(*                                                                         *)
(* A run takes the enabled, undeleted subscriptions of its cadence, whose  *)
(* operator is active, comped or on trial and has not paused sending; and  *)
(* sweeps those that have a creation date.  All of that may change at any  *)
(* time.  While the subscription is not taken, an acceptance that was not  *)
(* booked waits for the operator: a manual send, an audit, a receipt.      *)
(***************************************************************************)
EXTENDS ApprovalDrafts

VARIABLE taken     \* the daily runs take the subscription

runsVars == <<taken, approvalVars>>

RunsInit == ApprovalInit /\ taken \in BOOLEAN

\* The operator pauses, disables, deletes or moves to another cadence, and back.
Change ==
  /\ taken' = ~taken
  /\ UNCHANGED approvalVars

\* A run selects its subscriptions first, so it may yet sweep one that changes.
RunsNext ==
  \/ ApprovalNext /\ UNCHANGED taken
  \/ Change

RunsSpec == RunsInit /\ [][RunsNext]_runsVars

\* A sweep of the invoice k of the subscription; the acceptance of k applied,
\* by whichever process works on it; and a step of a process that approves
\* nothing.
SweepOf(k) == UNCHANGED taken /\ \E w \in Workers : SweepBy(w, k)

Accepting(w, k) ==
  /\ target[w] = k
  /\ \/ (phase[w] = "none" /\ Accept(w) /\ UNCHANGED draftVars)
     \/ (DeliverDraft(w) /\ task[w] = "accept")
  /\ UNCHANGED taken

Alone(w) == phase[w] = "none" /\ (Work(w) \/ Die(w)) /\ UNCHANGED <<draftVars, taken>>

\* The daily run sweeps every invoice of a subscription that it takes again
\* and again, once it does not stop taking it.  A process that is to apply an
\* acceptance does not die at it for ever, and one that is in the middle of a
\* delivery or an approval goes on or dies.
RunsFairness ==
  /\ \A k \in Keys :
       /\ <>[]taken => SF_runsVars(SweepOf(k))
       /\ SF_runsVars(\E w \in Workers : Accepting(w, k))
  /\ \A w \in Workers :
       /\ WF_runsVars(Approval(w) /\ UNCHANGED taken)
       /\ WF_runsVars(Alone(w))

FairRunsSpec == RunsSpec /\ RunsFairness

-----------------------------------------------------------------------------
(* Properties                                                              *)

\* An acceptance that the outbox keeps is applied in the end, whatever died
\* between the email and its bookkeeping, and then stays on record; provided
\* that the subscription is taken by the daily runs from some day on.
AcceptanceApplied ==
  <>[]taken =>
    \A k \in Keys :
      <>[](status[k] = "accepted") => <>[](invoice[k] = "accepted" /\ applied[k])
=============================================================================
