--------------------------- MODULE ApprovalDrafts ---------------------------
(***************************************************************************)
(* The approval inbox of api/billing/routes.py over the issuance of        *)
(* InvoiceIssuance: a draft shows the operator the figure of a period, and *)
(* approving it claims the draft, runs a delivery like any other, and      *)
(* writes what became of it on the draft.                                  *)
(*                                                                         *)
(* The claim, each transaction of the delivery, and the last write commit  *)
(* one by one.  In between the draft may be dismissed or superseded, other *)
(* deliveries of the period may run, and the process may die.              *)
(***************************************************************************)
EXTENDS InvoiceIssuance

CONSTANTS Drafts,    \* the rows of report_drafts
          Period,    \* the obligation each is a draft of
          NoDraft    \* a process that approves nothing

ASSUME DraftsAssumption ==
  /\ Period \in [Drafts -> Ordinary]
  /\ NoDraft \notin Drafts

VARIABLES draft,     \* .status, "absent" without a row
          shown,     \* .amount_usd, the figure under review
          approves,  \* the draft whose approval a process runs
          phase      \* where it is in it, or what the delivery answered

draftVars == <<draft, shown, approves, phase>>
approvalVars == <<draftVars, issuanceVars>>

Phases == {"none", "check", "freeze", "deliver", "ok", "uncertain", "failed"}

ApprovalTypeOK ==
  /\ IssuanceTypeOK
  /\ draft \in [Drafts -> {"absent", "pending", "sending", "held", "sent", "dismissed"}]
  /\ shown \in [Drafts -> Nat]
  /\ approves \in [Workers -> Drafts \cup {NoDraft}]
  /\ phase \in [Workers -> Phases]

ApprovalInit ==
  /\ IssuanceInit
  /\ draft = [d \in Drafts |-> "absent"]
  /\ shown = [d \in Drafts |-> 0]
  /\ approves = [w \in Workers |-> NoDraft]
  /\ phase = [w \in Workers |-> "none"]

\* The figure of a period, computed now; and the one a delivery is to send,
\* which for a frozen period is the frozen one (load_frozen).
Fresh(k) == Gross[k] - Credit(k)
Figure(k) == IF frozen[k] THEN Gross[k] - reserved[k] ELSE Fresh(k)

-----------------------------------------------------------------------------
(* The inbox                                                               *)

\* generate_draft, draft_subscription and the review of a new bill: a pending
\* draft of the period is brought up to date, or else one is made.  Some of
\* the callers dismiss other drafts of the period, or of other periods.
MakeDraft(d) ==
  LET k == Period[d]
      pending == {e \in Drafts : draft[e] = "pending"}
      ofPeriod == {e \in pending : Period[e] = k}
  IN
  /\ d \in ofPeriod \/ (draft[d] = "absent" /\ ofPeriod = {})
  /\ \E old \in {{}, ofPeriod \ {d}, pending \ {d}} :
       draft' = [e \in Drafts |-> IF e = d THEN "pending"
                                  ELSE IF e \in old THEN "dismissed" ELSE draft[e]]
  /\ \E figure \in {Fresh(k), Figure(k)} : shown' = [shown EXCEPT ![d] = figure]
  /\ UNCHANGED <<approves, phase, issuanceVars>>

\* dismiss_draft: anything but a sent draft, one that is being sent included.
Dismiss(d) ==
  /\ draft[d] \notin {"absent", "sent", "dismissed"}
  /\ draft' = [draft EXCEPT ![d] = "dismissed"]
  /\ UNCHANGED <<shown, approves, phase, issuanceVars>>

-----------------------------------------------------------------------------
(* An approval                                                             *)

Reach(w, p) == phase' = [phase EXCEPT ![w] = p]

ClaimAs(w, d) ==
  /\ task[w] = "idle" /\ phase[w] = "none"
  /\ draft' = [draft EXCEPT ![d] = "sending"]
  /\ approves' = [approves EXCEPT ![w] = d]
  /\ Reach(w, "check")
  /\ UNCHANGED <<shown, issuanceVars>>

\* Mutation of Approve: the row is read, and the claim does not look again.
ApproveUnclaimed(w, d) == draft[d] \in {"pending", "sending"} /\ ClaimAs(w, d)

\* approve_draft claims the draft by a conditional UPDATE.
Approve(w, d) == draft[d] = "pending" /\ ClaimAs(w, d)

\* deliver_subscription compares the figure with the one approved, and then
\* the period with the one sent last.
Check(w) ==
  LET d == approves[w] IN
  /\ phase[w] = "check"
  /\ IF Figure(Period[d]) # shown[d] THEN Reach(w, "failed")
     ELSE IF lastPeriod = PeriodEnd[Period[d]] THEN Reach(w, "ok")
     ELSE Reach(w, "freeze")
  /\ UNCHANGED <<draft, shown, approves, issuanceVars>>

\* freeze compares the figure again, unless the period has its snapshot.
FreezeDraft(w) ==
  LET d == approves[w]
      k == Period[d]
  IN
  /\ phase[w] = "freeze"
  /\ \/ (Resume(w, k) /\ Reach(w, "deliver"))
     \/ (Fresh(k) = shown[d] /\ Freeze(w, k) /\ Reach(w, "deliver"))
     \/ /\ ~frozen[k] /\ ~(Fresh(k) = shown[d] /\ Unbilled(k))
        /\ Reach(w, "failed")
        /\ UNCHANGED issuanceVars
  /\ UNCHANGED <<draft, shown, approves>>

\* Mutation of Verdict: a delivery that ends early had nothing left to do.
VerdictEarlyIsOk(w) ==
  CASE task[w] = "sending" -> result[w]
    [] task[w] \in {"accept", "recover"} -> "ok"
    [] OTHER -> "failed"

\* What the delivery answers when it ends in the task where the process is.
Verdict(w) ==
  CASE task[w] = "sending" -> result[w]
    [] task[w] = "accept" -> "ok"
    [] task[w] = "recover" -> "uncertain"
    [] OTHER -> "failed"

DeliverDraft(w) ==
  /\ phase[w] = "deliver"
  /\ Work(w)
  /\ IF task'[w] = "idle" THEN Reach(w, Verdict(w)) ELSE UNCHANGED phase
  /\ UNCHANGED <<draft, shown, approves>>

\* An exception out of the delivery releases the claim, as a refusal does.
Raise(w) ==
  /\ phase[w] \in {"check", "freeze", "deliver"}
  /\ Reach(w, "failed")
  /\ IF task[w] = "idle" THEN UNCHANGED issuanceVars ELSE Die(w)
  /\ UNCHANGED <<draft, shown, approves>>

Leave(w) ==
  /\ approves' = [approves EXCEPT ![w] = NoDraft]
  /\ Reach(w, "none")

\* The last write, whatever the draft has become since the claim.
Answer(w) ==
  /\ phase[w] \in {"ok", "uncertain", "failed"}
  /\ draft' = [draft EXCEPT ![approves[w]] =
                 CASE phase[w] = "ok" -> "sent"
                   [] phase[w] = "uncertain" -> "held"
                   [] phase[w] = "failed" -> "pending"]
  /\ Leave(w)
  /\ UNCHANGED <<shown, issuanceVars>>

\* The process dies in an approval; the draft stays claimed.
Perish(w) ==
  /\ phase[w] # "none"
  /\ Leave(w)
  /\ IF task[w] = "idle" THEN UNCHANGED issuanceVars ELSE Die(w)
  /\ UNCHANGED <<draft, shown>>

Approval(w) ==
  Check(w) \/ FreezeDraft(w) \/ DeliverDraft(w) \/ Raise(w) \/ Answer(w) \/ Perish(w)

-----------------------------------------------------------------------------
(* The rest of issuance                                                    *)

\* A process that approves nothing sweeps, retries, delivers and so on.
Elsewhere(w) ==
  /\ phase[w] = "none"
  /\ \/ Deliver(w) \/ Work(w) \/ Die(w)
     \/ \E k \in Keys : RetryDispatch(w, k) \/ OperatorReceipt(w, k)
  /\ UNCHANGED draftVars

SweepBy(w, k) == phase[w] = "none" /\ Sweep(w, k) /\ UNCHANGED draftVars

Around ==
  /\ Outside \/ \E k \in Keys : QueuePeriod(k) \/ Repair(k)
  /\ UNCHANGED draftVars

ApprovalNext ==
  \/ \E d \in Drafts : MakeDraft(d) \/ Dismiss(d) \/ \E w \in Workers : Approve(w, d)
  \/ \E w \in Workers : Approval(w) \/ Elsewhere(w) \/ \E k \in Keys : SweepBy(w, k)
  \/ Around

ApprovalSpec == ApprovalInit /\ [][ApprovalNext]_approvalVars

-----------------------------------------------------------------------------
(* Properties                                                              *)

\* A second approval, of a double click or a client's retry, does not deliver
\* beside the first, though drafts are released, dismissed and made again.
ApprovalIsExclusive ==
  \A v, w \in Workers : v # w /\ approves[v] # NoDraft => approves[v] # approves[w]

\* A draft reads "sent" only if an invoice that ends with its period was
\* delivered and is on the books, also when the approval found it sent by
\* somebody else, and when one draft too many was approved.
SentIsOnTheBooks ==
  \A d \in Drafts :
    draft[d] = "sent"
      => \E k \in Ordinary : /\ PeriodEnd[k] = PeriodEnd[Period[d]]
                             /\ applied[k]
                             /\ \E a \in Attempts : fate[k][a] = "delivered"

\* "The figure the operator approved is the figure that sends" (approve_draft).
ApprovedFigureSends ==
  \A d \in Drafts :
    draft[d] = "sent" => shown[d] = Gross[Period[d]] - reserved[Period[d]]
=============================================================================
