------------------------ MODULE ApprovalDraftsProofs ------------------------
(***************************************************************************)
(* Proofs about ApprovalDrafts for any drafts, obligations and processes.  *)
(*                                                                         *)
(* The argument: an approval does to the invoices only what a delivery     *)
(* does, so that everything proved of InvoiceIssuance holds with the inbox *)
(* in front of it.  A draft that a process approves is sending or          *)
(* dismissed, hence not pending, and nobody else can claim it (InHand).  A *)
(* process that is to answer "ok" has seen its period on the books, where  *)
(* it stays (Truthful).                                                    *)
(***************************************************************************)
EXTENDS ApprovalDrafts, InvoiceIssuanceProofs

\* An invoice that ends with the period of k is applied.
Booked(k) == \E j \in Ordinary : PeriodEnd[j] = PeriodEnd[k] /\ applied[j]

\* The drafts, the approvals and the deliveries in them agree.
InHand ==
  \A w \in Workers :
    /\ approves[w] = NoDraft <=> phase[w] = "none"
    /\ approves[w] # NoDraft => draft[approves[w]] \in {"sending", "dismissed"}
    /\ phase[w] \notin {"none", "deliver"} => task[w] = "idle"
    /\ phase[w] = "deliver" => task[w] # "idle" /\ target[w] = Period[approves[w]]

\* What is answered, or was, is on the books.
Truthful ==
  /\ \A d \in Drafts : draft[d] = "sent" => Booked(Period[d])
  /\ \A w \in Workers : phase[w] = "ok" => Booked(Period[approves[w]])

\* No reservation exceeds its invoice, so no figure is negative.
Within == \A k \in Keys : reserved[k] <= Gross[k]

ApprovalInv ==
  /\ IssuanceInv
  /\ Within
  /\ ApprovalTypeOK
  /\ InHand
  /\ ApprovalIsExclusive
  /\ Truthful

-----------------------------------------------------------------------------
(* The inbox in front of the issuance                                      *)

\* A step with the inbox is a step of the issuance, or none of it.
LEMMA ApprovalStepsAreIssuance ==
  ApprovalTypeOK /\ InHand /\ [ApprovalNext]_approvalVars => [IssuanceNext]_issuanceVars
<1> SUFFICES ASSUME ApprovalTypeOK, InHand, [ApprovalNext]_approvalVars
             PROVE  IssuanceNext \/ UNCHANGED issuanceVars
  OBVIOUS
<1>1. ASSUME NEW d \in Drafts, NEW w \in Workers, MakeDraft(d) \/ Dismiss(d) \/ Approve(w, d)
      PROVE  UNCHANGED issuanceVars
  BY <1>1 DEF MakeDraft, Dismiss, Approve, ClaimAs
<1>2. ASSUME NEW w \in Workers, Approval(w)
      PROVE  Deliver(w) \/ Work(w) \/ Die(w) \/ UNCHANGED issuanceVars
  <2>1. CASE FreezeDraft(w)
    <3>1. Period[approves[w]] \in Keys
      BY <2>1, DraftsAssumption DEF FreezeDraft, ApprovalTypeOK, InHand, Ordinary
    <3>2. QED
      BY <2>1, <3>1 DEF FreezeDraft, Deliver
  <2>2. CASE Check(w) \/ DeliverDraft(w) \/ Raise(w) \/ Answer(w) \/ Perish(w)
    BY <2>2 DEF Check, DeliverDraft, Raise, Answer, Perish
  <2>3. QED
    BY <1>2, <2>1, <2>2 DEF Approval
<1>3. ASSUME NEW w \in Workers, Elsewhere(w) \/ \E k \in Keys : SweepBy(w, k)
      PROVE  IssuanceNext
  BY <1>3 DEF Elsewhere, SweepBy, IssuanceNext
<1>4. CASE Around
  BY <1>4 DEF Around, IssuanceNext
<1>5. CASE UNCHANGED approvalVars
  BY <1>5 DEF approvalVars
<1>6. CASE \E d \in Drafts : MakeDraft(d) \/ Dismiss(d)
  BY <1>6 DEF MakeDraft, Dismiss
<1>7. QED
  BY <1>1, <1>2, <1>3, <1>4, <1>5, <1>6 DEF ApprovalNext, IssuanceNext

-----------------------------------------------------------------------------
(* What a process may do to the tasks                                      *)

\* A process moves only its own task, and keeps its target till the end.
LEMMA OwnTask ==
  ASSUME IssuanceTypeOK, NEW v \in Workers,
         \/ Deliver(v) \/ Work(v) \/ Die(v)
         \/ \E k \in Keys : RetryDispatch(v, k) \/ Sweep(v, k) \/ OperatorReceipt(v, k)
  PROVE  \A w \in Workers \ {v} : task'[w] = task[w] /\ target'[w] = target[w]
<1>1. CASE \/ Deliver(v)
           \/ \E k \in Keys : RetryDispatch(v, k) \/ Sweep(v, k) \/ OperatorReceipt(v, k)
  BY <1>1 DEF Deliver, Freeze, Resume, RetryDispatch, Sweep, OperatorReceipt, Begin,
              IssuanceTypeOK
<1>2. CASE Work(v) \/ Die(v)
  BY <1>2 DEF Work, Recover, PayLinkReady, HoldRead, HoldWrite, SendCall, OutboxStep,
              Finish, Accept, Die, Goto, End, taskVars, IssuanceTypeOK
<1>3. QED
  BY <1>1, <1>2

LEMMA WorkKeepsTarget ==
  ASSUME IssuanceTypeOK, NEW v \in Workers, Work(v)
  PROVE  task[v] # "idle" /\ (task'[v] = "idle" \/ target'[v] = target[v])
  BY DEF Work, Recover, PayLinkReady, HoldRead, HoldWrite, SendCall, OutboxStep,
         Finish, Accept, Goto, End, taskVars, IssuanceTypeOK

LEMMA DieIsIdle ==
  ASSUME IssuanceTypeOK, NEW v \in Workers, Die(v)
  PROVE  task'[v] = "idle"
  BY DEF Die, End, IssuanceTypeOK

\* A process that begins a delivery is at its first step.
LEMMA BeginIsBusy ==
  ASSUME IssuanceTypeOK, NEW v \in Workers, NEW k \in Keys, Freeze(v, k) \/ Resume(v, k)
  PROVE  task'[v] # "idle" /\ target'[v] = k
  BY DEF Freeze, Resume, Begin, IssuanceTypeOK

\* A delivery that ends answers one of three things.
LEMMA VerdictKnown ==
  ASSUME IssuanceInv, NEW v \in Workers, Work(v), task'[v] = "idle"
  PROVE  Verdict(v) \in {"ok", "uncertain", "failed"}
<1>1. CASE task[v] = "sending"
  <2>1. Finish(v)
    BY <1>1 DEF Work, Recover, PayLinkReady, HoldRead, HoldWrite, SendCall, OutboxStep,
                Accept, taskVars
  <2>2. QED
    BY <1>1, <2>1, FinishResult DEF IssuanceInv, Verdict
<1>2. CASE task[v] # "sending"
  BY <1>2 DEF Verdict
<1>3. QED
  BY <1>1, <1>2

-----------------------------------------------------------------------------
(* Types                                                                   *)

LEMMA ApprovalTypingInit == ApprovalInit => ApprovalTypeOK
  BY IssuanceTypingInit DEF ApprovalInit, ApprovalTypeOK, Phases

LEMMA FiguresAreNat ==
  ASSUME IssuanceInv, Within, NEW k \in Keys
  PROVE  Fresh(k) \in Nat /\ Figure(k) \in Nat
<1>1. Gross[k] \in Nat /\ reserved[k] \in Nat /\ pendingCredit \in Nat
  BY AmountsAssumption DEF IssuanceInv, IssuanceTypeOK
<1>2. Credit(k) \in Nat /\ Credit(k) <= Gross[k]
  BY <1>1, CreditBounds
<1>3. Fresh(k) \in Nat
  BY <1>1, <1>2 DEF Fresh
<1>4. QED
  BY <1>1, <1>3 DEF Figure, Within

LEMMA WithinStep ==
  ASSUME IssuanceInv, Within, [IssuanceNext]_issuanceVars
  PROVE  Within'
<1>1. ASSUME UNCHANGED reserved
      PROVE  Within'
  BY <1>1 DEF Within
<1>2. ASSUME NEW w \in Workers, NEW k \in Keys, Freeze(w, k)
      PROVE  Within'
  <2>1. reserved' = [reserved EXCEPT ![k] = Credit(k)] /\ Credit(k) <= Gross[k]
    BY <1>2, CreditBounds DEF Freeze, FreezeRow, IssuanceInv, IssuanceTypeOK
  <2>2. QED
    BY <2>1 DEF Within, IssuanceInv, IssuanceTypeOK
<1>3. CASE Finishing \/ Holds \/ UNCHANGED <<obligationVars, subscriptionVars>>
           \/ UNCHANGED issuanceVars
  BY <1>1, <1>3 DEF Finishing, finishFrame, Holds, obligationVars, issuanceVars
<1>4. QED
  BY <1>2, <1>3, FourWays

LEMMA ApprovalTypingStep ==
  ASSUME ApprovalInv, IssuanceTypeOK', [ApprovalNext]_approvalVars
  PROVE  ApprovalTypeOK'
<1> USE DEF ApprovalInv, ApprovalTypeOK, Phases
<1>1. ASSUME NEW d \in Drafts, MakeDraft(d)
      PROVE  ApprovalTypeOK'
  <2>1. Fresh(Period[d]) \in Nat /\ Figure(Period[d]) \in Nat
    BY FiguresAreNat, DraftsAssumption DEF Ordinary
  <2>2. shown' \in [Drafts -> Nat]
    BY <1>1, <2>1 DEF MakeDraft
  <2>3. draft' \in [Drafts -> {"absent", "pending", "sending", "held", "sent", "dismissed"}]
    BY <1>1 DEF MakeDraft
  <2>4. QED
    BY <1>1, <2>2, <2>3 DEF MakeDraft
<1>2. ASSUME NEW d \in Drafts, NEW w \in Workers, Dismiss(d) \/ Approve(w, d)
      PROVE  ApprovalTypeOK'
  BY <1>2 DEF Dismiss, Approve, ClaimAs, Reach
<1>3. ASSUME NEW w \in Workers, Check(w) \/ FreezeDraft(w) \/ Raise(w) \/ Answer(w) \/ Perish(w)
      PROVE  ApprovalTypeOK'
  BY <1>3 DEF Check, FreezeDraft, Raise, Answer, Perish, Reach, Leave
<1>4. ASSUME NEW w \in Workers, DeliverDraft(w)
      PROVE  ApprovalTypeOK'
  <2>1. phase' \in [Workers -> Phases]
    BY <1>4, VerdictKnown DEF DeliverDraft, Reach
  <2>2. QED
    BY <1>4, <2>1 DEF DeliverDraft
<1>5. CASE \/ \E w \in Workers : Elsewhere(w) \/ \E k \in Keys : SweepBy(w, k)
           \/ Around \/ UNCHANGED approvalVars
  BY <1>5 DEF Elsewhere, SweepBy, Around, draftVars, approvalVars
<1>6. CASE \E d \in Drafts : Dismiss(d)
  BY <1>6 DEF Dismiss
<1>7. QED
  BY <1>1, <1>2, <1>3, <1>4, <1>5, <1>6 DEF ApprovalNext, Approval

-----------------------------------------------------------------------------
(* Drafts in hand                                                          *)

\* A step that leaves the inbox and the tasks of approving processes alone.
LEMMA InHandFrame ==
  ASSUME InHand, ApprovalIsExclusive, UNCHANGED draftVars,
         \A w \in Workers : phase[w] # "none" => task'[w] = task[w] /\ target'[w] = target[w]
  PROVE  InHand' /\ ApprovalIsExclusive'
  BY DEF InHand, ApprovalIsExclusive, draftVars

\* What one step of an approval does to it, and what it leaves alone.
LEMMA ApprovalMoves ==
  ASSUME IssuanceInv, ApprovalTypeOK, InHand, NEW w \in Workers, Approval(w)
  PROVE  /\ approves[w] \in Drafts
         /\ \A v \in Workers \ {w} : /\ task'[v] = task[v] /\ target'[v] = target[v]
                                     /\ phase'[v] = phase[v] /\ approves'[v] = approves[v]
         /\ \A d \in Drafts \ {approves[w]} : draft'[d] = draft[d]
         /\ \/ /\ UNCHANGED <<draft, approves>>
               /\ phase'[w] # "none"
               /\ phase'[w] # "deliver" => task'[w] = "idle"
               /\ phase'[w] = "deliver" => task'[w] # "idle" /\ target'[w] = Period[approves[w]]
            \/ approves'[w] = NoDraft /\ phase'[w] = "none"
<1> USE DEF ApprovalTypeOK, InHand
<1> DEFINE Others == \A v \in Workers \ {w} : task'[v] = task[v] /\ target'[v] = target[v]
<1>1. approves[w] \in Drafts
  BY DEF Approval, Check, FreezeDraft, DeliverDraft, Raise, Answer, Perish
<1>2. Period[approves[w]] \in Keys
  BY <1>1, DraftsAssumption DEF Ordinary
<1>3. ASSUME UNCHANGED issuanceVars
      PROVE  Others /\ task'[w] = task[w]
  BY <1>3 DEF issuanceVars, taskVars
<1>4. CASE Check(w)
  <2>1. Others /\ task'[w] = "idle" /\ UNCHANGED <<draft, approves>>
    BY <1>3, <1>4 DEF Check
  <2>2. \E p \in {"failed", "ok", "freeze"} : phase' = [phase EXCEPT ![w] = p]
    BY <1>4 DEF Check, Reach
  <2>3. QED
    BY <1>1, <2>1, <2>2
<1>5. CASE FreezeDraft(w)
  <2>1. CASE Reach(w, "failed") /\ UNCHANGED issuanceVars
    <3>1. Others /\ task'[w] = "idle" /\ UNCHANGED <<draft, approves>>
      BY <1>3, <1>5, <2>1 DEF FreezeDraft
    <3>2. QED
      BY <1>1, <2>1, <3>1 DEF Reach
  <2>2. CASE /\ Resume(w, Period[approves[w]]) \/ Freeze(w, Period[approves[w]])
             /\ Reach(w, "deliver")
    <3>1. Others /\ task'[w] # "idle" /\ target'[w] = Period[approves[w]]
      BY <1>2, <2>2, OwnTask, BeginIsBusy DEF IssuanceInv, Deliver
    <3>2. UNCHANGED <<draft, approves>> /\ phase' = [phase EXCEPT ![w] = "deliver"]
      BY <1>5, <2>2 DEF FreezeDraft, Reach
    <3>3. QED
      BY <1>1, <3>1, <3>2
  <2>3. QED
    BY <1>5, <2>1, <2>2 DEF FreezeDraft
<1>6. CASE DeliverDraft(w)
  <2>1. Others
    BY <1>2, <1>6, OwnTask DEF DeliverDraft, IssuanceInv
  <2>2. UNCHANGED <<draft, approves>> /\ phase[w] = "deliver" /\ Work(w)
    BY <1>6 DEF DeliverDraft
  <2>3. task'[w] = "idle" \/ target'[w] = Period[approves[w]]
    BY <2>2, WorkKeepsTarget DEF IssuanceInv
  <2>4. CASE task'[w] = "idle"
    <3>1. Verdict(w) \in {"ok", "uncertain", "failed"} /\ phase' = [phase EXCEPT ![w] = Verdict(w)]
      BY <1>6, <2>2, <2>4, VerdictKnown DEF DeliverDraft, Reach
    <3>2. QED
      BY <1>1, <2>1, <2>2, <2>4, <3>1
  <2>5. CASE task'[w] # "idle"
    <3>1. UNCHANGED phase
      BY <1>6, <2>5 DEF DeliverDraft
    <3>2. QED
      BY <1>1, <2>1, <2>2, <2>3, <2>5, <3>1
  <2>6. QED
    BY <2>4, <2>5
<1>7. CASE Raise(w) \/ Perish(w)
  <2>1. Others /\ task'[w] = "idle"
    <3>1. CASE task[w] = "idle" /\ UNCHANGED issuanceVars
      BY <1>3, <3>1
    <3>2. CASE Die(w)
      BY <1>2, <3>2, OwnTask, DieIsIdle DEF IssuanceInv
    <3>3. QED
      BY <1>7, <3>1, <3>2 DEF Raise, Perish
  <2>2. UNCHANGED draft
    BY <1>7 DEF Raise, Perish
  <2>3. CASE Raise(w)
    BY <1>1, <2>1, <2>2, <2>3 DEF Raise, Reach
  <2>4. CASE Perish(w)
    BY <1>1, <2>1, <2>2, <2>4 DEF Perish, Leave, Reach
  <2>5. QED
    BY <1>7, <2>3, <2>4
<1>8. CASE Answer(w)
  <2>1. Others
    BY <1>3, <1>8 DEF Answer
  <2>2. QED
    BY <1>1, <1>8, <2>1 DEF Answer, Leave, Reach
<1>9. QED
  BY <1>4, <1>5, <1>6, <1>7, <1>8 DEF Approval

LEMMA InHandStep ==
  ASSUME ApprovalInv, ApprovalTypeOK', [ApprovalNext]_approvalVars
  PROVE  InHand' /\ ApprovalIsExclusive'
<1> USE DEF ApprovalInv, ApprovalTypeOK, InHand, ApprovalIsExclusive
<1>1. ASSUME NEW d \in Drafts, MakeDraft(d) \/ Dismiss(d)
      PROVE  InHand' /\ ApprovalIsExclusive'
  <2>1. UNCHANGED <<approves, phase, task, target>>
    BY <1>1 DEF MakeDraft, Dismiss, issuanceVars, taskVars
  <2>2. \A e \in Drafts : draft[e] \in {"sending", "dismissed"}
                            => draft'[e] \in {"sending", "dismissed"}
    BY <1>1 DEF MakeDraft, Dismiss
  <2>3. QED
    BY <2>1, <2>2
<1>2. ASSUME NEW d \in Drafts, NEW w \in Workers, Approve(w, d)
      PROVE  InHand' /\ ApprovalIsExclusive'
  <2>1. UNCHANGED <<task, target>>
    BY <1>2 DEF Approve, ClaimAs, issuanceVars, taskVars
  <2>2. \A v \in Workers : approves[v] # d
    BY <1>2, DraftsAssumption DEF Approve
  <2>3. /\ phase[w] = "none" /\ task[w] = "idle" /\ d # NoDraft
        /\ draft' = [draft EXCEPT ![d] = "sending"]
        /\ approves' = [approves EXCEPT ![w] = d]
        /\ phase' = [phase EXCEPT ![w] = "check"]
    BY <1>2, DraftsAssumption DEF Approve, ClaimAs, Reach
  <2>4. ApprovalIsExclusive'
    BY <2>2, <2>3
  <2>5. InHand'
    BY <2>1, <2>2, <2>3
  <2>6. QED
    BY <2>4, <2>5
<1>3. ASSUME NEW w \in Workers, Approval(w)
      PROVE  InHand' /\ ApprovalIsExclusive'
  <2>1. \A v \in Workers \ {w} : /\ task'[v] = task[v] /\ target'[v] = target[v]
                                 /\ phase'[v] = phase[v] /\ approves'[v] = approves[v]
    BY <1>3, ApprovalMoves
  <2>2. approves'[w] \in {approves[w], NoDraft} /\ approves[w] # NoDraft
    BY <1>3, ApprovalMoves, DraftsAssumption
  <2>3. ApprovalIsExclusive'
    BY <2>1, <2>2
  <2>4. \A v \in Workers \ {w} : approves'[v] # NoDraft => draft'[approves'[v]] = draft[approves[v]]
    BY <1>3, <2>1, <2>2, ApprovalMoves
  <2>5. /\ approves'[w] = NoDraft <=> phase'[w] = "none"
        /\ approves'[w] # NoDraft => draft'[approves'[w]] \in {"sending", "dismissed"}
        /\ phase'[w] \notin {"none", "deliver"} => task'[w] = "idle"
        /\ phase'[w] = "deliver" => task'[w] # "idle" /\ target'[w] = Period[approves'[w]]
    BY <1>3, ApprovalMoves, DraftsAssumption
  <2>6. QED
    BY <2>1, <2>3, <2>4, <2>5
<1>4. ASSUME NEW w \in Workers, Elsewhere(w) \/ \E k \in Keys : SweepBy(w, k)
      PROVE  InHand' /\ ApprovalIsExclusive'
  <2>1. \A v \in Workers \ {w} : task'[v] = task[v] /\ target'[v] = target[v]
    BY <1>4, OwnTask DEF Elsewhere, SweepBy, IssuanceInv
  <2>2. phase[w] = "none" /\ UNCHANGED draftVars
    BY <1>4 DEF Elsewhere, SweepBy
  <2>3. QED
    BY <2>1, <2>2, InHandFrame
<1>5. CASE Around \/ UNCHANGED approvalVars
  <2>1. UNCHANGED <<draftVars, task, target>>
    BY <1>5 DEF Around, Outside, QueuePeriod, Repair, approvalVars, issuanceVars, taskVars
  <2>2. QED
    BY <2>1, InHandFrame
<1>6. QED
  BY <1>1, <1>2, <1>3, <1>4, <1>5 DEF ApprovalNext

-----------------------------------------------------------------------------
(* What is on the books                                                    *)

LEMMA AppliedStays ==
  ASSUME IssuanceInv, [IssuanceNext]_issuanceVars, NEW k \in Keys, applied[k]
  PROVE  applied'[k]
<1>1. CASE UNCHANGED applied
  BY <1>1
<1>2. CASE Finishing
  <2>1. PICK j \in Keys, r \in {"ok", "uncertain", "failed"}, overtaken \in BOOLEAN :
               FinishLocked(j, r, overtaken)
    BY <1>2 DEF Finishing
  <2>2. QED
    BY <2>1, MarkedLatest DEF IssuanceInv
<1>3. ASSUME NEW w \in Workers, NEW j \in Keys, Freeze(w, j)
      PROVE  applied'[k]
  BY <1>1, <1>3 DEF Freeze, FreezeRow
<1>4. CASE Holds \/ UNCHANGED <<obligationVars, subscriptionVars>> \/ UNCHANGED issuanceVars
  BY <1>1, <1>4 DEF Holds, obligationVars, issuanceVars
<1>5. QED
  BY <1>2, <1>3, <1>4, FourWays

\* Booked, after the step.
StillBooked(k) == \E j \in Ordinary : PeriodEnd[j] = PeriodEnd[k] /\ applied'[j]

LEMMA BookedStays ==
  ASSUME IssuanceInv, [IssuanceNext]_issuanceVars, NEW k, Booked(k)
  PROVE  StillBooked(k)
  BY AppliedStays DEF Booked, StillBooked, Ordinary

\* A delivery that ends with "ok" has put its obligation on the books.
LEMMA OkIsApplied ==
  ASSUME IssuanceInv, NEW w \in Workers, Work(w), task'[w] = "idle", Verdict(w) = "ok"
  PROVE  target[w] \in Keys /\ applied'[target[w]]
<1> USE DEF IssuanceInv
<1>1. task[w] = "accept" \/ (task[w] = "sending" /\ result[w] = "ok")
  BY DEF Verdict
<1>2. target[w] \in Keys
  BY <1>1 DEF Coupled
<1>3. FinishLocked(target[w], "ok", FALSE)
  <2>1. CASE task[w] = "accept"
    BY <2>1 DEF Work, Recover, PayLinkReady, HoldRead, HoldWrite, SendCall, OutboxStep,
                Finish, Accept
  <2>2. CASE task[w] = "sending" /\ result[w] = "ok"
    BY <2>2 DEF Work, Recover, PayLinkReady, HoldRead, HoldWrite, SendCall, OutboxStep,
                Finish, Accept, taskVars
  <2>3. QED
    BY <1>1, <2>1, <2>2
<1>4. QED
  BY <1>2, <1>3 DEF FinishLocked, IssuanceTypeOK

LEMMA TruthfulStep ==
  ASSUME ApprovalInv, ApprovalTypeOK', InHand', [ApprovalNext]_approvalVars
  PROVE  Truthful'
<1> USE DEF ApprovalInv, ApprovalTypeOK
<1> SUFFICES /\ \A d \in Drafts : draft'[d] = "sent" => StillBooked(Period[d])
             /\ \A w \in Workers : phase'[w] = "ok" => StillBooked(Period[approves'[w]])
  BY DEF Truthful, Booked, StillBooked
<1> DEFINE Sent(d) == draft'[d] = "sent" => StillBooked(Period[d])
           Ok(w) == phase'[w] = "ok" => StillBooked(Period[approves'[w]])
<1>1. \A k : Booked(k) => StillBooked(k)
  BY ApprovalStepsAreIssuance, BookedStays
<1>2. ASSUME NEW d \in Drafts, draft'[d] = "sent" => draft[d] = "sent"
      PROVE  Sent(d)
  BY <1>1, <1>2 DEF Truthful
<1>3. ASSUME NEW w \in Workers, phase'[w] = phase[w], approves'[w] = approves[w]
      PROVE  Ok(w)
  BY <1>1, <1>3 DEF Truthful
<1>4. CASE \E d \in Drafts : \/ MakeDraft(d) \/ Dismiss(d)
                             \/ \E w \in Workers : Approve(w, d)
  <2>1. PICK e \in Drafts : \/ MakeDraft(e) \/ Dismiss(e)
                            \/ \E w \in Workers : Approve(w, e)
    BY <1>4
  <2>2. \A d \in Drafts : draft'[d] = "sent" => draft[d] = "sent"
    BY <2>1 DEF MakeDraft, Dismiss, Approve, ClaimAs
  <2>3. \A w \in Workers : \/ phase'[w] = phase[w] /\ approves'[w] = approves[w]
                           \/ phase'[w] = "check"
    BY <2>1 DEF MakeDraft, Dismiss, Approve, ClaimAs, Reach
  <2>4. QED
    BY <1>2, <1>3, <2>2, <2>3
<1>5. ASSUME NEW w \in Workers, Approval(w)
      PROVE  /\ \A d \in Drafts : Sent(d)
             /\ \A v \in Workers : Ok(v)
  <2>1. /\ approves[w] \in Drafts
        /\ \A v \in Workers \ {w} : phase'[v] = phase[v] /\ approves'[v] = approves[v]
        /\ \A d \in Drafts \ {approves[w]} : draft'[d] = draft[d]
        /\ approves'[w] = approves[w] \/ phase'[w] = "none"
    BY <1>5, ApprovalMoves
  <2>2. draft'[approves[w]] = "sent" => draft[approves[w]] = "sent" \/ phase[w] = "ok"
    BY <1>5, <2>1 DEF Approval, Check, FreezeDraft, DeliverDraft, Raise, Answer, Perish
  <2>3. Sent(approves[w])
    BY <1>1, <2>1, <2>2 DEF Truthful
  <2>4. phase'[w] = "ok"
          => \/ phase[w] = "check" /\ lastPeriod = PeriodEnd[Period[approves[w]]]
             \/ Work(w) /\ phase[w] = "deliver" /\ task'[w] = "idle" /\ Verdict(w) = "ok"
    BY <1>5 DEF Approval, Check, FreezeDraft, DeliverDraft, Raise, Answer, Perish, Leave, Reach
  <2>5. Period[approves[w]] \in Ordinary /\ PeriodEnd[Period[approves[w]]] # 0
    BY <2>1, DraftsAssumption, ObligationsAssumption DEF Ordinary
  <2>6. CASE lastPeriod = PeriodEnd[Period[approves[w]]]
    <3>1. Booked(Period[approves[w]])
      BY <2>5, <2>6 DEF IssuanceInv, LatestSendIsReal, Booked
    <3>2. QED
      BY <1>1, <1>2, <1>3, <2>1, <2>3, <3>1
  <2>7. CASE Work(w) /\ phase[w] = "deliver" /\ task'[w] = "idle" /\ Verdict(w) = "ok"
    <3>1. applied'[target[w]] /\ target[w] = Period[approves[w]]
      BY <2>7, OkIsApplied DEF InHand
    <3>2. StillBooked(Period[approves[w]])
      BY <2>5, <3>1 DEF StillBooked
    <3>3. QED
      BY <1>2, <1>3, <2>1, <2>3, <3>2
  <2>8. QED
    BY <1>2, <1>3, <2>1, <2>3, <2>4, <2>6, <2>7
<1>6. CASE UNCHANGED draftVars
  BY <1>2, <1>3, <1>6 DEF draftVars
<1>7. QED
  BY <1>4, <1>5, <1>6 DEF ApprovalNext, Elsewhere, SweepBy, Around, approvalVars

-----------------------------------------------------------------------------
(* The theorems                                                            *)

LEMMA ApprovalInvInit == ApprovalInit => ApprovalInv
<1> SUFFICES ASSUME ApprovalInit
             PROVE  ApprovalInv
  OBVIOUS
<1>1. IssuanceInv /\ ApprovalTypeOK
  BY IssuanceInvInit, ApprovalTypingInit DEF ApprovalInit
<1>2. Within
  <2> SUFFICES ASSUME NEW k \in Keys
               PROVE  reserved[k] <= Gross[k]
    BY DEF Within
  <2>1. reserved[k] = 0
    BY DEF ApprovalInit, IssuanceInit
  <2>2. Gross[k] \in Nat
    BY AmountsAssumption
  <2>3. QED
    BY <2>1, <2>2
<1>3. InHand /\ ApprovalIsExclusive
  BY DEF ApprovalInit, InHand, ApprovalIsExclusive
<1>4. Truthful
  BY DEF ApprovalInit, Truthful
<1>5. QED
  BY <1>1, <1>2, <1>3, <1>4 DEF ApprovalInv

LEMMA ApprovalInvStep == ApprovalInv /\ [ApprovalNext]_approvalVars => ApprovalInv'
<1> SUFFICES ASSUME ApprovalInv, [ApprovalNext]_approvalVars
             PROVE  ApprovalInv'
  OBVIOUS
<1>1. [IssuanceNext]_issuanceVars
  BY ApprovalStepsAreIssuance DEF ApprovalInv
<1>2. IssuanceInv' /\ Within'
  BY <1>1, IssuanceInvStep, WithinStep DEF ApprovalInv
<1>3. ApprovalTypeOK'
  BY <1>2, ApprovalTypingStep DEF IssuanceInv
<1>4. InHand' /\ ApprovalIsExclusive'
  BY <1>3, InHandStep
<1>5. Truthful'
  BY <1>3, <1>4, TruthfulStep
<1>6. QED
  BY <1>2, <1>3, <1>4, <1>5 DEF ApprovalInv

LEMMA ApprovalInvariance == ApprovalSpec => []ApprovalInv
  BY ApprovalInvInit, ApprovalInvStep, PTL DEF ApprovalSpec

\* The drafts and the approvals are always well-formed.
THEOREM ApprovalTypeCorrect == ApprovalSpec => []ApprovalTypeOK
  BY ApprovalInvariance, PTL DEF ApprovalInv

\* With the inbox in front of it the issuance is still InvoiceIssuance: all
\* that is proved of the invoices holds when drafts are approved.
THEOREM InboxUsesIssuance == ApprovalSpec => IssuanceSpec
<1>1. ApprovalInit => IssuanceInit
  BY DEF ApprovalInit
<1>2. ApprovalInv /\ [ApprovalNext]_approvalVars => [IssuanceNext]_issuanceVars
  BY ApprovalStepsAreIssuance DEF ApprovalInv
<1>3. QED
  BY <1>1, <1>2, ApprovalInvariance, PTL DEF ApprovalSpec, IssuanceSpec

\* With the inbox in front, credit is conserved, no month is mailed twice, the
\* numbers have no gap, and the customer's ledger is kept.
THEOREM InboxKeepsPromises ==
  ApprovalSpec => /\ []CreditConserved
                  /\ []MonthsMailedOnce
                  /\ []NumbersInOrder
                  /\ LedgerSpec
  BY InboxUsesIssuance, CreditIsConserved, NoMonthMailedTwice, NumbersAreGapless,
     IssuanceImplementsLedger, PTL

\* No two processes approve one draft at a time.
THEOREM ApprovalsAreExclusive == ApprovalSpec => []ApprovalIsExclusive
  BY ApprovalInvariance, PTL DEF ApprovalInv

\* A draft is marked "sent" only of a period that was mailed and booked.
THEOREM SentDraftsAreBooked == ApprovalSpec => []SentIsOnTheBooks
<1>1. ApprovalInv => SentIsOnTheBooks
  <2> SUFFICES ASSUME ApprovalInv, NEW d \in Drafts, draft[d] = "sent"
               PROVE  \E k \in Ordinary : /\ PeriodEnd[k] = PeriodEnd[Period[d]]
                                          /\ applied[k]
                                          /\ \E a \in Attempts : fate[k][a] = "delivered"
    BY DEF SentIsOnTheBooks
  <2>1. PICK k \in Ordinary : PeriodEnd[k] = PeriodEnd[Period[d]] /\ applied[k]
    BY DEF ApprovalInv, Truthful, Booked
  <2>2. \E a \in Attempts : fate[k][a] = "delivered"
    BY <2>1 DEF ApprovalInv, IssuanceInv, Evidenced, AcceptedWasMailed, Ordinary
  <2>3. QED
    BY <2>1, <2>2
<1>2. QED
  BY <1>1, ApprovalInvariance, PTL

-----------------------------------------------------------------------------
(* The figure under review                                                 *)

\* No two ordinary obligations end on one day.
PeriodsEndApart ==
  \A j, k \in Ordinary : PeriodEnd[j] = PeriodEnd[k] => j = k

\* Nobody else freezes the period of an approval between its comparison of
\* the figures and its own freeze.
Undisturbed ==
  \A w \in Workers :
    LET k == Period[approves[w]] IN
    phase[w] = "freeze" /\ ~frozen[k] /\ frozen'[k] => phase'[w] = "deliver"

\* The figure that draft d shows is the one its period is billed with.
Billed(d) == LET k == Period[d] IN frozen[k] /\ shown[d] = Gross[k] - reserved[k]

\* What an approval knows of the figure at each place, and what it leaves.
Reviewed ==
  /\ \A w \in Workers :
       /\ phase[w] = "freeze" /\ frozen[Period[approves[w]]] => Billed(approves[w])
       /\ phase[w] \in {"deliver", "ok"} => Billed(approves[w])
  /\ \A d \in Drafts : draft[d] = "sent" => Billed(d)

\* Billed, after the step.
StillBilled(d) == LET k == Period[d] IN frozen'[k] /\ shown'[d] = Gross[k] - reserved'[k]

\* A figure is not rewritten while its draft is approved or after it was sent,
\* and a billed period keeps its amount.
LEMMA BilledStays ==
  ASSUME ApprovalInv, [ApprovalNext]_approvalVars, NEW d \in Drafts,
         draft[d] \in {"sending", "dismissed", "sent"}, Billed(d)
  PROVE  StillBilled(d)
<1>1. Period[d] \in Keys
  BY DraftsAssumption DEF Ordinary
<1>2. frozen'[Period[d]] /\ reserved'[Period[d]] = reserved[Period[d]]
  BY <1>1, ApprovalStepsAreIssuance, FrozenStays DEF ApprovalInv, Billed
<1>3. shown'[d] = shown[d]
  <2>1. ASSUME NEW e \in Drafts, MakeDraft(e)
        PROVE  shown'[d] = shown[d]
    BY <2>1 DEF MakeDraft, ApprovalInv, ApprovalTypeOK
  <2>2. (~\E e \in Drafts : MakeDraft(e)) => UNCHANGED shown
    BY DEF ApprovalNext, Dismiss, Approve, ClaimAs, Approval, Check, FreezeDraft, DeliverDraft,
           Raise, Answer, Perish, Elsewhere, SweepBy, Around, approvalVars, draftVars
  <2>3. QED
    BY <2>1, <2>2
<1>4. QED
  BY <1>2, <1>3 DEF Billed, StillBilled

\* What Reviewed says of an approval after the step.
StillReviewed(w) ==
  LET d == approves'[w] IN
  /\ phase'[w] = "freeze" /\ frozen'[Period[d]] => StillBilled(d)
  /\ phase'[w] \in {"deliver", "ok"} => StillBilled(d)

\* An approval that stays where it is knows what it knew.
LEMMA ReviewedFrame ==
  ASSUME ApprovalInv, Reviewed, [ApprovalNext]_approvalVars, [Undisturbed]_approvalVars,
         NEW w \in Workers, phase'[w] = phase[w], approves'[w] = approves[w]
  PROVE  StillReviewed(w)
<1> SUFFICES ASSUME phase[w] \in {"freeze", "deliver", "ok"}
             PROVE  StillReviewed(w)
  BY DEF StillReviewed
<1>1. approves[w] \in Drafts /\ draft[approves[w]] \in {"sending", "dismissed"}
  BY DEF ApprovalInv, ApprovalTypeOK, InHand
<1>2. phase[w] = "freeze" /\ frozen'[Period[approves[w]]] => frozen[Period[approves[w]]]
  BY DEF Undisturbed, approvalVars, issuanceVars, obligationVars
<1>3. Billed(approves[w]) => StillBilled(approves[w])
  BY <1>1, BilledStays
<1>4. QED
  BY <1>2, <1>3 DEF Reviewed, StillReviewed

\* An approval that goes on has compared its figure with the billed one.
LEMMA ApprovalReviews ==
  ASSUME PeriodsEndApart, ApprovalInv, Reviewed, NEW w \in Workers, Approval(w)
  PROVE  LET d == approves[w] IN
         /\ phase'[w] = "freeze" => Billed(d) \/ ~frozen'[Period[d]]
         /\ phase'[w] = "ok" => Billed(d)
         /\ phase'[w] = "deliver" => Billed(d) \/ StillBilled(d)
         /\ draft'[d] = "sent" => Billed(d)
<1> USE DEF ApprovalInv, ApprovalTypeOK
<1> DEFINE d == approves[w]
           k == Period[d]
<1>1. d \in Drafts /\ k \in Ordinary /\ k \in Keys
  <2>1. d \in Drafts
    BY ApprovalMoves
  <2>2. QED
    BY <2>1, DraftsAssumption DEF Ordinary
<1>2. CASE Check(w)
  <2>1. /\ UNCHANGED <<draft, shown, frozen, reserved>>
        /\ \/ phase' = [phase EXCEPT ![w] = "failed"]
           \/ phase' = [phase EXCEPT ![w] = "ok"] /\ lastPeriod = PeriodEnd[k] /\ Figure(k) = shown[d]
           \/ phase' = [phase EXCEPT ![w] = "freeze"] /\ Figure(k) = shown[d]
    BY <1>2 DEF Check, Reach, issuanceVars, obligationVars
  <2>2. frozen[k] /\ Figure(k) = shown[d] => Billed(d)
    BY DEF Figure, Billed
  <2>3. ASSUME lastPeriod = PeriodEnd[k]
        PROVE  frozen[k]
    <3>1. PeriodEnd[k] # 0
      BY <1>1, ObligationsAssumption
    <3>2. PICK j \in Ordinary : applied[j] /\ PeriodEnd[j] = PeriodEnd[k]
      BY <2>3, <3>1 DEF IssuanceInv, LatestSendIsReal
    <3>3. applied[k]
      BY <1>1, <3>2 DEF PeriodsEndApart
    <3>4. Delivered(k)
      BY <1>1, <3>3 DEF IssuanceInv, Evidenced, AcceptedWasMailed, Delivered
    <3>5. QED
      BY <1>1, <3>4, MailedIsFrozen
  <2>4. draft'[d] # "sent"
    BY <1>1, <1>2, <2>1 DEF Check, InHand
  <2>5. QED
    BY <2>1, <2>2, <2>3, <2>4
<1>3. CASE FreezeDraft(w)
  <2>1. UNCHANGED <<draft, shown>> /\ draft[d] # "sent" /\ phase[w] = "freeze"
    BY <1>1, <1>3 DEF FreezeDraft, InHand
  <2>2. CASE Resume(w, k) /\ Reach(w, "deliver")
    <3>1. frozen[k]
      BY <2>2 DEF Resume
    <3>2. Billed(d)
      BY <2>1, <3>1 DEF Reviewed
    <3>3. QED
      BY <2>1, <2>2, <3>2 DEF Reach
  <2>3. CASE Fresh(k) = shown[d] /\ Freeze(w, k) /\ Reach(w, "deliver")
    <3>1. frozen'[k] /\ reserved'[k] = Credit(k)
      BY <1>1, <2>3 DEF Freeze, FreezeRow, IssuanceInv, IssuanceTypeOK
    <3>2. shown'[d] = Gross[k] - reserved'[k]
      BY <2>1, <2>3, <3>1 DEF Fresh
    <3>3. phase'[w] = "deliver"
      BY <2>3 DEF Reach
    <3>4. QED
      BY <2>1, <3>1, <3>2, <3>3 DEF StillBilled
  <2>4. CASE Reach(w, "failed")
    BY <2>1, <2>4 DEF Reach
  <2>5. QED
    BY <1>3, <2>2, <2>3, <2>4 DEF FreezeDraft
<1>4. CASE DeliverDraft(w)
  <2>1. Billed(d)
    BY <1>4 DEF DeliverDraft, Reviewed
  <2>2. phase'[w] # "freeze"
    BY <1>4, VerdictKnown DEF DeliverDraft, Reach
  <2>3. QED
    BY <2>1, <2>2
<1>5. CASE Raise(w)
  BY <1>1, <1>5 DEF Raise, Reach, InHand
<1>6. CASE Perish(w)
  BY <1>1, <1>6 DEF Perish, Leave, Reach, InHand
<1>7. CASE Answer(w)
  <2>1. phase'[w] = "none"
    BY <1>7 DEF Answer, Leave, Reach
  <2>2. draft'[d] = "sent" => phase[w] = "ok"
    BY <1>1, <1>7 DEF Answer
  <2>3. QED
    BY <2>1, <2>2 DEF Reviewed
<1>8. QED
  BY <1>2, <1>3, <1>4, <1>5, <1>6, <1>7 DEF Approval

LEMMA ReviewedStep ==
  ASSUME PeriodsEndApart, ApprovalInv, Reviewed,
         [ApprovalNext]_approvalVars, [Undisturbed]_approvalVars
  PROVE  Reviewed'
<1> SUFFICES /\ \A w \in Workers : StillReviewed(w)
             /\ \A d \in Drafts : draft'[d] = "sent" => StillBilled(d)
  BY DEF Reviewed, Billed, StillReviewed, StillBilled
<1>1. \A d \in Drafts : draft[d] = "sent" => StillBilled(d)
  BY BilledStays DEF Reviewed
<1>2. ASSUME NEW d \in Drafts, \/ MakeDraft(d) \/ Dismiss(d)
                               \/ \E w \in Workers : Approve(w, d)
      PROVE  /\ \A w \in Workers : StillReviewed(w)
             /\ \A e \in Drafts : draft'[e] = "sent" => StillBilled(e)
  <2>1. \A e \in Drafts : draft'[e] = "sent" => draft[e] = "sent"
    BY <1>2 DEF MakeDraft, Dismiss, Approve, ClaimAs, ApprovalInv, ApprovalTypeOK
  <2>2. \A w \in Workers : \/ phase'[w] = phase[w] /\ approves'[w] = approves[w]
                           \/ phase'[w] = "check"
    BY <1>2 DEF MakeDraft, Dismiss, Approve, ClaimAs, Reach, ApprovalInv, ApprovalTypeOK
  <2>3. \A w \in Workers : StillReviewed(w)
    BY <2>2, ReviewedFrame DEF StillReviewed
  <2>4. QED
    BY <1>1, <2>1, <2>3
<1>3. ASSUME NEW w \in Workers, Approval(w)
      PROVE  /\ \A v \in Workers : StillReviewed(v)
             /\ \A d \in Drafts : draft'[d] = "sent" => StillBilled(d)
  <2>1. /\ approves[w] \in Drafts
        /\ \A v \in Workers \ {w} : phase'[v] = phase[v] /\ approves'[v] = approves[v]
        /\ \A d \in Drafts \ {approves[w]} : draft'[d] = draft[d]
        /\ approves'[w] = approves[w] \/ phase'[w] = "none"
    BY <1>3, ApprovalMoves DEF ApprovalInv
  <2>2. draft[approves[w]] \in {"sending", "dismissed"}
    BY <2>1, DraftsAssumption DEF ApprovalInv, InHand
  <2>3. Billed(approves[w]) => StillBilled(approves[w])
    BY <2>1, <2>2, BilledStays
  <2>4. StillReviewed(w)
    BY <1>3, <2>1, <2>3, ApprovalReviews DEF StillReviewed
  <2>5. \A v \in Workers : StillReviewed(v)
    BY <2>1, <2>4, ReviewedFrame
  <2>6. draft'[approves[w]] = "sent" => StillBilled(approves[w])
    BY <1>3, <2>3, ApprovalReviews
  <2>7. QED
    BY <1>1, <2>1, <2>5, <2>6
<1>4. CASE UNCHANGED draftVars
  <2>1. \A w \in Workers : StillReviewed(w)
    BY <1>4, ReviewedFrame DEF draftVars
  <2>2. QED
    BY <1>1, <1>4, <2>1 DEF draftVars
<1>5. QED
  BY <1>2, <1>3, <1>4 DEF ApprovalNext, Elsewhere, SweepBy, Around, approvalVars

\* Where periods end on different days and nobody else freezes the period
\* between an approval's comparison and its freeze, the figure the operator
\* approved is the figure that sends.  The run that refutes this in general
\* has a delivery that freezes the period in between: nothing else can.
THEOREM UndisturbedFigureSends ==
  ASSUME PeriodsEndApart
  PROVE  ApprovalSpec /\ [][Undisturbed]_approvalVars => []ApprovedFigureSends
<1>1. ApprovalInit => Reviewed
  BY DEF ApprovalInit, Reviewed
<1>2. ApprovalInv /\ Reviewed /\ [ApprovalNext]_approvalVars /\ [Undisturbed]_approvalVars
        => Reviewed'
  BY ReviewedStep
<1>3. Reviewed => ApprovedFigureSends
  BY DEF Reviewed, Billed, ApprovedFigureSends
<1>4. QED
  BY <1>1, <1>2, <1>3, ApprovalInvariance, PTL DEF ApprovalSpec
=============================================================================
