------------------------ MODULE OperatorSubscription ------------------------
(***************************************************************************)
(* The subscription of one operator (a Tenant row) at Stripe: its free     *)
(* trial, the hourly job that ends trials, the card an operator adds or    *)
(* removes, cancellation, reactivation, deletion, and the webhooks by      *)
(* which Stripe reports what became of cards and subscriptions.            *)
(*                                                                         *)
(* Between the row and Stripe there is no transaction: a subscription is   *)
(* made at Stripe by one step and recorded by a later one, and what Stripe *)
(* reports is handled some time after it happened.  Each event is handled  *)
(* once (WebhookClaim) unless the process dies at it.                      *)
(***************************************************************************)
EXTENDS Naturals, Sequences, SequencesExt

CONSTANTS Cards,      \* payment methods the operator may add, each once
          Subs,       \* names for the subscriptions made at Stripe
          Workers,    \* web processes and the background process
          None,
          Ordered,    \* subscription events are handled in Stripe's order
          MaxFeed,    \* bound on the subscription events under way
          MaxFaults   \* bound on deaths and on errors of Stripe

ASSUME SubscriptionAssumption ==
  /\ None \notin Cards \cup Subs
  /\ Ordered \in BOOLEAN
  /\ MaxFeed \in Nat
  /\ MaxFaults \in Nat

VARIABLES
  status,     \* Tenant.subscription_status
  active,     \* Tenant.active: the operator has access
  trial,      \* trial_ends_at: "none", or "running" or "over" by its date
  extended,   \* trial_extended
  card,       \* stripe_payment_method_id
  subId,      \* stripe_subscription_id
  sub,        \* the status of each subscription at Stripe
  cardState,  \* each card at Stripe
  setups,     \* setup_intent.succeeded events not yet handled
  detaches,   \* payment_method.detached events not yet handled
  feed,       \* customer.subscription events not yet handled
  reopened,   \* a reactivation page of Stripe was opened
  closed,     \* the account was deleted: no session of the operator is valid
  pc,         \* where each worker is
  job,        \* the setup event it handles
  used,       \* the card it read
  made,       \* the subscription it made
  leaving,    \* history: the operator cancelled the trial and did not come back
  mishap,     \* history: a creation was not recorded, or another step overtook it
  faults      \* how much has gone wrong so far

tenantVars == <<status, active, trial, extended, card, subId>>
stripeVars == <<sub, cardState, setups, detaches, feed>>
workerVars == <<pc, job, used, made>>
sessionVars == <<reopened, closed>>
vars == <<tenantVars, stripeVars, sessionVars, workerVars, leaving, mishap, faults>>

SubStates == {"none", "incomplete", "active", "past_due", "canceled", "incomplete_expired"}
Statuses == {"trialing", "paused_no_card", "cancelled", "deleted"} \cup (SubStates \ {"none"})
SetupEvents == Cards \X BOOLEAN    \* the card, and the flag reactivate=1
Live == {"active", "past_due"}     \* statuses in which Stripe bills
Open == Live \cup {"incomplete"}    \* and one in which the first charge may yet succeed

TypeOK ==
  /\ status \in Statuses
  /\ active \in BOOLEAN
  /\ trial \in {"none", "running", "over"}
  /\ extended \in BOOLEAN
  /\ card \in Cards \cup {None}
  /\ subId \in Subs \cup {None}
  /\ sub \in [Subs -> SubStates]
  /\ cardState \in [Cards -> {"new", "attached", "detached"}]
  /\ setups \in SUBSET SetupEvents
  /\ detaches \in SUBSET Cards
  /\ feed \in BoundedSeq(Subs \X SubStates, MaxFeed)
  /\ reopened \in BOOLEAN
  /\ closed \in BOOLEAN
  /\ pc \in [Workers -> {"idle", "resume", "make", "commit", "finalize", "record", "cancel"}]
  /\ job \in [Workers -> SetupEvents \cup {None}]
  /\ used \in [Workers -> Cards \cup {None}]
  /\ made \in [Workers -> Subs \cup {None}]
  /\ leaving \in BOOLEAN
  /\ mishap \in BOOLEAN
  /\ faults \in 0 .. MaxFaults

\* An operator signs up with a trial and without a card.
Init ==
  /\ status = "trialing" /\ active = TRUE
  /\ trial = "running" /\ extended = FALSE
  /\ card = None /\ subId = None
  /\ sub = [s \in Subs |-> "none"]
  /\ cardState = [c \in Cards |-> "new"]
  /\ setups = {} /\ detaches = {} /\ feed = <<>>
  /\ reopened = FALSE /\ closed = FALSE
  /\ pc = [w \in Workers |-> "idle"]
  /\ job = [w \in Workers |-> None]
  /\ used = [w \in Workers |-> None]
  /\ made = [w \in Workers |-> None]
  /\ leaving = FALSE /\ mishap = FALSE /\ faults = 0

-----------------------------------------------------------------------------
(* Stripe                                                                  *)

Fault == faults < MaxFaults /\ faults' = faults + 1

\* Stripe reports a subscription's status.
Report(s, st) == Len(feed) < MaxFeed /\ feed' = Append(feed, <<s, st>>)

\* A charge fails or succeeds again, the operator cancels in the portal, or
\* something else about the subscription changes.  If the first charge was
\* declined it may yet succeed; else the subscription expires after a day.
Becomes(s, st) ==
  /\ \/ sub[s] \in Live /\ st \in Live \cup {"canceled"}
     \/ sub[s] = "incomplete" /\ st \in {"incomplete", "active", "incomplete_expired"}
  /\ sub' = [sub EXCEPT ![s] = st]
  /\ Report(s, st)
  /\ UNCHANGED <<tenantVars, cardState, setups, detaches, sessionVars, workerVars,
                 leaving, mishap, faults>>

Detach(c) ==
  /\ cardState' = [cardState EXCEPT ![c] = "detached"]
  /\ detaches' = detaches \cup {c}

\* The operator removes a card in the billing portal.
RemoveCard(c) ==
  /\ cardState[c] = "attached"
  /\ Detach(c)
  /\ UNCHANGED <<tenantVars, sub, setups, feed, sessionVars, workerVars, leaving,
                 mishap, faults>>

\* The operator completes a Checkout in setup mode, of add_payment_method or
\* of reactivate_account.
CompleteSetup(c, reactivate) ==
  /\ cardState[c] = "new"
  /\ reactivate => reopened
  /\ cardState' = [cardState EXCEPT ![c] = "attached"]
  /\ setups' = setups \cup {<<c, reactivate>>}
  /\ leaving' = FALSE
  /\ UNCHANGED <<tenantVars, sub, detaches, feed, sessionVars, workerVars, mishap, faults>>

\* A step that creates, ends or replaces the row's subscription while one is
\* made and not yet recorded, or that rests on an old reading, is a mishap.
Overtakes(late) == mishap' = (mishap \/ late \/ \E v \in Workers : made[v] # None)

\* A subscription of the card is made.  Stripe answers with it also if the
\* first charge is declined, and the answer's status is not looked at.
MakeAt(w, c, next, late) ==
  \E s \in Subs, first \in {"active", "incomplete"} :
    /\ sub[s] = "none"
    /\ cardState[c] = "attached"
    /\ sub' = [sub EXCEPT ![s] = first]
    /\ made' = [made EXCEPT ![w] = s]
    /\ pc' = [pc EXCEPT ![w] = next]
    /\ Overtakes(late)

-----------------------------------------------------------------------------
(* Requests of the operator                                                *)

Start(w, place) == pc[w] = "idle" /\ pc' = [pc EXCEPT ![w] = place]

\* The end of a call; its event, if it serves one, has been handled.
End(w) ==
  /\ pc' = [pc EXCEPT ![w] = "idle"]
  /\ job' = [job EXCEPT ![w] = None]
  /\ used' = [used EXCEPT ![w] = None]
  /\ made' = [made EXCEPT ![w] = None]
  /\ setups' = setups \ {job[w]}

\* reactivate_account: for cancelled operators only.
OpenReactivation ==
  /\ ~closed /\ ~active /\ status \in {"cancelled", "canceled"}
  /\ reopened' = TRUE
  /\ UNCHANGED <<tenantVars, stripeVars, workerVars, closed, leaving, mishap, faults>>

\* confirm_setup stores the card of a completed Checkout whenever its page is
\* loaded; _resolve_pm_id does it for an attached card when the row has none.
StoreCard(c) ==
  /\ ~closed
  /\ cardState[c] # "new"
  /\ card' = c
  /\ UNCHANGED <<status, active, trial, extended, subId, stripeVars, sessionVars,
                 workerVars, leaving, mishap, faults>>

\* resume_from_pause: whatever the status, but with a card.
Resume(w) ==
  /\ ~closed
  /\ card # None
  /\ Start(w, "resume")
  /\ leaving' = FALSE
  /\ UNCHANGED <<tenantVars, stripeVars, sessionVars, job, used, made, mishap, faults>>

\* cancel_trial: the card that the row has is detached at Stripe ...
CancelTrial(w) ==
  /\ ~closed /\ status = "trialing"
  /\ Start(w, "cancel")
  /\ IF card # None /\ cardState[card] = "attached"
     THEN \/ Detach(card) /\ UNCHANGED faults
          \/ Fault /\ UNCHANGED <<cardState, detaches>>
     ELSE UNCHANGED <<cardState, detaches, faults>>
  /\ UNCHANGED <<tenantVars, sub, setups, feed, sessionVars, job, used, made, leaving, mishap>>

\* ... and the row is written, as it is by now.
CancelWrite(w) ==
  /\ pc[w] = "cancel"
  /\ active' = FALSE
  /\ status' = "cancelled"
  /\ trial' = "none"
  /\ card' = None
  /\ leaving' = TRUE
  /\ Overtakes(subId # None)
  /\ End(w)
  /\ UNCHANGED <<extended, subId, sub, cardState, detaches, feed, sessionVars, faults>>

\* delete_account: the subscription is cancelled at Stripe, if that works.
DeleteAccount ==
  /\ ~closed
  /\ IF subId # None /\ sub[subId] \in Open
     THEN \/ /\ \E st \in {"canceled", "incomplete_expired"} :
                  /\ st = "canceled" \/ sub[subId] = "incomplete"
                  /\ sub' = [sub EXCEPT ![subId] = st]
                  /\ Report(subId, st)
             /\ UNCHANGED faults
             /\ Overtakes(FALSE)
          \/ Fault /\ Overtakes(TRUE) /\ UNCHANGED <<sub, feed>>
     ELSE Overtakes(FALSE) /\ UNCHANGED <<sub, feed, faults>>
  /\ active' = FALSE
  /\ status' = "deleted"
  /\ subId' = None
  /\ card' = None
  /\ closed' = TRUE
  /\ UNCHANGED <<trial, extended, cardState, setups, detaches, reopened, workerVars, leaving>>

-----------------------------------------------------------------------------
(* create_subscription_for_tenant                                          *)

CreateRead(w) ==
  /\ pc[w] = "resume"
  /\ IF card = None \/ subId # None
     THEN End(w)
     ELSE /\ pc' = [pc EXCEPT ![w] = "make"]
          /\ used' = [used EXCEPT ![w] = card]
          /\ UNCHANGED <<job, made, setups>>
  /\ UNCHANGED <<tenantVars, sub, cardState, detaches, feed, sessionVars, leaving,
                 mishap, faults>>

Make(w) ==
  /\ pc[w] = "make"
  /\ MakeAt(w, used[w], "commit", subId # None)
  /\ UNCHANGED <<tenantVars, cardState, setups, detaches, feed, sessionVars, job,
                 used, leaving, faults>>

\* Stripe refuses: the caller is told, and the webhook answers 200.
MakeFails(w) ==
  /\ pc[w] = "make"
  /\ IF cardState[used[w]] = "attached" THEN Fault ELSE UNCHANGED faults
  /\ End(w)
  /\ UNCHANGED <<tenantVars, sub, cardState, detaches, feed, sessionVars, leaving, mishap>>

\* Mutation of Commit: the operator's access is not restored.
CommitWithoutAccess(w) ==
  /\ pc[w] = "commit"
  /\ subId' = made[w]
  /\ status' = "active"
  /\ trial' = "none"
  /\ End(w)
  /\ UNCHANGED <<active, extended, card, sub, cardState, detaches, feed, sessionVars,
                 leaving, mishap, faults>>

Commit(w) ==
  /\ pc[w] = "commit"
  /\ subId' = made[w]
  /\ status' = "active"
  /\ active' = TRUE
  /\ trial' = "none"
  /\ End(w)
  /\ UNCHANGED <<extended, card, sub, cardState, detaches, feed, sessionVars,
                 leaving, mishap, faults>>

-----------------------------------------------------------------------------
(* finalize_expired_trials, which runs every hour                          *)

TrialEnds ==
  /\ trial = "running"
  /\ trial' = "over"
  /\ UNCHANGED <<status, active, extended, card, subId, stripeVars, sessionVars,
                 workerVars, leaving, mishap, faults>>

\* The job selects the expired trials at its start; it works from these rows,
\* one operator after the other, without reading them again.
Select(w) ==
  /\ status = "trialing" /\ trial = "over"
  /\ \A v \in Workers : pc[v] \notin {"finalize", "record"}
  /\ Start(w, "finalize")
  /\ used' = [used EXCEPT ![w] = card]
  /\ UNCHANGED <<tenantVars, stripeVars, sessionVars, job, made, leaving, mishap, faults>>

\* An operator without arrays gets three more days, once.
Extend(w) ==
  /\ pc[w] = "finalize"
  /\ ~extended
  /\ trial' = "running"
  /\ extended' = TRUE
  /\ End(w)
  /\ UNCHANGED <<status, active, card, subId, sub, cardState, detaches, feed,
                 sessionVars, leaving, mishap, faults>>

\* An operator without a card is paused.
Pause(w) ==
  /\ pc[w] = "finalize"
  /\ used[w] = None
  /\ status' = "paused_no_card"
  /\ trial' = "none"
  /\ active' = FALSE
  /\ Overtakes(status # "trialing")
  /\ End(w)
  /\ UNCHANGED <<extended, card, subId, sub, cardState, detaches, feed, sessionVars,
                 leaving, faults>>

Charge(w) ==
  /\ pc[w] = "finalize"
  /\ used[w] # None
  /\ MakeAt(w, used[w], "record", status # "trialing")
  /\ UNCHANGED <<tenantVars, cardState, setups, detaches, feed, sessionVars, job,
                 used, leaving, faults>>

\* The charge fails: an email goes out, and the next run tries again.
ChargeFails(w) ==
  /\ pc[w] = "finalize"
  /\ used[w] # None
  /\ IF cardState[used[w]] = "attached" THEN Fault ELSE UNCHANGED faults
  /\ End(w)
  /\ UNCHANGED <<tenantVars, sub, cardState, detaches, feed, sessionVars, leaving, mishap>>

\* The row is recorded as active; Tenant.active is left as it is.
Record(w) ==
  /\ pc[w] = "record"
  /\ subId' = made[w]
  /\ status' = "active"
  /\ trial' = "none"
  /\ End(w)
  /\ UNCHANGED <<active, extended, card, sub, cardState, detaches, feed, sessionVars,
                 leaving, mishap, faults>>

-----------------------------------------------------------------------------
(* Stripe's events                                                         *)

\* _process_setup_intent_succeeded stores the card, and goes on to make a
\* subscription for an operator that is paused, cancelled or coming back.
SetupEvent(w, e) ==
  /\ pc[w] = "idle"
  /\ e \in setups
  /\ \A v \in Workers : job[v] # e
  /\ card' = e[1]
  /\ IF \/ status = "paused_no_card"
        \/ ~active /\ status \in {"cancelled", "canceled"}
        \/ e[2]
     THEN /\ pc' = [pc EXCEPT ![w] = "resume"]
          /\ job' = [job EXCEPT ![w] = e]
          /\ UNCHANGED setups
     ELSE setups' = setups \ {e} /\ UNCHANGED <<pc, job>>
  /\ UNCHANGED <<status, active, trial, extended, subId, sub, cardState, detaches,
                 feed, sessionVars, used, made, leaving, mishap, faults>>

\* _process_payment_method_detached.
DetachEvent(c) ==
  /\ c \in detaches
  /\ detaches' = detaches \ {c}
  /\ card' = IF card = c THEN None ELSE card
  /\ UNCHANGED <<status, active, trial, extended, subId, sub, cardState, setups,
                 feed, sessionVars, workerVars, leaving, mishap, faults>>

\* Mutation of Deleted: the status is cleared instead of set.
DeletedCleared ==
  /\ status' = "none"
  /\ active' = FALSE
  /\ subId' = None

\* Mutation of Updated: only a deletion ends the access.
UpdatedKeepsAccess(s, st) ==
  /\ status' = st
  /\ active' = TRUE
  /\ subId' = s

\* Another one: a payment that is late clears the subscription.
UpdatedClears(s, st) ==
  /\ status' = st
  /\ active' = (st = "active")
  /\ subId' = IF st = "active" THEN s ELSE None

\* _process_subscription_updated and _process_subscription_deleted.  The row
\* is found by the customer too, so every event of the operator matches it.
Deleted ==
  /\ status' = "canceled"
  /\ active' = FALSE
  /\ subId' = None

Updated(s, st) ==
  /\ status' = st
  /\ active' = (st = "active")
  /\ subId' = s

FeedEvent(i) ==
  LET s == feed[i][1]
      st == feed[i][2] IN
  /\ IF st = "canceled" THEN Deleted ELSE Updated(s, st)
  /\ feed' = RemoveAt(feed, i)
  /\ Overtakes(subId \notin {s, None})
  /\ UNCHANGED <<trial, extended, card, sub, cardState, setups, detaches,
                 sessionVars, workerVars, leaving, faults>>

\* A process dies; the event it handled is delivered again.
Die(w) ==
  /\ pc[w] # "idle"
  /\ Fault
  /\ pc' = [pc EXCEPT ![w] = "idle"]
  /\ job' = [job EXCEPT ![w] = None]
  /\ used' = [used EXCEPT ![w] = None]
  /\ made' = [made EXCEPT ![w] = None]
  /\ mishap' = (mishap \/ made[w] # None)
  /\ UNCHANGED <<tenantVars, stripeVars, sessionVars, leaving>>

Finalize(w) == Extend(w) \/ Pause(w) \/ Charge(w) \/ ChargeFails(w) \/ Record(w)

Work(w) == CreateRead(w) \/ Make(w) \/ MakeFails(w) \/ Commit(w) \/ CancelWrite(w) \/ Finalize(w)

Next ==
  \/ \E s \in Subs : \E st \in SubStates : Becomes(s, st)
  \/ \E c \in Cards :
       \/ RemoveCard(c) \/ StoreCard(c) \/ DetachEvent(c)
       \/ \E r \in BOOLEAN : CompleteSetup(c, r)
  \/ OpenReactivation \/ DeleteAccount \/ TrialEnds
  \/ \E w \in Workers :
       \/ Resume(w) \/ CancelTrial(w) \/ Select(w) \/ Work(w) \/ Die(w)
       \/ \E e \in setups : SetupEvent(w, e)
  \/ \E i \in 1 .. Len(feed) : (Ordered => i = 1) /\ FeedEvent(i)

Spec == Init /\ [][Next]_vars

-----------------------------------------------------------------------------
(* Properties                                                              *)

Billed == {s \in Subs : sub[s] \in Live}
Standing == {s \in Subs : sub[s] \in Open}

\* An operator has one subscription at a time that is billed or may yet be,
\* and it is the one the row names or a process is about to record.  This
\* holds until a mishap, since nothing ties a subscription made at Stripe to
\* the row but the order of the steps.
OneSubscription ==
  ~mishap =>
    /\ \A s, t \in Standing : s = t
    /\ \A s \in Standing : subId = s \/ \E w \in Workers : made[w] = s

\* Once everything Stripe reported has been handled, nobody past the trial has
\* kept access over a late payment, an expiry or a cancellation: there is a
\* subscription and it is paid, or its first charge was declined and Stripe
\* has not given it up yet.  In the latter case the code gives access for
\* nothing until Stripe's next report.
AccessIsBacked ==
  (~mishap /\ feed = <<>> /\ active /\ status # "trialing")
    => subId # None /\ sub[subId] \in {"active", "incomplete"}

\* And an operator whose recorded subscription is paid has access, once
\* everything under way has been handled.
PaidHasAccess ==
  (~mishap /\ feed = <<>> /\ subId # None /\ \A w \in Workers : pc[w] = "idle")
    => (sub[subId] = "active" => active)

\* "Cancel the trial before it ends. Free, one-click" (cancel_trial): nobody is
\* billed who cancelled it and has not completed a Checkout or resumed since.
CancelledIsFree == leaving => Billed = {}
=============================================================================
