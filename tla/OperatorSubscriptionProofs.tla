--------------------- MODULE OperatorSubscriptionProofs ---------------------
(***************************************************************************)
(* Proofs about OperatorSubscription for any cards, subscriptions,         *)
(* processes, faults and number of reports under way.                      *)
(*                                                                         *)
(* The argument: until a mishap one process at most holds a subscription   *)
(* that the row does not name, and then the row names none (Single); and   *)
(* the last report of a subscription tells what Stripe has (LastIsTrue),   *)
(* so that with the reports in order the row is right about the            *)
(* subscription it names as soon as no report of it is under way (Agrees). *)
(***************************************************************************)
EXTENDS OperatorSubscription, SequenceTheorems, TLAPS

Making == {"commit", "record"}

\* A process holds a subscription exactly where it is to record it.
Holding == \A w \in Workers : pc[w] \in Making <=> made[w] # None

Ends == {"canceled", "incomplete_expired"}

\* What was reported of a subscription exists, and its end is for good.
Reported ==
  \A i \in 1 .. Len(feed) :
    /\ feed[i][2] # "none" /\ sub[feed[i][1]] # "none"
    /\ feed[i][2] \in Ends => sub[feed[i][1]] = feed[i][2]

OnTrial == status = "trialing" => subId = None /\ active

\* No two creations under way, and none while the row names a subscription.
Single ==
  ~mishap =>
    /\ OneSubscription
    /\ \A v, w \in Workers : made[v] # None /\ made[w] # None => v = w
    /\ \A w \in Workers : made[w] # None => subId = None
    /\ \A w \in Workers : pc[w] = "record" => status = "trialing"

\* No report of subscription s is under way.
Settled(s) == \A i \in 1 .. Len(feed) : feed[i][1] # s

LastIsTrue ==
  \A i \in 1 .. Len(feed) :
    (\A j \in 1 .. Len(feed) : j > i => feed[j][1] # feed[i][1])
      => feed[i][2] = sub[feed[i][1]]

Agrees ==
  ~mishap =>
    /\ subId # None /\ Settled(subId) =>
         /\ sub[subId] = "active" => active
         /\ active => sub[subId] \in {"active", "incomplete"}
    /\ \A w \in Workers :
         made[w] # None /\ Settled(made[w]) => sub[made[w]] \in {"active", "incomplete"}
    /\ subId = None /\ status # "trialing" => ~active

IInv ==
  /\ TypeOK
  /\ Holding
  /\ Reported
  /\ OnTrial
  /\ Single
  /\ Ordered => LastIsTrue /\ Agrees

-----------------------------------------------------------------------------
(* The reports under way                                                   *)

Reports == Subs \X SubStates

LEMMA BoundedFeed ==
  \A s : s \in BoundedSeq(Reports, MaxFeed) <=> s \in Seq(Reports) /\ Len(s) <= MaxFeed
<1> SUFFICES ASSUME NEW s
             PROVE  s \in BoundedSeq(Reports, MaxFeed) <=> s \in Seq(Reports) /\ Len(s) <= MaxFeed
  OBVIOUS
<1>1. MaxFeed \in Nat
  BY SubscriptionAssumption
<1>2. ASSUME NEW m \in Nat, s \in [1 .. m -> Reports]
      PROVE  s \in Seq(Reports) /\ Len(s) = m
  <2>1. s \in Seq(Reports)
    BY <1>2, SeqDef
  <2>2. Len(s) \in Nat /\ DOMAIN s = 1 .. Len(s)
    BY <2>1, LenProperties
  <2>3. DOMAIN s = 1 .. m
    BY <1>2
  <2> DEFINE n == Len(s)
  <2>4. \A k \in Nat : k \in 1 .. m <=> k \in 1 .. n
    BY <2>2, <2>3
  <2>5. n \in Nat
    BY <2>2
  <2> HIDE DEF n
  <2>6. m = n
    BY <2>4, <2>5
  <2>7. QED
    BY <2>1, <2>6 DEF n
<1>3. ASSUME s \in Seq(Reports), Len(s) <= MaxFeed
      PROVE  s \in BoundedSeq(Reports, MaxFeed)
  <2>1. Len(s) \in 0 .. MaxFeed /\ s \in [1 .. Len(s) -> Reports]
    BY <1>1, <1>3, LenProperties
  <2>2. QED
    BY <2>1 DEF BoundedSeq, SeqOf
<1>4. ASSUME s \in BoundedSeq(Reports, MaxFeed)
      PROVE  s \in Seq(Reports) /\ Len(s) <= MaxFeed
  <2>1. PICK m \in 0 .. MaxFeed : s \in [1 .. m -> Reports]
    BY <1>4 DEF BoundedSeq, SeqOf
  <2>2. m \in Nat /\ m <= MaxFeed
    BY <1>1
  <2>3. QED
    BY <1>2, <2>1, <2>2
<1>5. QED
  BY <1>3, <1>4

\* A sequence without its element i.
LEMMA Removed ==
  ASSUME NEW S, NEW s \in Seq(S), NEW i \in 1 .. Len(s)
  PROVE  /\ RemoveAt(s, i) \in Seq(S)
         /\ Len(RemoveAt(s, i)) = Len(s) - 1
         /\ \A j \in 1 .. Len(s) - 1 : RemoveAt(s, i)[j] = IF j < i THEN s[j] ELSE s[j + 1]
<1> DEFINE front == SubSeq(s, 1, i - 1)
           back == SubSeq(s, i + 1, Len(s))
<1>1. Len(s) \in Nat /\ i \in Nat /\ \A j \in 1 .. Len(s) : s[j] \in S
  BY LenProperties, ElementOfSeq
<1>2. /\ front \in Seq(S) /\ Len(front) = i - 1
      /\ \A j \in 1 .. i - 1 : front[j] = s[j]
  <2>1. \A j \in 1 .. i - 1 : s[j] \in S
    BY <1>1
  <2>2. /\ front \in Seq(S) /\ Len(front) = IF 1 <= i - 1 THEN (i - 1) - 1 + 1 ELSE 0
        /\ \A j \in 1 .. (i - 1) - 1 + 1 : front[j] = s[1 + j - 1]
    BY <1>1, <2>1, SubSeqProperties
  <2> HIDE DEF front
  <2>3. \A j \in 1 .. i - 1 : j \in 1 .. (i - 1) - 1 + 1 /\ 1 + j - 1 = j
    BY <1>1
  <2>4. QED
    BY <1>1, <2>2, <2>3
<1>3. /\ back \in Seq(S) /\ Len(back) = Len(s) - i
      /\ \A j \in 1 .. Len(s) - i : back[j] = s[i + j]
  <2>1. \A j \in i + 1 .. Len(s) : s[j] \in S
    BY <1>1
  <2>2. /\ back \in Seq(S) /\ Len(back) = IF i + 1 <= Len(s) THEN Len(s) - (i + 1) + 1 ELSE 0
        /\ \A j \in 1 .. Len(s) - (i + 1) + 1 : back[j] = s[(i + 1) + j - 1]
    BY <1>1, <2>1, SubSeqProperties
  <2> HIDE DEF back
  <2>3. \A j \in 1 .. Len(s) - i : j \in 1 .. Len(s) - (i + 1) + 1 /\ (i + 1) + j - 1 = i + j
    BY <1>1
  <2>4. QED
    BY <1>1, <2>2, <2>3
<1>4. RemoveAt(s, i) = front \o back
  BY DEF RemoveAt
<1> HIDE DEF front, back
<1>5. /\ front \o back \in Seq(S) /\ Len(front \o back) = Len(front) + Len(back)
      /\ \A j \in 1 .. Len(front) + Len(back) :
           (front \o back)[j] = IF j <= Len(front) THEN front[j] ELSE back[j - Len(front)]
  BY <1>2, <1>3, ConcatProperties
<1>6. ASSUME NEW j \in 1 .. Len(s) - 1
      PROVE  (front \o back)[j] = IF j < i THEN s[j] ELSE s[j + 1]
  <2>1. Len(front) = i - 1 /\ Len(back) = Len(s) - i /\ j \in 1 .. Len(front) + Len(back)
    BY <1>1, <1>2, <1>3, <1>6
  <2>2. CASE j < i
    BY <1>1, <1>2, <1>5, <2>1, <2>2
  <2>3. CASE ~(j < i)
    <3>1. j - (i - 1) \in 1 .. Len(s) - i /\ i + (j - (i - 1)) = j + 1
      BY <1>1, <1>6, <2>3
    <3>2. (front \o back)[j] = back[j - (i - 1)]
      BY <1>1, <1>5, <2>1, <2>3
    <3>3. back[j - (i - 1)] = s[i + (j - (i - 1))]
      BY <1>3, <3>1
    <3>4. QED
      BY <2>3, <3>1, <3>2, <3>3
  <2>4. QED
    BY <2>2, <2>3
<1>7. QED
  BY <1>1, <1>2, <1>3, <1>4, <1>5, <1>6

LEMMA InitHolds == Init => IInv
<1> SUFFICES ASSUME Init PROVE IInv
  OBVIOUS
<1>1. feed \in Seq(Reports) /\ Len(feed) = 0
  BY EmptySeq DEF Init
<1>2. Len(feed) <= MaxFeed
  BY <1>1, SubscriptionAssumption
<1>3. TypeOK
  <2>1. feed \in BoundedSeq(Reports, MaxFeed)
    BY <1>1, <1>2, BoundedFeed
  <2>2. "trialing" \in Statuses /\ "none" \in SubStates
    BY DEF Statuses, SubStates
  <2>3. 0 \in 0 .. MaxFaults
    BY SubscriptionAssumption
  <2>4. QED
    BY <2>1, <2>2, <2>3 DEF Init, TypeOK, Reports
<1>4. Holding /\ Reported /\ OnTrial
  BY <1>1 DEF Init, Holding, Making, Reported, OnTrial
<1>5. OneSubscription
  BY DEF Init, OneSubscription, Standing, Open, Live
<1>6. Single
  BY <1>5 DEF Init, Single
<1>7. LastIsTrue /\ Agrees
  BY <1>1 DEF Init, LastIsTrue, Agrees
<1>8. QED
  BY <1>3, <1>4, <1>6, <1>7 DEF IInv

-----------------------------------------------------------------------------
(* Steps that leave the row's and Stripe's subscriptions alone             *)

LEMMA NothingChanges ==
  ASSUME IInv, TypeOK', UNCHANGED <<status, active, subId, sub, feed, made, mishap>>,
         \A w \in Workers : /\ pc'[w] \in Making <=> pc[w] \in Making
                            /\ pc'[w] = "record" => pc[w] = "record"
  PROVE  IInv'
<1>1. Holding' /\ OnTrial'
  BY DEF IInv, Holding, OnTrial
<1>2. Reported' /\ LastIsTrue' = LastIsTrue
  BY DEF IInv, Reported, LastIsTrue
<1>3. OneSubscription' = OneSubscription
  BY DEF OneSubscription, Standing, Open, Live
<1>4. Single'
  BY <1>3 DEF IInv, Single
<1>5. Agrees' = Agrees
  BY DEF Agrees, Settled
<1>6. QED
  BY <1>1, <1>2, <1>4, <1>5 DEF IInv

\* The end of a call that holds no subscription.
LEMMA EndsEmpty ==
  ASSUME IInv, NEW w \in Workers, pc[w] \notin Making, End(w)
  PROVE  /\ pc' \in [Workers -> {"idle", "resume", "make", "commit", "finalize", "record", "cancel"}]
         /\ job' \in [Workers -> SetupEvents \cup {None}]
         /\ used' \in [Workers -> Cards \cup {None}]
         /\ made' = made /\ setups' \in SUBSET SetupEvents
         /\ \A v \in Workers : /\ pc'[v] \in Making <=> pc[v] \in Making
                               /\ pc'[v] = "record" => pc[v] = "record"
<1>1. made[w] = None
  BY DEF IInv, Holding
<1>2. made' = made
  BY <1>1 DEF End, IInv, TypeOK
<1>3. \A v \in Workers : pc'[v] = IF v = w THEN "idle" ELSE pc[v]
  BY DEF End, IInv, TypeOK
<1>4. QED
  BY <1>2, <1>3 DEF End, IInv, TypeOK, Making

\* A call starts or moves, before it makes anything.
LEMMA MovesEmpty ==
  ASSUME IInv, NEW w \in Workers, pc[w] \notin Making,
         NEW p \in {"resume", "make", "finalize", "cancel"}, pc' = [pc EXCEPT ![w] = p]
  PROVE  /\ pc' \in [Workers -> {"idle", "resume", "make", "commit", "finalize", "record", "cancel"}]
         /\ \A v \in Workers : /\ pc'[v] \in Making <=> pc[v] \in Making
                               /\ pc'[v] = "record" => pc[v] = "record"
BY DEF IInv, TypeOK, Making

LEMMA StripeSideKeeps ==
  ASSUME IInv, NEW c \in Cards,
         \/ RemoveCard(c) \/ StoreCard(c) \/ DetachEvent(c)
         \/ \E r \in BOOLEAN : CompleteSetup(c, r)
  PROVE  IInv'
<1>1. TypeOK'
  <2> USE DEF IInv, TypeOK, tenantVars, stripeVars, sessionVars, workerVars
  <2>1. CASE RemoveCard(c)
    BY <2>1 DEF RemoveCard, Detach
  <2>2. CASE StoreCard(c)
    BY <2>2 DEF StoreCard
  <2>3. CASE DetachEvent(c)
    BY <2>3 DEF DetachEvent
  <2>4. ASSUME NEW r \in BOOLEAN, CompleteSetup(c, r) PROVE TypeOK'
    <3>1. setups' \in SUBSET SetupEvents
      BY <2>4 DEF CompleteSetup, SetupEvents
    <3>2. QED
      BY <2>4, <3>1 DEF CompleteSetup
  <2>5. QED
    BY <2>1, <2>2, <2>3, <2>4
<1>2. UNCHANGED <<status, active, subId, sub, feed, made, mishap, pc>>
  BY DEF RemoveCard, StoreCard, DetachEvent, CompleteSetup, tenantVars, stripeVars, workerVars
<1>3. QED
  BY <1>1, <1>2, NothingChanges

LEMMA ClockKeeps ==
  ASSUME IInv, OpenReactivation \/ TrialEnds PROVE IInv'
<1>1. TypeOK'
  BY DEF OpenReactivation, TrialEnds, IInv, TypeOK, tenantVars, stripeVars, sessionVars, workerVars
<1>2. UNCHANGED <<status, active, subId, sub, feed, made, mishap, pc>>
  BY DEF OpenReactivation, TrialEnds, tenantVars, stripeVars, workerVars
<1>3. QED
  BY <1>1, <1>2, NothingChanges

LEMMA CallsStart ==
  ASSUME IInv, NEW w \in Workers,
         Resume(w) \/ CancelTrial(w) \/ Select(w) \/ \E e \in setups : SetupEvent(w, e)
  PROVE  IInv'
<1>1. CASE Resume(w)
  <2>1. pc[w] \notin Making /\ pc' = [pc EXCEPT ![w] = "resume"]
    BY <1>1 DEF Resume, Start, Making
  <2>2. TypeOK'
    BY <1>1, <2>1, MovesEmpty DEF Resume, IInv, TypeOK, tenantVars, stripeVars, sessionVars
  <2>3. UNCHANGED <<status, active, subId, sub, feed, made, mishap>>
    BY <1>1 DEF Resume, tenantVars, stripeVars
  <2>4. QED
    BY <2>1, <2>2, <2>3, MovesEmpty, NothingChanges
<1>2. CASE CancelTrial(w)
  <2>1. pc[w] \notin Making /\ pc' = [pc EXCEPT ![w] = "cancel"]
    BY <1>2 DEF CancelTrial, Start, Making
  <2>2. /\ cardState' \in [Cards -> {"new", "attached", "detached"}]
        /\ detaches' \in SUBSET Cards /\ faults' \in 0 .. MaxFaults
    BY <1>2, SubscriptionAssumption DEF CancelTrial, Detach, Fault, IInv, TypeOK
  <2>3. TypeOK'
    BY <1>2, <2>1, <2>2, MovesEmpty DEF CancelTrial, IInv, TypeOK, tenantVars, sessionVars
  <2>4. UNCHANGED <<status, active, subId, sub, feed, made, mishap>>
    BY <1>2 DEF CancelTrial, tenantVars
  <2>5. QED
    BY <2>1, <2>3, <2>4, MovesEmpty, NothingChanges
<1>3. CASE Select(w)
  <2>1. pc[w] \notin Making /\ pc' = [pc EXCEPT ![w] = "finalize"]
    BY <1>3 DEF Select, Start, Making
  <2>2. TypeOK'
    BY <1>3, <2>1, MovesEmpty DEF Select, IInv, TypeOK, tenantVars, stripeVars, sessionVars
  <2>3. UNCHANGED <<status, active, subId, sub, feed, made, mishap>>
    BY <1>3 DEF Select, tenantVars, stripeVars
  <2>4. QED
    BY <2>1, <2>2, <2>3, MovesEmpty, NothingChanges
<1>4. ASSUME NEW e \in setups, SetupEvent(w, e) PROVE IInv'
  <2>1. pc[w] \notin Making /\ e \in SetupEvents
    BY <1>4 DEF SetupEvent, Making, IInv, TypeOK
  <2>2. \/ pc' = [pc EXCEPT ![w] = "resume"] /\ job' = [job EXCEPT ![w] = e] /\ UNCHANGED setups
        \/ setups' = setups \ {e} /\ UNCHANGED <<pc, job>>
    BY <1>4 DEF SetupEvent
  <2>3. /\ pc' \in [Workers -> {"idle", "resume", "make", "commit", "finalize", "record", "cancel"}]
        /\ \A v \in Workers : /\ pc'[v] \in Making <=> pc[v] \in Making
                              /\ pc'[v] = "record" => pc[v] = "record"
    <3>1. CASE pc' = [pc EXCEPT ![w] = "resume"]
      BY <2>1, <3>1, MovesEmpty
    <3>2. CASE UNCHANGED pc
      BY <3>2 DEF IInv, TypeOK
    <3>3. QED
      BY <2>2, <3>1, <3>2
  <2>4. card' \in Cards \cup {None}
    BY <1>4, <2>1 DEF SetupEvent, SetupEvents
  <2>5. job' \in [Workers -> SetupEvents \cup {None}] /\ setups' \in SUBSET SetupEvents
    BY <2>1, <2>2 DEF IInv, TypeOK
  <2>6. TypeOK'
    BY <1>4, <2>3, <2>4, <2>5 DEF SetupEvent, IInv, TypeOK, sessionVars
  <2>7. UNCHANGED <<status, active, subId, sub, feed, made, mishap>>
    BY <1>4 DEF SetupEvent
  <2>8. QED
    BY <2>3, <2>6, <2>7, NothingChanges
<1>5. QED
  BY <1>1, <1>2, <1>3, <1>4

LEMMA CallsEndEmpty ==
  ASSUME IInv, NEW w \in Workers, CreateRead(w) \/ MakeFails(w) \/ Extend(w) \/ ChargeFails(w)
  PROVE  IInv'
<1>1. pc[w] \notin Making
  BY DEF CreateRead, MakeFails, Extend, ChargeFails, Making
<1>2. ASSUME CreateRead(w), card \in Cards,
             pc' = [pc EXCEPT ![w] = "make"], used' = [used EXCEPT ![w] = card],
             UNCHANGED <<job, made, setups>>
      PROVE  IInv'
  <2>1. TypeOK'
    BY <1>1, <1>2, MovesEmpty DEF CreateRead, IInv, TypeOK, tenantVars, sessionVars
  <2>2. UNCHANGED <<status, active, subId, sub, feed, made, mishap>>
    BY <1>2 DEF CreateRead, tenantVars
  <2>3. QED
    BY <1>1, <1>2, <2>1, <2>2, MovesEmpty, NothingChanges
<1>3. ASSUME End(w) PROVE IInv'
  <2>1. faults' \in 0 .. MaxFaults /\ UNCHANGED <<status, active, subId, sub, feed, mishap>>
    BY SubscriptionAssumption
       DEF CreateRead, MakeFails, Extend, ChargeFails, Fault, tenantVars, IInv, TypeOK
  <2>2. /\ trial' \in {"none", "running", "over"} /\ extended' \in BOOLEAN
        /\ UNCHANGED <<card, cardState, detaches, reopened, closed, leaving>>
    BY DEF CreateRead, MakeFails, Extend, ChargeFails, tenantVars, sessionVars, IInv, TypeOK
  <2>3. made' = made
    BY <1>1, <1>3, EndsEmpty
  <2>4. TypeOK'
    BY <1>1, <1>3, <2>1, <2>2, <2>3, EndsEmpty DEF IInv, TypeOK
  <2>5. QED
    BY <1>1, <1>3, <2>1, <2>3, <2>4, EndsEmpty, NothingChanges
<1>4. CASE CreateRead(w)
  BY <1>2, <1>3, <1>4 DEF CreateRead, IInv, TypeOK
<1>5. QED
  BY <1>3, <1>4 DEF CreateRead, MakeFails, Extend, ChargeFails

-----------------------------------------------------------------------------
(* Steps that change a subscription or what the row says of it             *)

\* A report is added at the end.
LEMMA ReportAppends ==
  ASSUME TypeOK, NEW s \in Subs, NEW st \in SubStates, Report(s, st)
  PROVE  /\ feed' \in BoundedSeq(Reports, MaxFeed)
         /\ Len(feed) \in Nat /\ Len(feed') = Len(feed) + 1
         /\ \A i \in 1 .. Len(feed) : feed'[i] = feed[i] /\ feed[i] \in Reports
         /\ feed'[Len(feed')] = <<s, st>>
<1>1. feed \in Seq(Reports)
  BY BoundedFeed DEF TypeOK, Reports
<1>2. <<s, st>> \in Reports
  BY DEF Reports
<1>3. /\ feed' \in Seq(Reports) /\ Len(feed') = Len(feed) + 1 /\ Len(feed) \in Nat
      /\ \A i \in 1 .. Len(feed) : feed'[i] = feed[i]
      /\ feed'[Len(feed) + 1] = <<s, st>>
  BY <1>1, <1>2, AppendProperties, LenProperties DEF Report
<1>4. Len(feed') <= MaxFeed
  BY <1>3, SubscriptionAssumption DEF Report
<1>5. \A i \in 1 .. Len(feed) : feed[i] \in Reports
  BY <1>1, ElementOfSeq
<1>6. QED
  BY <1>3, <1>4, <1>5, BoundedFeed

\* A subscription that has not ended changes, and this is reported.
LEMMA ChangesReported ==
  ASSUME IInv, NEW s \in Subs, NEW st \in Open \cup Ends, sub[s] \in Open,
         sub' = [sub EXCEPT ![s] = st], Report(s, st)
  PROVE  /\ sub' \in [Subs -> SubStates] /\ feed' \in BoundedSeq(Reports, MaxFeed)
         /\ Reported' /\ (Ordered => LastIsTrue')
         /\ ~Settled(s)'
         /\ \A t \in Subs : Settled(t)' => Settled(t) /\ sub'[t] = sub[t]
         /\ Standing' \subseteq Standing /\ (st \in Ends => s \notin Standing')
<1>1. st \in SubStates /\ st # "none"
  BY DEF Open, Live, Ends, SubStates
<1>2. /\ feed' \in BoundedSeq(Reports, MaxFeed)
      /\ Len(feed) \in Nat /\ Len(feed') = Len(feed) + 1
      /\ \A i \in 1 .. Len(feed) : feed'[i] = feed[i] /\ feed[i] \in Reports
      /\ feed'[Len(feed')] = <<s, st>>
  BY <1>1, ReportAppends DEF IInv
<1>3. \A t \in Subs : sub'[t] = IF t = s THEN st ELSE sub[t]
  BY DEF IInv, TypeOK
<1>4. \A i \in 1 .. Len(feed) : feed[i][1] \in Subs
  BY <1>2 DEF Reports
<1>5. \A i \in 1 .. Len(feed') : i = Len(feed') \/ i \in 1 .. Len(feed)
  BY <1>2
<1>6. Len(feed') \in 1 .. Len(feed') /\ \A i \in 1 .. Len(feed) : i \in 1 .. Len(feed') /\ i < Len(feed')
  BY <1>2
<1>7. ASSUME NEW i \in 1 .. Len(feed')
      PROVE  /\ feed'[i][2] # "none" /\ sub'[feed'[i][1]] # "none"
             /\ feed'[i][2] \in Ends => sub'[feed'[i][1]] = feed'[i][2]
  <2>1. CASE i = Len(feed')
    BY <1>1, <1>2, <1>3, <2>1
  <2>2. CASE i \in 1 .. Len(feed)
    <3>1. /\ feed[i][2] # "none" /\ sub[feed[i][1]] # "none"
          /\ feed[i][2] \in Ends => sub[feed[i][1]] = feed[i][2]
      BY <2>2 DEF IInv, Reported
    <3>2. feed'[i] = feed[i] /\ feed[i][1] \in Subs
      BY <1>2, <1>4, <2>2
    <3>3. QED
      BY <1>1, <1>3, <3>1, <3>2 DEF Open, Live, Ends
  <2>3. QED
    BY <1>5, <2>1, <2>2
<1>8. ASSUME LastIsTrue, NEW i \in 1 .. Len(feed'),
             \A j \in 1 .. Len(feed') : j > i => feed'[j][1] # feed'[i][1]
      PROVE  feed'[i][2] = sub'[feed'[i][1]]
  <2>1. CASE i = Len(feed')
    BY <1>2, <1>3, <2>1
  <2>2. CASE i \in 1 .. Len(feed)
    <3>1. feed'[i] = feed[i] /\ feed[i][1] \in Subs
      BY <1>2, <1>4, <2>2
    <3>2. feed[i][1] # s
      BY <1>2, <1>6, <1>8, <2>2, <3>1
    <3>3. \A j \in 1 .. Len(feed) : j > i => feed[j][1] # feed[i][1]
      BY <1>2, <1>6, <1>8, <3>1
    <3>4. feed[i][2] = sub[feed[i][1]]
      BY <1>8, <2>2, <3>3 DEF LastIsTrue
    <3>5. QED
      BY <1>3, <3>1, <3>2, <3>4
  <2>3. QED
    BY <1>5, <2>1, <2>2
<1>9. ~Settled(s)'
  BY <1>2, <1>6 DEF Settled
<1>10. \A t \in Subs : Settled(t)' => Settled(t) /\ sub'[t] = sub[t]
  BY <1>2, <1>3, <1>6, <1>9 DEF Settled
<1>11. Standing' \subseteq Standing /\ (st \in Ends => s \notin Standing')
  BY <1>3 DEF Standing, Open, Live, Ends
<1>12. sub' \in [Subs -> SubStates]
  BY <1>1 DEF IInv, TypeOK
<1>13. QED
  BY <1>2, <1>7, <1>8, <1>9, <1>10, <1>11, <1>12 DEF Reported, LastIsTrue, IInv

LEMMA BecomesKeeps ==
  ASSUME IInv, NEW s \in Subs, NEW st \in SubStates, Becomes(s, st) PROVE IInv'
<1> USE DEF tenantVars, sessionVars, workerVars
<1>0. sub[s] \in Open /\ st \in Open \cup Ends
  BY DEF Becomes, Open, Live, Ends
<1> USE DEF Becomes
<1>1. /\ sub' \in [Subs -> SubStates] /\ feed' \in BoundedSeq(Reports, MaxFeed)
      /\ Reported' /\ (Ordered => LastIsTrue')
      /\ ~Settled(s)'
      /\ \A t \in Subs : Settled(t)' => Settled(t) /\ sub'[t] = sub[t]
      /\ Standing' \subseteq Standing
  BY <1>0, ChangesReported
<1>2. TypeOK'
  BY <1>1 DEF IInv, TypeOK, Reports
<1>3. Holding' /\ OnTrial'
  BY DEF IInv, Holding, OnTrial
<1>4. Single'
  BY <1>1 DEF IInv, Single, OneSubscription
<1>5. Agrees => Agrees'
  <2> SUFFICES ASSUME Agrees, ~mishap
               PROVE  /\ subId # None /\ Settled(subId)' =>
                           /\ sub'[subId] = "active" => active
                           /\ active => sub'[subId] \in {"active", "incomplete"}
                      /\ \A w \in Workers :
                           made[w] # None /\ Settled(made[w])'
                             => sub'[made[w]] \in {"active", "incomplete"}
                      /\ subId = None /\ status # "trialing" => ~active
    BY DEF Agrees, Settled
  <2>1. subId \in Subs \cup {None} /\ \A w \in Workers : made[w] \in Subs \cup {None}
    BY DEF IInv, TypeOK
  <2>2. QED
    BY <1>1, <2>1 DEF Agrees
<1>6. QED
  BY <1>1, <1>2, <1>3, <1>4, <1>5 DEF IInv

\* Process w makes subscription s at Stripe.
LEMMA MakesOne ==
  ASSUME IInv, NEW w \in Workers, pc[w] \notin Making, NEW next \in Making,
         NEW s \in Subs, NEW first \in {"active", "incomplete"},
         sub[s] = "none", sub' = [sub EXCEPT ![s] = first],
         made' = [made EXCEPT ![w] = s], pc' = [pc EXCEPT ![w] = next], mishap' \in BOOLEAN,
         ~mishap' => /\ ~mishap /\ subId = None /\ \A v \in Workers : made[v] = None
                     /\ next = "record" => status = "trialing",
         UNCHANGED <<tenantVars, cardState, setups, detaches, feed, sessionVars, job, used,
                     leaving, faults>>
  PROVE  IInv'
<1> USE DEF tenantVars, sessionVars
<1>1. /\ \A t \in Subs : sub'[t] = IF t = s THEN first ELSE sub[t]
      /\ \A v \in Workers : /\ made'[v] = IF v = w THEN s ELSE made[v]
                            /\ pc'[v] = IF v = w THEN next ELSE pc[v]
  BY DEF IInv, TypeOK
<1>2. s # None
  BY SubscriptionAssumption
<1>3. TypeOK'
  BY DEF IInv, TypeOK, SubStates, Making
<1>4. Holding' /\ OnTrial'
  BY <1>1, <1>2 DEF IInv, Holding, OnTrial
<1>5. \A i \in 1 .. Len(feed) : feed[i][1] # s /\ feed[i][1] \in Subs
  <2>1. feed \in Seq(Reports)
    BY BoundedFeed DEF IInv, TypeOK, Reports
  <2>2. \A i \in 1 .. Len(feed) : feed[i] \in Reports
    BY <2>1, ElementOfSeq
  <2>3. QED
    BY <2>2 DEF IInv, Reported, Reports
<1>6. Reported' /\ (LastIsTrue => LastIsTrue')
  BY <1>1, <1>5 DEF IInv, Reported, LastIsTrue
<1>7. ~mishap' => Standing = {}
  BY SubscriptionAssumption DEF IInv, Single, OneSubscription, Standing
<1>8. Single'
  <2> SUFFICES ASSUME ~mishap' PROVE Single'
    BY DEF Single
  <2>1. \A t \in Standing' : t = s
    BY <1>1, <1>7 DEF Standing
  <2>2. OneSubscription'
    BY <1>1, <2>1 DEF OneSubscription
  <2>3. \A v \in Workers : made'[v] # None => v = w
    BY <1>1
  <2>4. \A v \in Workers : pc'[v] = "record" => v = w /\ status = "trialing"
    BY <1>1 DEF IInv, Holding, Making
  <2>5. QED
    BY <2>2, <2>3, <2>4 DEF Single
<1>9. Agrees => Agrees'
  <2> SUFFICES ASSUME Agrees, ~mishap'
               PROVE  /\ subId # None /\ Settled(subId) =>
                           /\ sub'[subId] = "active" => active
                           /\ active => sub'[subId] \in {"active", "incomplete"}
                      /\ \A v \in Workers :
                           made'[v] # None /\ Settled(made'[v])
                             => sub'[made'[v]] \in {"active", "incomplete"}
                      /\ subId = None /\ status # "trialing" => ~active
    BY DEF Agrees, Settled
  <2>1. QED
    BY <1>1 DEF Agrees
<1>10. QED
  BY <1>3, <1>4, <1>6, <1>8, <1>9 DEF IInv

LEMMA MakesKeep ==
  ASSUME IInv, NEW w \in Workers, Make(w) \/ Charge(w) PROVE IInv'
<1>1. mishap' \in BOOLEAN
  BY DEF Make, Charge, MakeAt, Overtakes, IInv, TypeOK
<1>2. CASE Make(w)
  <2>1. PICK s \in Subs, first \in {"active", "incomplete"} :
             /\ sub[s] = "none" /\ sub' = [sub EXCEPT ![s] = first]
             /\ made' = [made EXCEPT ![w] = s] /\ pc' = [pc EXCEPT ![w] = "commit"]
             /\ Overtakes(subId # None)
    BY <1>2 DEF Make, MakeAt
  <2>2. ~mishap' => ~mishap /\ subId = None /\ \A v \in Workers : made[v] = None
    BY <2>1 DEF Overtakes
  <2>3. pc[w] \notin Making /\ "commit" \in Making /\ "commit" # "record"
    BY <1>2 DEF Make, Making
  <2>4. UNCHANGED <<tenantVars, cardState, setups, detaches, feed, sessionVars, job, used,
                    leaving, faults>>
    BY <1>2 DEF Make
  <2>5. QED
    BY <1>1, <2>1, <2>2, <2>3, <2>4, MakesOne
<1>3. CASE Charge(w)
  <2>1. PICK s \in Subs, first \in {"active", "incomplete"} :
             /\ sub[s] = "none" /\ sub' = [sub EXCEPT ![s] = first]
             /\ made' = [made EXCEPT ![w] = s] /\ pc' = [pc EXCEPT ![w] = "record"]
             /\ Overtakes(status # "trialing")
    BY <1>3 DEF Charge, MakeAt
  <2>2. ~mishap' => /\ ~mishap /\ subId = None /\ \A v \in Workers : made[v] = None
                    /\ status = "trialing"
    BY <2>1 DEF Overtakes, IInv, OnTrial
  <2>3. pc[w] \notin Making /\ "record" \in Making
    BY <1>3 DEF Charge, Making
  <2>4. UNCHANGED <<tenantVars, cardState, setups, detaches, feed, sessionVars, job, used,
                    leaving, faults>>
    BY <1>3 DEF Charge
  <2>5. QED
    BY <1>1, <2>1, <2>2, <2>3, <2>4, MakesOne
<1>4. QED
  BY <1>2, <1>3

\* The subscription is recorded on the row.
LEMMA RecordsKeep ==
  ASSUME IInv, NEW w \in Workers, Commit(w) \/ Record(w) PROVE IInv'
<1>1. /\ pc[w] \in Making /\ made[w] # None /\ made[w] \in Subs
      /\ subId' = made[w] /\ status' = "active" /\ End(w)
      /\ active' \in BOOLEAN /\ (pc[w] = "commit" => active') /\ (pc[w] = "record" => active' = active)
      /\ UNCHANGED <<sub, feed, mishap>>
  BY DEF Commit, Record, Making, IInv, Holding, TypeOK
<1>2. \A v \in Workers : /\ made'[v] = IF v = w THEN None ELSE made[v]
                         /\ pc'[v] = IF v = w THEN "idle" ELSE pc[v]
  BY <1>1 DEF End, IInv, TypeOK
<1>3. TypeOK'
  <2>1. /\ pc' \in [Workers -> {"idle", "resume", "make", "commit", "finalize", "record", "cancel"}]
        /\ job' \in [Workers -> SetupEvents \cup {None}]
        /\ used' \in [Workers -> Cards \cup {None}] /\ made' \in [Workers -> Subs \cup {None}]
        /\ setups' \in SUBSET SetupEvents
    BY <1>1 DEF End, IInv, TypeOK
  <2>2. status' \in Statuses
    BY <1>1 DEF Statuses, SubStates
  <2>3. QED
    BY <1>1, <2>1, <2>2 DEF Commit, Record, IInv, TypeOK, sessionVars
<1>4. Holding' /\ OnTrial'
  BY <1>1, <1>2 DEF IInv, Holding, OnTrial, Making
<1>5. Reported' /\ LastIsTrue' = LastIsTrue
  BY <1>1 DEF IInv, Reported, LastIsTrue
<1>6. ~mishap => \A v \in Workers : made'[v] = None
  BY <1>1, <1>2 DEF IInv, Single
<1>7. ~mishap => \A t \in Standing : t = made[w]
  BY <1>1, SubscriptionAssumption DEF IInv, Single, OneSubscription, Standing
<1>8. Single'
  <2> SUFFICES ASSUME ~mishap PROVE Single'
    BY <1>1 DEF Single
  <2>1. Standing' = Standing
    BY <1>1 DEF Standing
  <2>2. OneSubscription'
    BY <1>1, <1>7, <2>1 DEF OneSubscription
  <2>3. \A v \in Workers : pc'[v] # "record"
    BY <1>4, <1>6 DEF Holding, Making
  <2>4. QED
    BY <1>6, <2>2, <2>3 DEF Single
<1>9. Agrees => Agrees'
  <2> SUFFICES ASSUME Agrees, ~mishap
               PROVE  /\ active' /\ (Settled(made[w]) => sub[made[w]] \in {"active", "incomplete"})
                      /\ \A v \in Workers : made'[v] = None
    BY <1>1 DEF Agrees, Settled
  <2>1. active'
    BY <1>1 DEF IInv, Single, OnTrial, Making
  <2>2. Settled(made[w]) => sub[made[w]] \in {"active", "incomplete"}
    BY <1>1 DEF Agrees
  <2>3. QED
    BY <1>6, <2>1, <2>2
<1>10. QED
  BY <1>3, <1>4, <1>5, <1>8, <1>9 DEF IInv

\* The operator cancels the trial or is paused: access ends.
LEMMA AccessEnds ==
  ASSUME IInv, NEW w \in Workers, CancelWrite(w) \/ Pause(w) PROVE IInv'
<1>1. /\ pc[w] \notin Making /\ End(w) /\ active' = FALSE
      /\ status' \in {"cancelled", "paused_no_card"} /\ trial' = "none"
      /\ card' \in {card, None} /\ leaving' \in BOOLEAN /\ mishap' \in BOOLEAN
      /\ UNCHANGED <<extended, subId, sub, cardState, detaches, feed, sessionVars, faults>>
  BY DEF CancelWrite, Pause, Overtakes, Making, IInv, TypeOK
<1>2. ~mishap' => ~mishap /\ subId = None /\ \A v \in Workers : made[v] = None
  BY DEF CancelWrite, Pause, Overtakes, IInv, OnTrial
<1>3. /\ made' = made
      /\ \A v \in Workers : pc'[v] \in Making <=> pc[v] \in Making
  BY <1>1, EndsEmpty
<1>4. TypeOK'
  BY <1>1, EndsEmpty DEF IInv, TypeOK, Statuses, sessionVars
<1>5. Holding' /\ OnTrial'
  BY <1>1, <1>3 DEF IInv, Holding, OnTrial
<1>6. Reported' /\ LastIsTrue' = LastIsTrue
  BY <1>1 DEF IInv, Reported, LastIsTrue
<1>7. Single'
  <2> SUFFICES ASSUME ~mishap' PROVE Single'
    BY DEF Single
  <2>1. OneSubscription'
    BY <1>1, <1>2, <1>3 DEF IInv, Single, OneSubscription, Standing, Open, Live
  <2>2. \A v \in Workers : pc'[v] # "record"
    BY <1>2, <1>3, <1>5 DEF Holding, Making
  <2>3. QED
    BY <1>2, <1>3, <2>1, <2>2 DEF Single
<1>8. Agrees'
  BY <1>1, <1>2, <1>3 DEF Agrees
<1>9. QED
  BY <1>4, <1>5, <1>6, <1>7, <1>8 DEF IInv

LEMMA DeleteKeeps ==
  ASSUME IInv, DeleteAccount PROVE IInv'
<1>1. /\ active' = FALSE /\ status' = "deleted" /\ subId' = None /\ card' = None
      /\ closed' = TRUE /\ mishap' \in BOOLEAN /\ faults' \in 0 .. MaxFaults
      /\ UNCHANGED <<trial, extended, cardState, setups, detaches, reopened, workerVars, leaving>>
  <2>1. faults' = faults \/ Fault
    BY DEF DeleteAccount
  <2>2. faults' \in 0 .. MaxFaults
    BY <2>1, SubscriptionAssumption DEF Fault, IInv, TypeOK
  <2>3. mishap' \in BOOLEAN
    BY DEF DeleteAccount, Overtakes, IInv, TypeOK
  <2>4. QED
    BY <2>2, <2>3 DEF DeleteAccount
<1>2. ~mishap' => ~mishap /\ \A v \in Workers : made[v] = None
  BY DEF DeleteAccount, Overtakes
<1>3. /\ sub' \in [Subs -> SubStates] /\ feed' \in BoundedSeq(Reports, MaxFeed)
      /\ Reported' /\ (Ordered => LastIsTrue')
      /\ ~mishap' => Standing' = {}
  <2>1. ASSUME subId # None, sub[subId] \in Open, NEW st \in Ends,
               sub' = [sub EXCEPT ![subId] = st], Report(subId, st)
        PROVE  /\ sub' \in [Subs -> SubStates] /\ feed' \in BoundedSeq(Reports, MaxFeed)
               /\ Reported' /\ (Ordered => LastIsTrue')
               /\ ~mishap' => Standing' = {}
    <3>1. subId \in Subs
      BY <2>1 DEF IInv, TypeOK
    <3>2. /\ sub' \in [Subs -> SubStates] /\ feed' \in BoundedSeq(Reports, MaxFeed)
          /\ Reported' /\ (Ordered => LastIsTrue')
          /\ Standing' \subseteq Standing /\ subId \notin Standing'
      BY <2>1, <3>1, ChangesReported
    <3>3. ~mishap' => \A t \in Standing : t = subId
      BY <1>2, SubscriptionAssumption DEF IInv, Single, OneSubscription, Standing
    <3>4. QED
      BY <3>2, <3>3
  <2>2. CASE UNCHANGED <<sub, feed>>
    <3>1. Reported' /\ LastIsTrue' = LastIsTrue
      BY <2>2 DEF IInv, Reported, LastIsTrue
    <3>2. ~mishap' => subId = None \/ sub[subId] \notin Open
      BY <2>2 DEF DeleteAccount, Overtakes, Open, Live, IInv, TypeOK
    <3>3. ~mishap' => \A t \in Standing : FALSE
      BY <1>2, <3>2, SubscriptionAssumption DEF IInv, Single, OneSubscription, Standing
    <3>4. Standing' = Standing
      BY <2>2 DEF Standing
    <3>5. QED
      BY <2>2, <3>1, <3>3, <3>4 DEF IInv, TypeOK, Reports
  <2>3. QED
    BY <2>1, <2>2 DEF DeleteAccount, Ends
<1>4. TypeOK'
  BY <1>1, <1>3 DEF IInv, TypeOK, Statuses, Reports, workerVars
<1>5. Holding' /\ OnTrial'
  BY <1>1 DEF IInv, Holding, OnTrial, workerVars
<1>6. Single'
  <2> SUFFICES ASSUME ~mishap' PROVE Single'
    BY DEF Single
  <2>1. OneSubscription'
    BY <1>3 DEF OneSubscription
  <2>2. \A v \in Workers : made'[v] = None /\ pc'[v] # "record"
    BY <1>1, <1>2 DEF IInv, Holding, Making, workerVars
  <2>3. QED
    BY <2>1, <2>2 DEF Single
<1>7. Agrees'
  BY <1>1, <1>2 DEF Agrees, workerVars
<1>8. QED
  BY <1>3, <1>4, <1>5, <1>6, <1>7 DEF IInv

\* A report is handled; those of one subscription in their order.
LEMMA FeedEventKeeps ==
  ASSUME IInv, NEW i \in 1 .. Len(feed), Ordered => i = 1, FeedEvent(i) PROVE IInv'
<1> DEFINE s == feed[i][1]
           st == feed[i][2]
<1>1. feed \in Seq(Reports) /\ Len(feed) <= MaxFeed
  BY BoundedFeed DEF IInv, TypeOK, Reports
<1>2. Len(feed) \in Nat /\ feed[i] \in Reports
  BY <1>1, LenProperties, ElementOfSeq
<1>3. /\ s \in Subs /\ st \in SubStates /\ st # "none" /\ sub[s] # "none"
      /\ st \in Ends => sub[s] = st
  BY <1>2 DEF Reports, IInv, Reported
<1>4. /\ feed' \in Seq(Reports) /\ Len(feed') = Len(feed) - 1
      /\ \A j \in 1 .. Len(feed) - 1 : feed'[j] = IF j < i THEN feed[j] ELSE feed[j + 1]
  BY <1>1, Removed DEF FeedEvent
<1>5. /\ UNCHANGED <<trial, extended, card, sub, cardState, setups, detaches,
                     sessionVars, workerVars, leaving, faults>>
      /\ mishap' \in BOOLEAN
      /\ ~mishap' => ~mishap /\ subId \in {s, None} /\ \A v \in Workers : made[v] = None
      /\ \/ st = "canceled" /\ status' = "canceled" /\ active' = FALSE /\ subId' = None
         \/ st # "canceled" /\ status' = st /\ active' = (st = "active") /\ subId' = s
  BY DEF FeedEvent, Overtakes, Deleted, Updated, IInv, TypeOK
<1>6. \A j \in 1 .. Len(feed') : \E k \in 1 .. Len(feed) : feed'[j] = feed[k]
  <2> SUFFICES ASSUME NEW j \in 1 .. Len(feed') PROVE \E k \in 1 .. Len(feed) : feed'[j] = feed[k]
    OBVIOUS
  <2>1. j \in 1 .. Len(feed) /\ j + 1 \in 1 .. Len(feed) /\ j \in 1 .. Len(feed) - 1
    BY <1>2, <1>4
  <2>2. QED
    BY <1>4, <2>1
<1>7. Reported'
  BY <1>5, <1>6 DEF IInv, Reported
<1>8. i = 1 => \A j \in 1 .. Len(feed') : j + 1 \in 1 .. Len(feed) /\ feed'[j] = feed[j + 1]
  BY <1>2, <1>4
<1>9. i = 1 => \A k \in 1 .. Len(feed) : k = 1 \/ (k - 1 \in 1 .. Len(feed') /\ feed'[k - 1] = feed[k])
  <2> SUFFICES ASSUME i = 1, NEW k \in 1 .. Len(feed), k # 1
               PROVE  k - 1 \in 1 .. Len(feed') /\ feed'[k - 1] = feed[k]
    OBVIOUS
  <2>1. k - 1 \in 1 .. Len(feed') /\ (k - 1) + 1 = k
    BY <1>2, <1>4
  <2>2. QED
    BY <1>8, <2>1
<1>10. Ordered => LastIsTrue'
  <2> SUFFICES ASSUME Ordered, NEW j \in 1 .. Len(feed'),
                      \A k \in 1 .. Len(feed') : k > j => feed'[k][1] # feed'[j][1]
               PROVE  feed'[j][2] = sub[feed'[j][1]]
    BY <1>5 DEF LastIsTrue
  <2>1. i = 1 /\ j + 1 \in 1 .. Len(feed) /\ feed'[j] = feed[j + 1]
    BY <1>8
  <2>2. ASSUME NEW k \in 1 .. Len(feed), k > j + 1 PROVE feed[k][1] # feed[j + 1][1]
    <3>1. k # 1 /\ k - 1 > j
      BY <1>2, <1>4, <2>2
    <3>2. k - 1 \in 1 .. Len(feed') /\ feed'[k - 1] = feed[k]
      BY <1>9, <2>1, <3>1
    <3>3. QED
      BY <2>1, <3>1, <3>2
  <2>3. QED
    BY <2>1, <2>2 DEF IInv, LastIsTrue
<1>11. Ordered /\ (\A j \in 1 .. Len(feed') : feed'[j][1] # s) => st = sub[s]
  <2> SUFFICES ASSUME Ordered, \A j \in 1 .. Len(feed') : feed'[j][1] # s PROVE st = sub[s]
    OBVIOUS
  <2>1. \A k \in 1 .. Len(feed) : k > 1 => feed[k][1] # s
    BY <1>9
  <2>2. QED
    BY <2>1 DEF IInv, LastIsTrue
<1> HIDE DEF s, st
<1>12. TypeOK'
  <2>1. feed' \in BoundedSeq(Reports, MaxFeed)
    <3>1. Len(feed') <= MaxFeed
      BY <1>1, <1>2, <1>4, SubscriptionAssumption
    <3>2. QED
      BY <1>4, <3>1, BoundedFeed
  <2>2. status' \in Statuses /\ active' \in BOOLEAN /\ subId' \in Subs \cup {None}
    BY <1>3, <1>5 DEF Statuses, SubStates
  <2>3. QED
    BY <1>5, <2>1, <2>2 DEF IInv, TypeOK, Reports, sessionVars, workerVars
<1>13. Holding' /\ OnTrial'
  BY <1>3, <1>5 DEF IInv, Holding, OnTrial, SubStates, workerVars
<1>14. Single'
  <2> SUFFICES ASSUME ~mishap' PROVE Single'
    BY DEF Single
  <2>1. \A t \in Standing : t = s /\ subId = s /\ sub[s] \notin Ends
    BY <1>5, SubscriptionAssumption
       DEF IInv, Single, OneSubscription, Standing, Open, Live, Ends
  <2>2. Standing' = Standing
    BY <1>5 DEF Standing
  <2>3. OneSubscription'
    BY <1>3, <1>5, <2>1, <2>2 DEF OneSubscription, Ends
  <2>4. \A v \in Workers : made'[v] = None /\ pc'[v] # "record"
    BY <1>5 DEF IInv, Holding, Making, workerVars
  <2>5. QED
    BY <2>3, <2>4 DEF Single
<1>15. Ordered => Agrees'
  <2> SUFFICES ASSUME Ordered, ~mishap' PROVE Agrees'
    BY DEF Agrees
  <2>1. \A v \in Workers : made'[v] = None
    BY <1>5 DEF workerVars
  <2>2. CASE st = "canceled"
    BY <1>5, <2>1, <2>2 DEF Agrees
  <2>3. CASE st # "canceled"
    <3>1. subId' = s /\ active' = (st = "active") /\ sub' = sub /\ s # None
      BY <1>3, <1>5, <2>3, SubscriptionAssumption
    <3>2. (\A j \in 1 .. Len(feed') : feed'[j][1] # s) => (active' <=> sub'[s] = "active")
      BY <1>11, <3>1
    <3>3. QED
      BY <2>1, <3>1, <3>2 DEF Agrees, Settled
  <2>4. QED
    BY <2>2, <2>3
<1>16. QED
  BY <1>7, <1>10, <1>12, <1>13, <1>14, <1>15 DEF IInv

LEMMA DieKeeps ==
  ASSUME IInv, NEW w \in Workers, Die(w) PROVE IInv'
<1>1. /\ pc' = [pc EXCEPT ![w] = "idle"] /\ made' = [made EXCEPT ![w] = None]
      /\ mishap' = (mishap \/ made[w] # None)
      /\ UNCHANGED <<tenantVars, stripeVars, sessionVars, leaving>>
  BY DEF Die
<1>2. \A v \in Workers : /\ pc'[v] = IF v = w THEN "idle" ELSE pc[v]
                         /\ made'[v] = IF v = w THEN None ELSE made[v]
  BY <1>1 DEF IInv, TypeOK
<1>3. TypeOK'
  <2>1. faults' \in 0 .. MaxFaults
    BY SubscriptionAssumption DEF Die, Fault, IInv, TypeOK
  <2>2. QED
    BY <1>1, <2>1 DEF Die, IInv, TypeOK, tenantVars, stripeVars, sessionVars
<1>4. CASE made[w] = None
  <2>1. made' = made /\ mishap' = mishap
    BY <1>1, <1>4 DEF IInv, TypeOK
  <2>2. \A v \in Workers : /\ pc'[v] \in Making <=> pc[v] \in Making
                           /\ pc'[v] = "record" => pc[v] = "record"
    BY <1>2, <1>4 DEF IInv, Holding, Making
  <2>3. QED
    BY <1>1, <1>3, <2>1, <2>2, NothingChanges DEF tenantVars, stripeVars
<1>5. CASE made[w] # None
  <2>1. mishap'
    BY <1>1, <1>5
  <2>2. Holding' /\ OnTrial'
    BY <1>1, <1>2 DEF IInv, Holding, OnTrial, Making, tenantVars
  <2>3. Reported' /\ LastIsTrue' = LastIsTrue
    BY <1>1 DEF IInv, Reported, LastIsTrue, stripeVars
  <2>4. Single' /\ Agrees'
    BY <2>1 DEF Single, Agrees
  <2>5. QED
    BY <1>3, <2>2, <2>3, <2>4 DEF IInv
<1>6. QED
  BY <1>4, <1>5

-----------------------------------------------------------------------------
(* The theorems                                                            *)

LEMMA NextKeeps == IInv /\ [Next]_vars => IInv'
<1> SUFFICES ASSUME IInv, [Next]_vars PROVE IInv'
  OBVIOUS
<1>1. ASSUME NEW s \in Subs, NEW st \in SubStates, Becomes(s, st) PROVE IInv'
  BY <1>1, BecomesKeeps
<1>2. ASSUME NEW c \in Cards,
             \/ RemoveCard(c) \/ StoreCard(c) \/ DetachEvent(c)
             \/ \E r \in BOOLEAN : CompleteSetup(c, r)
      PROVE  IInv'
  BY <1>2, StripeSideKeeps
<1>3. ASSUME OpenReactivation \/ DeleteAccount \/ TrialEnds PROVE IInv'
  BY <1>3, ClockKeeps, DeleteKeeps
<1>4. ASSUME NEW w \in Workers, Work(w) PROVE IInv'
  BY <1>4, CallsEndEmpty, MakesKeep, RecordsKeep, AccessEnds DEF Work, Finalize
<1>5. ASSUME NEW w \in Workers,
             \/ Resume(w) \/ CancelTrial(w) \/ Select(w) \/ Die(w)
             \/ \E e \in setups : SetupEvent(w, e)
      PROVE  IInv'
  BY <1>5, CallsStart, DieKeeps
<1>6. ASSUME NEW i \in 1 .. Len(feed), Ordered => i = 1, FeedEvent(i) PROVE IInv'
  BY <1>6, FeedEventKeeps
<1>7. CASE UNCHANGED vars
  <2>1. TypeOK'
    BY <1>7 DEF IInv, TypeOK, vars, tenantVars, stripeVars, sessionVars, workerVars
  <2>2. QED
    BY <1>7, <2>1, NothingChanges DEF vars, tenantVars, stripeVars, sessionVars, workerVars
<1>8. QED
  BY <1>1, <1>2, <1>3, <1>4, <1>5, <1>6, <1>7 DEF Next

LEMMA Invariant == Spec => []IInv
<1>1. Init => IInv
  BY InitHolds
<1>2. IInv /\ [Next]_vars => IInv'
  BY NextKeeps
<1>3. QED
  BY <1>1, <1>2, PTL DEF Spec

\* Every variable keeps its type.
THEOREM OperatorTypeCorrect == Spec => []TypeOK
<1>1. IInv => TypeOK
  BY DEF IInv
<1>2. QED
  BY <1>1, Invariant, PTL

\* While no step overtakes a creation, an operator is billed for one
\* subscription at most, the one the row names or a process is to record, in
\* whatever order Stripe's reports are handled.
THEOREM BilledOnce == Spec => []OneSubscription
<1>1. IInv => OneSubscription
  BY DEF IInv, Single, OneSubscription
<1>2. QED
  BY <1>1, Invariant, PTL

LEMMA Agreement == ASSUME IInv, Ordered PROVE AccessIsBacked /\ PaidHasAccess
<1> SUFFICES ASSUME ~mishap, feed = <<>> PROVE AccessIsBacked /\ PaidHasAccess
  BY DEF AccessIsBacked, PaidHasAccess
<1>1. Settled(subId)
  BY EmptySeq DEF Settled
<1>2. QED
  BY <1>1 DEF IInv, Agrees, AccessIsBacked, PaidHasAccess

\* With the reports handled in Stripe's order, no operator past the trial has
\* kept access over a late payment, an expiry or a cancellation once no report
\* is under way.  Access without any payment is left in one case, that of a
\* declined first charge of which Stripe has not reported since.
THEOREM AccessStaysBacked == ASSUME Ordered PROVE Spec => []AccessIsBacked
<1>1. IInv => AccessIsBacked
  BY Agreement
<1>2. QED
  BY <1>1, Invariant, PTL

\* And an operator whose recorded subscription is paid then has access.
THEOREM PayersHaveAccess == ASSUME Ordered PROVE Spec => []PaidHasAccess
<1>1. IInv => PaidHasAccess
  BY Agreement
<1>2. QED
  BY <1>1, Invariant, PTL

-----------------------------------------------------------------------------
(* Cancelling a trial                                                      *)

\* A trial is cancelled while nothing else of the operator's is under way: no
\* Checkout completed but not handled, and no process at the subscription.
Quiet ==
  \A w \in Workers :
    CancelWrite(w) /\ ~leaving =>
      /\ status = "trialing" /\ ~mishap
      /\ setups = {}
      /\ \A v \in Workers : pc[v] \in {"idle", "cancel"}

\* Who left has no subscription, and nothing is under way that could bill.
Gone ==
  leaving =>
    /\ Standing = {}
    /\ setups = {}
    /\ status # "trialing"
    /\ \A w \in Workers : pc[w] \in {"idle", "cancel"}

\* While somebody has left, a step can only bring them back or leave it so.
LEMMA GoneStays ==
  ASSUME IInv, leaving, Gone, [Next]_vars
  PROVE  Gone'
<1>1. /\ Standing = {} /\ setups = {} /\ status # "trialing"
      /\ \A w \in Workers : pc[w] \in {"idle", "cancel"}
  BY DEF Gone
<1>2. \A s \in Subs : sub[s] \notin Open
  BY <1>1 DEF Standing
<1>3. ASSUME UNCHANGED <<sub, setups>>, status' # "trialing",
             \A w \in Workers : pc'[w] \in {"idle", "cancel"}
      PROVE  Gone'
  BY <1>1, <1>3 DEF Gone, Standing
<1>4. ~leaving' => Gone'
  BY DEF Gone
<1>5. ASSUME NEW s \in Subs, NEW st \in SubStates, Becomes(s, st)
      PROVE  Gone'
  BY <1>2, <1>5 DEF Becomes, Open
<1>6. ASSUME NEW c \in Cards,
             \/ RemoveCard(c) \/ StoreCard(c) \/ DetachEvent(c)
             \/ \E r \in BOOLEAN : CompleteSetup(c, r)
      PROVE  Gone'
  BY <1>1, <1>3, <1>4, <1>6
     DEF RemoveCard, Detach, StoreCard, DetachEvent, CompleteSetup, tenantVars, stripeVars,
         workerVars
<1>7. CASE OpenReactivation \/ TrialEnds
  BY <1>1, <1>3, <1>7 DEF OpenReactivation, TrialEnds, tenantVars, stripeVars, workerVars
<1>8. CASE DeleteAccount
  <2>1. ~(subId # None /\ sub[subId] \in Open)
    BY <1>2 DEF IInv, TypeOK
  <2>2. UNCHANGED <<sub, setups, pc>> /\ status' = "deleted"
    BY <1>8, <2>1 DEF DeleteAccount, workerVars
  <2>3. QED
    BY <1>1, <1>3, <2>2
<1>9. ASSUME NEW w \in Workers,
             \/ Resume(w) \/ CancelTrial(w) \/ Select(w)
             \/ \E e \in setups : SetupEvent(w, e)
      PROVE  Gone'
  BY <1>1, <1>4, <1>9 DEF Resume, CancelTrial, Select
<1>10. ASSUME NEW w \in Workers, Work(w)
       PROVE  Gone'
  <2>1. CancelWrite(w)
    BY <1>1, <1>10
       DEF Work, CreateRead, Make, MakeFails, Commit, Finalize, Extend, Pause, Charge,
           ChargeFails, Record
  <2>2. /\ sub' = sub /\ status' = "cancelled"
        /\ pc' = [pc EXCEPT ![w] = "idle"] /\ setups' = setups
    BY <1>1, <2>1 DEF CancelWrite, End
  <2>3. QED
    BY <1>1, <1>3, <2>2 DEF IInv, TypeOK
<1>11. ASSUME NEW w \in Workers, Die(w)
       PROVE  Gone'
  BY <1>1, <1>3, <1>11 DEF Die, tenantVars, stripeVars, IInv, TypeOK
<1>12. ASSUME NEW i \in 1 .. Len(feed), FeedEvent(i)
       PROVE  Gone'
  <2>1. feed \in Seq(Reports)
    BY BoundedFeed DEF IInv, TypeOK, Reports
  <2>2. feed[i] \in Reports
    BY <2>1, ElementOfSeq
  <2>3. status' \in SubStates
    BY <1>12, <2>2 DEF FeedEvent, Deleted, Updated, Reports, SubStates
  <2>4. UNCHANGED <<sub, setups, pc>>
    BY <1>12 DEF FeedEvent, workerVars
  <2>5. QED
    BY <1>1, <1>3, <2>3, <2>4 DEF SubStates
<1>13. CASE UNCHANGED vars
  BY <1>1, <1>3, <1>13 DEF vars, tenantVars, stripeVars, workerVars
<1>14. QED
  BY <1>5, <1>6, <1>7, <1>8, <1>9, <1>10, <1>11, <1>12, <1>13 DEF Next

\* A trial that is cancelled in quiet has no subscription yet.
LEMMA QuietLeave ==
  ASSUME IInv, ~leaving, NEW w \in Workers, CancelWrite(w), Quiet
  PROVE  Gone'
<1>1. /\ status = "trialing" /\ ~mishap /\ setups = {}
      /\ \A v \in Workers : pc[v] \in {"idle", "cancel"}
  BY DEF Quiet
<1>2. \A v \in Workers : made[v] = None
  BY <1>1 DEF IInv, Holding, Making
<1>3. subId = None
  BY <1>1 DEF IInv, OnTrial
<1>4. Standing = {}
  <2>1. \A s \in Standing : subId = s \/ \E v \in Workers : made[v] = s
    BY <1>1 DEF IInv, Single, OneSubscription
  <2>2. \A s \in Standing : s # None
    BY SubscriptionAssumption DEF Standing
  <2>3. QED
    BY <1>2, <1>3, <2>1, <2>2
<1>5. /\ sub' = sub /\ status' = "cancelled" /\ setups' = {}
      /\ pc' = [pc EXCEPT ![w] = "idle"]
  BY <1>1 DEF CancelWrite, End
<1>6. QED
  BY <1>1, <1>4, <1>5 DEF Gone, Standing, IInv, TypeOK

LEMMA GoneStep ==
  ASSUME IInv, Gone, [Next]_vars, [Quiet]_vars
  PROVE  Gone'
<1>1. CASE leaving
  BY <1>1, GoneStays
<1>2. CASE ~leaving
  <2>1. ~leaving' => Gone'
    BY DEF Gone
  <2>2. CASE \E w \in Workers : CancelWrite(w)
    <3>1. PICK w \in Workers : CancelWrite(w)
      BY <2>2
    <3>2. CASE Quiet
      BY <1>2, <3>1, <3>2, QuietLeave
    <3>3. CASE UNCHANGED vars
      BY <1>2, <2>1, <3>3 DEF vars
    <3>4. QED
      BY <3>2, <3>3
  <2>3. CASE ~\E w \in Workers : CancelWrite(w)
    <3>1. leaving' = leaving \/ leaving' = FALSE
      <4>1. ASSUME NEW w \in Workers, Work(w)
            PROVE  leaving' = leaving
        BY <2>3, <4>1
           DEF Work, CreateRead, Make, MakeFails, Commit, Finalize, Extend, Pause, Charge,
               ChargeFails, Record
      <4>2. ASSUME NEW w \in Workers,
                   \/ Resume(w) \/ CancelTrial(w) \/ Select(w) \/ Die(w)
                   \/ \E e \in setups : SetupEvent(w, e)
            PROVE  leaving' = leaving \/ leaving' = FALSE
        BY <4>2 DEF Resume, CancelTrial, Select, Die, SetupEvent
      <4>3. ASSUME NEW c \in Cards,
                   \/ RemoveCard(c) \/ StoreCard(c) \/ DetachEvent(c)
                   \/ \E r \in BOOLEAN : CompleteSetup(c, r)
            PROVE  leaving' = leaving \/ leaving' = FALSE
        BY <4>3 DEF RemoveCard, StoreCard, DetachEvent, CompleteSetup
      <4>4. CASE \/ OpenReactivation \/ DeleteAccount \/ TrialEnds
                 \/ \E s \in Subs : \E st \in SubStates : Becomes(s, st)
                 \/ \E i \in 1 .. Len(feed) : FeedEvent(i)
        BY <4>4 DEF OpenReactivation, DeleteAccount, TrialEnds, Becomes, FeedEvent
      <4>5. CASE UNCHANGED vars
        BY <4>5 DEF vars
      <4>6. QED
        BY <4>1, <4>2, <4>3, <4>4, <4>5 DEF Next
    <3>2. QED
      BY <1>2, <2>1, <3>1
  <2>4. QED
    BY <2>2, <2>3
<1>3. QED
  BY <1>1, <1>2

\* A trial that is cancelled in quiet stays free: nobody who left is billed
\* until they complete a Checkout or resume.  In the run that refutes this in
\* general a Checkout or the hourly job is under way when the trial is
\* cancelled, and only that can charge who left.
THEOREM QuietCancelIsFree == Spec /\ [][Quiet]_vars => []CancelledIsFree
<1>1. Init => Gone
  BY DEF Init, Gone
<1>2. IInv /\ Gone /\ [Next]_vars /\ [Quiet]_vars => Gone'
  BY GoneStep
<1>3. Gone => CancelledIsFree
  BY DEF Gone, CancelledIsFree, Standing, Open, Billed
<1>4. QED
  BY <1>1, <1>2, <1>3, Invariant, PTL DEF Spec
=============================================================================
