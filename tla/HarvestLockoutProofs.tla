------------------------ MODULE HarvestLockoutProofs ------------------------
(***************************************************************************)
(* Proofs about HarvestLockout, for any number of rows that share the      *)
(* account, and any limit, cadence, back-off and number of errors.         *)
(***************************************************************************)
EXTENDS HarvestLockout, TLAPS

\* The row's harvest has a failed login to record.
Pending(r) == pc[r] = "login_failed_fresh"

\* What was typed is counted, or about to be, or its record was lost.
Accounted(r) ==
  burst[r] <= fails[r] + faults + (IF Pending(r) THEN 1 ELSE 0)

\* The row may be about to type again, which leaves room for one more.
MayType(r) ==
  pc[r] \in {"queued", "outdated", "ok", "login_blocked"} \/ age[r] = Never \/ blocked[r]

Spare(r) ==
  /\ burst[r] <= MaxFails + faults
  /\ MayType(r) /\ ~Pending(r) => burst[r] + 1 <= MaxFails + faults

\* An accepted password ends the streak.
Cleared(r) ==
  pc[r] \in {"ok_fresh", "login_blocked_fresh", "scrape_failed_fresh"} => burst[r] = 0

Careful == \A r \in Rows : Accounted(r) /\ Spare(r) /\ Cleared(r)

IInv == TypeOK /\ Careful

-----------------------------------------------------------------------------
(* Types                                                                   *)

\* The two facts about numbers the types need.
LEMMA Counters ==
  /\ \A n \in 0 .. MaxCount : OneMore(n) \in 0 .. MaxCount
  /\ \A t \in 0 .. Never : Older(t) \in 0 .. Never
BY HarvestAssumption, SMT DEF OneMore, Older, Never

\* What a harvest has to record is written with the row's types.
LEMMA PersistKeepsTypes ==
  ASSUME TypeOK, NEW r \in Rows, Persist(r)
  PROVE  TypeOK'
<1>1. Counted(r, pc[r]) \in 0 .. MaxCount
  BY Counters, HarvestAssumption, SMT DEF Counted, Outcomes, TypeOK
<1>2. fails' \in [Rows -> 0 .. MaxCount]
  BY <1>1 DEF Persist, TypeOK
<1>3. lastOk' \in [Rows -> {"none", "ok", "failed"}] /\ age' \in [Rows -> 0 .. Never]
  BY HarvestAssumption, SMT DEF Persist, TypeOK, Never
<1>4. blocked' \in [Rows -> BOOLEAN]
  <2>1. PICK written \in BOOLEAN :
          blocked' = [blocked EXCEPT ![r] =
                        IF written THEN pc[r] \in {"login_blocked", "login_blocked_fresh"} ELSE @]
    BY DEF Persist
  <2>2. blocked[r] \in BOOLEAN
    BY DEF TypeOK
  <2>3. (IF written THEN pc[r] \in {"login_blocked", "login_blocked_fresh"} ELSE blocked[r]) \in BOOLEAN
    <3>1. CASE written
      BY <3>1
    <3>2. CASE ~written
      BY <2>2, <3>2
    <3> QED
      BY <3>1, <3>2
  <2> QED
    BY <2>1, <2>3, Zenon DEF TypeOK
<1>5. warm' \in [Rows -> BOOLEAN]
  <2>1. Kept(r, pc[r]) \in BOOLEAN
    <3>1. warm[r] \in BOOLEAN /\ (warm[r] /\ fails[r] = 0) \in BOOLEAN
      BY DEF TypeOK
    <3> QED
      BY <3>1, Zenon DEF Kept
  <2>2. warm' = [warm EXCEPT ![r] = Kept(r, pc[r])]
    BY DEF Persist
  <2> QED
    BY <2>1, <2>2, Zenon DEF TypeOK
<1>6. vouched' \in 0 .. Never
  BY HarvestAssumption, SMT DEF Persist, TypeOK, Never
<1>7. pc' \in [Rows -> {"idle", "queued", "outdated"} \cup Outcomes]
  BY DEF Persist, TypeOK
<1> QED
  BY <1>2, <1>3, <1>4, <1>5, <1>6, <1>7 DEF Persist, TypeOK

\* A harvest that meets an outcome leaves a row's place and streak well typed.
LEMMA HarvestKeepsTypes ==
  ASSUME TypeOK, NEW r \in Rows, Resumes(r) \/ LetsIn(r) \/ Refuses(r) \/ FindsNoForm(r) \/ Errs(r)
  PROVE  TypeOK'
<1>1. \A o \in Outcomes : [pc EXCEPT ![r] = o] \in [Rows -> {"idle", "queued", "outdated"} \cup Outcomes]
  BY DEF TypeOK
<1>2. pc' \in [Rows -> {"idle", "queued", "outdated"} \cup Outcomes]
  BY <1>1 DEF Resumes, LetsIn, Refuses, FindsNoForm, Errs, Meets, Outcomes
<1>3. burst' \in [Rows -> Nat]
  BY SMT DEF Resumes, LetsIn, Refuses, FindsNoForm, Errs, Typed, TypeOK
<1>4. faults' \in 0 .. MaxFaults
  BY HarvestAssumption, SMT DEF Resumes, LetsIn, Refuses, FindsNoForm, Errs, Fault, TypeOK
<1>5. UNCHANGED <<rowVars, vouched, alerted, portalVars>>
  BY DEF Resumes, LetsIn, Refuses, FindsNoForm, Errs
<1> QED
  BY <1>2, <1>3, <1>4, <1>5, Zenon DEF TypeOK, rowVars, portalVars

\* The owner and the portal keep the types.
LEMMA ChangesKeepTypes ==
  ASSUME TypeOK,
         \/ \E r \in Rows : Refresh(r) \/ SavePassword(r)
         \/ PasswordChanges \/ WallAppears \/ WallCleared
  PROVE  TypeOK'
<1>1. changes' \in 0 .. MaxChanges
  BY HarvestAssumption, SMT
     DEF Refresh, SavePassword, Rearm, Change, PasswordChanges, WallAppears, WallCleared, TypeOK
<1>2. right' \in [Rows -> BOOLEAN]
  BY Zenon DEF Refresh, SavePassword, PasswordChanges, WallAppears, WallCleared, TypeOK
<1>3. /\ fails' \in [Rows -> 0 .. MaxCount] /\ age' \in [Rows -> 0 .. Never]
      /\ burst' \in [Rows -> Nat] /\ lastOk' \in [Rows -> {"none", "ok", "failed"}]
  BY HarvestAssumption, SMT
     DEF Refresh, SavePassword, Rearm, PasswordChanges, WallAppears, WallCleared, rowVars, TypeOK, Never
<1>4. wall' \in BOOLEAN
  BY DEF Refresh, SavePassword, PasswordChanges, WallAppears, WallCleared, TypeOK
<1>5. pc' \in [Rows -> {"idle", "queued", "outdated"} \cup Outcomes]
  BY DEF Refresh, SavePassword, PasswordChanges, WallAppears, WallCleared, TypeOK
<1>6. UNCHANGED <<blocked, vouched, alerted, warm, faults>>
  BY DEF Refresh, SavePassword, PasswordChanges, WallAppears, WallCleared, rowVars
<1> QED
  BY <1>1, <1>2, <1>3, <1>4, <1>5, <1>6, Zenon DEF TypeOK

\* Every step keeps the types.
LEMMA TypesKept == TypeOK /\ [Next]_vars => TypeOK'
<1> SUFFICES ASSUME TypeOK, [Next]_vars PROVE TypeOK'
  OBVIOUS
<1>1. CASE RunTick
  <2>1. pc' \in [Rows -> {"idle", "queued", "outdated"} \cup Outcomes]
    BY <1>1 DEF RunTick
  <2>2. burst' \in [Rows -> Nat]
    BY <1>1 DEF RunTick, TypeOK
  <2> QED
    BY <1>1, <2>1, <2>2, Zenon DEF RunTick, TypeOK, rowVars, portalVars
<1>2. CASE Watchdog
  <2>1. alerted' \in BOOLEAN
    BY <1>2 DEF Watchdog, PausedAccount
  <2> QED
    BY <1>2, <2>1, Zenon DEF Watchdog, TypeOK, rowVars, portalVars
<1>3. CASE Die
  <2>1. pc' \in [Rows -> {"idle", "queued", "outdated"} \cup Outcomes]
    BY <1>3 DEF Die
  <2>2. faults' \in 0 .. MaxFaults
    BY <1>3, HarvestAssumption, SMT DEF Die, Fault, TypeOK
  <2> QED
    BY <1>3, <2>1, <2>2, Zenon DEF Die, TypeOK, rowVars, portalVars
<1>4. ASSUME NEW r \in Rows, Harvest(r) PROVE TypeOK'
  BY <1>4, PersistKeepsTypes, HarvestKeepsTypes DEF Harvest
<1>5. ASSUME NEW r \in Rows, Refresh(r) \/ SavePassword(r) PROVE TypeOK'
  BY <1>5, ChangesKeepTypes
<1>6. CASE PasswordChanges \/ WallAppears \/ WallCleared
  BY <1>6, ChangesKeepTypes
<1>7. CASE TimePasses
  <2>1. age' \in [Rows -> 0 .. Never]
    BY <1>7, Counters DEF TimePasses, TypeOK
  <2>2. vouched' \in 0 .. Never
    BY <1>7, HarvestAssumption, SMT DEF TimePasses, TypeOK, Never
  <2> QED
    BY <1>7, <2>1, <2>2, Zenon DEF TimePasses, TypeOK, portalVars
<1>8. CASE UNCHANGED vars
  BY <1>8, Zenon DEF vars, rowVars, portalVars, TypeOK
<1> QED
  BY <1>1, <1>2, <1>3, <1>4, <1>5, <1>6, <1>7, <1>8, Zenon DEF Next

LEMMA InitHasTypes == Init => TypeOK
<1> SUFFICES ASSUME Init PROVE TypeOK
  OBVIOUS
<1>1. /\ fails \in [Rows -> 0 .. MaxCount] /\ age \in [Rows -> 0 .. Never]
      /\ vouched \in 0 .. Never /\ burst \in [Rows -> Nat]
      /\ faults \in 0 .. MaxFaults /\ changes \in 0 .. MaxChanges
  BY HarvestAssumption, SMT DEF Init, Never
<1>2. /\ blocked \in [Rows -> BOOLEAN] /\ right \in [Rows -> BOOLEAN]
      /\ warm \in [Rows -> BOOLEAN] /\ wall \in BOOLEAN /\ alerted \in BOOLEAN
  BY Zenon DEF Init
<1>3. /\ pc \in [Rows -> {"idle", "queued", "outdated"} \cup Outcomes]
      /\ lastOk \in [Rows -> {"none", "ok", "failed"}]
  BY DEF Init
<1> QED
  BY <1>1, <1>2, <1>3, Zenon DEF TypeOK

\* Counters, ages, places and streaks keep their types, the counter its limit,
\* whatever the number of rows (record_health, _persist, refresh_now).
THEOREM LockoutTypeCorrect == Spec => []TypeOK
<1>1. Init => TypeOK
  BY InitHasTypes
<1>2. TypeOK /\ [Next]_vars => TypeOK'
  BY TypesKept
<1> QED
  BY <1>1, <1>2, PTL DEF Spec

-----------------------------------------------------------------------------
(* The budget                                                              *)

\* What the scheduler lets type has room for one more wrong password.
LEMMA DueHasRoom ==
  ASSUME TypeOK, Careful, NEW r \in Rows, pc[r] = "idle", IsDue(r), age[r] # PausedRetry
  PROVE  burst[r] + 1 <= MaxFails + faults
<1> USE HarvestAssumption
<1>1. burst[r] \in Nat /\ fails[r] \in Nat /\ faults \in Nat /\ age[r] \in 0 .. Never
  BY SMT DEF TypeOK
<1>2. ~Pending(r) /\ burst[r] <= fails[r] + faults
  BY <1>1, SMT DEF Pending, Careful, Accounted
<1>3. CASE age[r] = Never \/ blocked[r]
  BY <1>2, <1>3 DEF Careful, Spare, MayType
<1>4. CASE age[r] # Never /\ ~blocked[r]
  <2>1. ~(age[r] >= PausedRetry)
    BY <1>1, <1>4, SMT DEF Never
  <2>2. ~Paused(r)
    BY <1>4, <2>1, Zenon DEF IsDue
  <2>3. r \in CountFor(r)
    BY DEF CountFor
  <2>4. fails[r] < MaxFails
    BY <1>1, <2>2, <2>3, SMT DEF Paused
  <2> QED
    BY <1>1, <1>2, <2>4, SMT
<1> QED
  BY <1>3, <1>4

LEMMA TickIsCareful ==
  ASSUME TypeOK, Careful, RunTick
  PROVE  Careful'
<1> SUFFICES ASSUME NEW q \in Rows
             PROVE  (Accounted(q) /\ Spare(q) /\ Cleared(q))'
  BY DEF Careful
<1> USE HarvestAssumption
<1>1. /\ burst[q] \in Nat /\ fails[q] \in Nat /\ faults \in Nat
      /\ pc[q] = "idle" /\ ~Pending(q)
      /\ fails' = fails /\ faults' = faults /\ age' = age /\ blocked' = blocked
      /\ pc'[q] = (IF IsDue(q) THEN "queued" ELSE "idle")
      /\ burst'[q] = (IF age[q] = PausedRetry THEN 0 ELSE burst[q])
  BY SMT DEF TypeOK, RunTick, Pending, rowVars
<1>2. /\ burst[q] <= fails[q] + faults /\ burst[q] <= MaxFails + faults
      /\ MayType(q) => burst[q] + 1 <= MaxFails + faults
  BY <1>1, SMT DEF Careful, Accounted, Spare
<1>3. pc'[q] = "queued" => burst'[q] + 1 <= MaxFails + faults
  BY <1>1, DueHasRoom, SMT
<1> QED
  BY <1>1, <1>2, <1>3, SMT DEF Accounted, Spare, MayType, Cleared, Pending

\* A row that has no part in a step keeps its room.
LEMMA OthersAreCareful ==
  ASSUME TypeOK, Careful, NEW q \in Rows, faults' \in Nat, faults' >= faults,
         UNCHANGED <<fails[q], age[q], blocked[q], pc[q], burst[q]>>
  PROVE  (Accounted(q) /\ Spare(q) /\ Cleared(q))'
<1>1. /\ burst[q] \in Nat /\ fails[q] \in Nat /\ faults \in Nat
  BY HarvestAssumption, SMT DEF TypeOK
<1> QED
  BY <1>1, HarvestAssumption, SMT DEF Careful, Accounted, Spare, MayType, Cleared, Pending

LEMMA HarvestIsCareful ==
  ASSUME TypeOK, Careful, NEW r \in Rows,
         Resumes(r) \/ LetsIn(r) \/ Refuses(r) \/ FindsNoForm(r) \/ Errs(r)
  PROVE  Careful'
<1> SUFFICES ASSUME NEW q \in Rows
             PROVE  (Accounted(q) /\ Spare(q) /\ Cleared(q))'
  BY DEF Careful
<1> USE HarvestAssumption
<1>1. /\ burst[q] \in Nat /\ fails[q] \in Nat /\ faults \in Nat
      /\ burst \in [Rows -> Nat] /\ DOMAIN pc = Rows
  BY SMT DEF TypeOK
<1>2. fails' = fails /\ age' = age /\ blocked' = blocked /\ faults' \in Nat /\ faults' >= faults
  BY <1>1, SMT DEF Resumes, LetsIn, Refuses, FindsNoForm, Errs, Fault, rowVars
<1>3. CASE q # r
  <2>1. pc'[q] = pc[q] /\ burst'[q] = burst[q]
    BY <1>1, <1>3, SMT DEF Resumes, LetsIn, Refuses, FindsNoForm, Errs, Meets, Typed
  <2> QED
    BY <1>2, <2>1, OthersAreCareful
<1>4. CASE q = r
  <2>1. pc[q] \in {"queued", "outdated"}
    BY <1>4 DEF Resumes, LetsIn, Refuses, FindsNoForm, Errs, Meets
  <2>2. /\ burst[q] <= fails[q] + faults
        /\ burst[q] + 1 <= MaxFails + faults
    BY <1>1, <2>1, SMT DEF Careful, Accounted, Spare, MayType, Pending
  <2>3. CASE Resumes(r)
    BY <1>1, <1>2, <1>4, <2>2, <2>3, SMT
       DEF Resumes, Meets, Accounted, Spare, MayType, Cleared, Pending
  <2>4. CASE LetsIn(r)
    BY <1>1, <1>2, <1>4, <2>2, <2>4, SMT
       DEF LetsIn, Meets, Accounted, Spare, MayType, Cleared, Pending
  <2>5. CASE Refuses(r)
    BY <1>1, <1>2, <1>4, <2>2, <2>5, SMT
       DEF Refuses, Typed, Meets, Accounted, Spare, MayType, Cleared, Pending
  <2>6. CASE FindsNoForm(r)
    BY <1>1, <1>2, <1>4, <2>2, <2>6, SMT
       DEF FindsNoForm, Fault, Meets, Accounted, Spare, MayType, Cleared, Pending
  <2>7. CASE Errs(r)
    BY <1>1, <1>2, <1>4, <2>2, <2>7, SMT
       DEF Errs, Fault, Typed, Meets, Accounted, Spare, MayType, Cleared, Pending
  <2> QED
    BY <2>3, <2>4, <2>5, <2>6, <2>7
<1> QED
  BY <1>3, <1>4

LEMMA PersistIsCareful ==
  ASSUME TypeOK, Careful, NEW r \in Rows, Persist(r)
  PROVE  Careful'
<1> SUFFICES ASSUME NEW q \in Rows
             PROVE  (Accounted(q) /\ Spare(q) /\ Cleared(q))'
  BY DEF Careful
<1> USE HarvestAssumption
<1>1. /\ burst[q] \in Nat /\ fails[q] \in 0 .. MaxCount /\ faults \in Nat
      /\ DOMAIN fails = Rows /\ DOMAIN age = Rows /\ DOMAIN blocked = Rows /\ DOMAIN pc = Rows
  BY SMT DEF TypeOK
<1>2. burst' = burst /\ faults' = faults
  BY DEF Persist
<1>3. CASE q # r
  <2>1. /\ fails'[q] = fails[q] /\ age'[q] = age[q]
        /\ blocked'[q] = blocked[q] /\ pc'[q] = pc[q]
    BY <1>1, <1>3 DEF Persist
  <2> QED
    BY <1>1, <1>2, <2>1, OthersAreCareful
<1>4. CASE q = r
  <2>1. /\ pc[q] \in Outcomes /\ pc'[q] = "idle" /\ fails'[q] = Counted(q, pc[q])
        /\ age'[q] = 0
    BY <1>1, <1>4 DEF Persist
  <2>2. blocked'[q] => \/ pc[q] \in {"login_blocked", "login_blocked_fresh"}
                       \/ pc[q] = "ok" /\ blocked[q]
    BY <1>1, <1>4 DEF Persist
  <2>3. 0 # Never
    BY SMT DEF Never
  <2>4. /\ burst[q] <= fails[q] + faults + (IF Pending(q) THEN 1 ELSE 0)
        /\ burst[q] <= MaxFails + faults
        /\ Cleared(q)
        /\ pc[q] \in {"ok", "login_blocked"} => burst[q] + 1 <= MaxFails + faults
    BY SMT DEF Careful, Accounted, Spare, MayType, Pending
  <2>5. burst[q] <= Counted(q, pc[q]) + faults
    BY <1>1, <2>1, <2>4, SMT DEF Counted, OneMore, Outcomes, Pending, Cleared
  <2>6. blocked'[q] => burst[q] + 1 <= MaxFails + faults
    BY <1>1, <2>2, <2>4, SMT DEF Cleared
  <2>7. ~Pending(q)' /\ Cleared(q)'
    BY <2>1 DEF Pending, Cleared
  <2>8. Accounted(q)'
    BY <1>1, <1>2, <2>1, <2>5, <2>7, SMT DEF Accounted, Counted, OneMore, Outcomes
  <2>9. MayType(q)' => blocked'[q]
    BY <2>1, <2>3 DEF MayType
  <2>10. Spare(q)'
    BY <1>2, <2>4, <2>6, <2>9 DEF Spare
  <2> QED
    BY <2>7, <2>8, <2>10
<1> QED
  BY <1>3, <1>4

LEMMA DieIsCareful ==
  ASSUME TypeOK, Careful, Die
  PROVE  Careful'
<1> SUFFICES ASSUME NEW q \in Rows
             PROVE  (Accounted(q) /\ Spare(q) /\ Cleared(q))'
  BY DEF Careful
<1>1. /\ burst[q] \in Nat /\ fails[q] \in Nat /\ faults \in Nat
      /\ pc'[q] = "idle" /\ faults' = faults + 1
      /\ fails' = fails /\ age' = age /\ blocked' = blocked /\ burst' = burst
  BY HarvestAssumption, SMT DEF TypeOK, Die, Fault, rowVars
<1> QED
  BY <1>1, HarvestAssumption, SMT DEF Careful, Accounted, Spare, MayType, Cleared, Pending

LEMMA RearmIsCareful ==
  ASSUME TypeOK, Careful, NEW r \in Rows, Refresh(r) \/ SavePassword(r)
  PROVE  Careful'
<1> SUFFICES ASSUME NEW q \in Rows
             PROVE  (Accounted(q) /\ Spare(q) /\ Cleared(q))'
  BY DEF Careful
<1>1. /\ Rearm(r) /\ UNCHANGED <<blocked, faults>>
      /\ pc' = pc \/ pc' = [pc EXCEPT ![r] = "outdated"]
  BY DEF Refresh, SavePassword
<1>2. /\ burst[q] \in Nat /\ fails[q] \in Nat /\ faults \in Nat
      /\ DOMAIN fails = Rows /\ DOMAIN age = Rows /\ DOMAIN burst = Rows /\ DOMAIN pc = Rows
  BY HarvestAssumption, SMT DEF TypeOK
<1>3. CASE q # r
  <2>1. fails'[q] = fails[q] /\ age'[q] = age[q] /\ burst'[q] = burst[q] /\ pc'[q] = pc[q]
    BY <1>1, <1>2, <1>3 DEF Rearm
  <2> QED
    BY <1>1, <1>2, <2>1, OthersAreCareful, SMT
<1>4. CASE q = r
  <2>1. fails'[q] = 0 /\ burst'[q] = 0
    BY <1>1, <1>2, <1>4 DEF Rearm
  <2> QED
    BY <1>1, <1>2, <2>1, HarvestAssumption, SMT DEF Accounted, Spare, Cleared
<1> QED
  BY <1>3, <1>4

LEMMA TimeIsCareful ==
  ASSUME TypeOK, Careful, TimePasses
  PROVE  Careful'
<1> SUFFICES ASSUME NEW q \in Rows
             PROVE  (Accounted(q) /\ Spare(q) /\ Cleared(q))'
  BY DEF Careful
<1>1. age'[q] = Never => age[q] = Never
  BY HarvestAssumption, SMT DEF TimePasses, Older, Never, TypeOK
<1>2. fails' = fails /\ blocked' = blocked /\ pc' = pc /\ burst' = burst /\ faults' = faults
  BY DEF TimePasses
<1>3. Accounted(q) /\ Spare(q) /\ Cleared(q)
  BY DEF Careful
<1> QED
  BY <1>1, <1>2, <1>3 DEF Accounted, Spare, MayType, Cleared, Pending

LEMMA StepsAreCareful == IInv /\ [Next]_vars => IInv'
<1> SUFFICES ASSUME TypeOK, Careful, [Next]_vars PROVE Careful'
  BY TypesKept DEF IInv
<1>1. CASE RunTick
  BY <1>1, TickIsCareful
<1>2. CASE Die
  BY <1>2, DieIsCareful
<1>3. ASSUME NEW r \in Rows, Harvest(r) PROVE Careful'
  BY <1>3, HarvestIsCareful, PersistIsCareful DEF Harvest
<1>4. ASSUME NEW r \in Rows, Refresh(r) \/ SavePassword(r) PROVE Careful'
  BY <1>4, RearmIsCareful
<1>5. CASE TimePasses
  BY <1>5, TimeIsCareful
<1>6. CASE Watchdog \/ PasswordChanges \/ WallAppears \/ WallCleared \/ UNCHANGED vars
  <2>1. UNCHANGED <<fails, age, blocked, pc, burst, faults>>
    BY <1>6 DEF Watchdog, PasswordChanges, WallAppears, WallCleared, vars, rowVars
  <2> QED
    BY <2>1 DEF Careful, Accounted, Spare, MayType, Cleared, Pending
<1> QED
  BY <1>1, <1>2, <1>3, <1>4, <1>5, <1>6, Zenon DEF Next

LEMMA InitIsCareful == Init => IInv
<1> SUFFICES ASSUME Init PROVE IInv
  OBVIOUS
<1>1. TypeOK
  BY InitHasTypes
<1>2. Careful
  <2> SUFFICES ASSUME NEW q \in Rows
               PROVE  Accounted(q) /\ Spare(q) /\ Cleared(q)
    BY DEF Careful
  <2>1. burst[q] = 0 /\ fails[q] = 0 /\ faults = 0 /\ pc[q] = "idle"
    BY DEF Init
  <2> QED
    BY <2>1, HarvestAssumption, SMT DEF Accounted, Spare, Cleared, Pending
<1> QED
  BY <1>1, <1>2 DEF IInv

\* However its harvests, ticks, re-armings, errors and deaths fall, no row types
\* more than MaxFails wrong passwords without an accepted one, a re-arming or a
\* rest of PausedRetry, but for those whose outcome was lost (the guard of
\* _is_due with the counter of record_health).
THEOREM LockoutBudget == Spec => []RowBudget
<1>1. Init => IInv
  BY InitIsCareful
<1>2. IInv /\ [Next]_vars => IInv'
  BY StepsAreCareful
<1>3. IInv => RowBudget
  BY DEF IInv, Careful, Spare, RowBudget
<1> QED
  BY <1>1, <1>2, <1>3, PTL DEF Spec

\* A pass of the watchdog opens an incident, or leaves it open, whenever the
\* scheduler holds a row at the pause (paused_accounts and _is_due agree).
THEOREM PauseIsAlerted == Spec => PausedIsLoud
<1>1. [Next]_vars => [Watchdog /\ (\E r \in Rows : Held(r)) => alerted']_vars
  <2> SUFFICES ASSUME Watchdog, NEW r \in Rows, Held(r) PROVE alerted'
    OBVIOUS
  <2>1. PICK q \in CountFor(r) : fails[q] >= MaxFails
    BY DEF Held, Paused
  <2>2. q \in Rows
    BY DEF CountFor
  <2> QED
    BY <2>1, <2>2 DEF Watchdog, PausedAccount
<1> QED
  BY <1>1, PTL DEF Spec, PausedIsLoud
=============================================================================
