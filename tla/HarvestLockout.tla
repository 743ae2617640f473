--------------------------- MODULE HarvestLockout ---------------------------
(***************************************************************************)
(* The harvester's guard against locking an owner out of a portal.         *)
(*                                                                         *)
(* One portal account is stored in the credential rows of several tenants. *)
(* Each row counts its failed logins, and the scheduler holds back the     *)
(* rows of an account by the worst count of them: it waits longer after    *)
(* each failure, and from MaxFails on it pauses, which is to try once in   *)
(* PausedRetry.  A tick takes the rows that are due and harvests them side *)
(* by side; what a row is told about its login is recorded some time after *)
(* the portal was told the password.                                       *)
(***************************************************************************)
EXTENDS Naturals

CONSTANTS Rows,         \* the credentials that share the portal account
          MaxFails,     \* MAX_LOGIN_FAILS
          MaxCount,     \* the counter stops here (999)
          DueAfter,     \* the cadence of the family, in units of time
          FailBackoff,  \* FAIL_BACKOFF
          BlockedRetry, \* BLOCKED_RETRY
          PausedRetry,  \* PAUSED_RETRY
          MaxFaults,    \* bound on errors of pages and deaths of the harvester
          MaxChanges    \* bound on what the owner and the portal change

ASSUME HarvestAssumption ==
  /\ Rows # {}
  /\ MaxFails \in Nat \ {0} /\ MaxCount \in Nat /\ MaxCount >= MaxFails
  /\ DueAfter \in Nat /\ FailBackoff \in Nat /\ BlockedRetry \in Nat
  /\ PausedRetry \in Nat \ {0}
  /\ DueAfter <= PausedRetry /\ BlockedRetry <= PausedRetry
  /\ FailBackoff * (MaxFails - 1) <= PausedRetry
  /\ MaxFaults \in Nat /\ MaxChanges \in Nat

VARIABLES
  fails,    \* harvest_fails
  lastOk,   \* last_harvest_ok: "none", "ok" or "failed"
  age,      \* time since last_harvest_at, or Never
  blocked,  \* the row's latest HarvestRun is login_blocked
  vouched,  \* time since the account accepted a typed password
  alerted,  \* the account has an open lockout incident
  pc,       \* where the row's harvest is, or what it is about to record
  right,    \* the row's password is the portal's
  warm,     \* the row's stored session may still be honoured
  wall,     \* the portal asks the owner for something after the password
  burst,    \* history: wrong passwords typed for the row without a long rest
  faults,   \* how much has gone wrong so far
  changes   \* how often the owner or the portal changed something

rowVars == <<fails, lastOk, age, blocked>>
portalVars == <<right, warm, wall, changes>>
vars == <<rowVars, vouched, alerted, pc, portalVars, burst, faults>>

Never == PausedRetry + 1      \* last_harvest_at IS NULL

\* What a harvest may have to record: the status, and whether a password was
\* typed for it.
Outcomes == {"ok", "ok_fresh", "login_failed", "login_failed_fresh",
             "login_blocked", "login_blocked_fresh",
             "scrape_failed", "scrape_failed_fresh"}

TypeOK ==
  /\ fails \in [Rows -> 0 .. MaxCount]
  /\ lastOk \in [Rows -> {"none", "ok", "failed"}]
  /\ age \in [Rows -> 0 .. Never]
  /\ blocked \in [Rows -> BOOLEAN]
  /\ vouched \in 0 .. Never
  /\ alerted \in BOOLEAN
  /\ pc \in [Rows -> {"idle", "queued", "outdated"} \cup Outcomes]
  /\ right \in [Rows -> BOOLEAN]
  /\ warm \in [Rows -> BOOLEAN]
  /\ wall \in BOOLEAN
  /\ burst \in [Rows -> Nat]
  /\ faults \in 0 .. MaxFaults
  /\ changes \in 0 .. MaxChanges

\* Rows just saved, with the right password.
Init ==
  /\ fails = [r \in Rows |-> 0]
  /\ lastOk = [r \in Rows |-> "none"]
  /\ age = [r \in Rows |-> Never]
  /\ blocked = [r \in Rows |-> FALSE]
  /\ vouched = Never
  /\ alerted = FALSE
  /\ pc = [r \in Rows |-> "idle"]
  /\ right = [r \in Rows |-> TRUE]
  /\ warm = [r \in Rows |-> FALSE]
  /\ wall = FALSE
  /\ burst = [r \in Rows |-> 0]
  /\ faults = 0 /\ changes = 0

Fault == faults < MaxFaults /\ faults' = faults + 1

-----------------------------------------------------------------------------
(* The scheduler                                                           *)

\* coordinate_account_fails: the worst row of the account counts for all, unless
\* the account let us in lately or one of its rows is in good health.
Excused ==
  \/ vouched <= PausedRetry
  \/ \E r \in Rows : fails[r] = 0 /\ lastOk[r] = "ok"

CountFor(r) == IF Excused THEN {r} ELSE Rows

Paused(r) == \E q \in CountFor(r) : fails[q] >= MaxFails

BackingOff(r) == lastOk[r] = "failed" /\ \E q \in CountFor(r) : fails[q] > 0

\* Mutation of IsDue: a paused row is not tried again.
IsDueUnlessPaused(r) ==
  \/ age[r] = Never
  \/ age[r] >= DueAfter /\ (blocked[r] \/ ~Paused(r))

\* _is_due
IsDue(r) ==
  \/ age[r] = Never
  \/ blocked[r] /\ age[r] >= BlockedRetry
  \/ ~blocked[r] /\ Paused(r) /\ age[r] >= PausedRetry
  \/ /\ ~blocked[r] /\ ~Paused(r)
     /\ IF BackingOff(r) THEN \A q \in CountFor(r) : age[r] >= FailBackoff * fails[q]
                         ELSE age[r] >= DueAfter

\* run_tick: the rows due are harvested, and the next tick waits for all.
RunTick ==
  /\ \A r \in Rows : pc[r] = "idle"
  /\ \E r \in Rows : IsDue(r)
  /\ pc' = [r \in Rows |-> IF IsDue(r) THEN "queued" ELSE "idle"]
  /\ burst' = [r \in Rows |-> IF age[r] = PausedRetry THEN 0 ELSE burst[r]]
  /\ UNCHANGED <<rowVars, vouched, alerted, portalVars, faults>>

\* Mutation of PausedAccount: only the coordinated count is looked at.
PausedByAccount == ~Excused /\ \E r \in Rows : fails[r] >= MaxFails

\* paused_accounts, by which run_login_lockout_watchdog opens and clears the
\* incident of the account: a row that is paused by its own count is enough.
PausedAccount == \E r \in Rows : fails[r] >= MaxFails

Watchdog ==
  /\ alerted' = PausedAccount
  /\ UNCHANGED <<rowVars, vouched, pc, portalVars, burst, faults>>

-----------------------------------------------------------------------------
(* The harvest of a row                                                    *)

Meets(r, outcome) == pc[r] \in {"queued", "outdated"} /\ pc' = [pc EXCEPT ![r] = outcome]

\* The password is read when the harvest starts, and may have been replaced in
\* the vault before it is typed.
Wrong(r) == ~right[r] \/ pc[r] = "outdated"

\* The session is honoured, by the portal or by its identity provider, and no
\* password is typed.
Resumes(r) ==
  /\ warm[r]
  /\ IF wall THEN Meets(r, "login_blocked") ELSE Meets(r, "ok")
  /\ UNCHANGED <<rowVars, vouched, alerted, portalVars, burst, faults>>

\* The password is typed and accepted, and a wall may follow.
LetsIn(r) ==
  /\ ~Wrong(r)
  /\ IF wall THEN Meets(r, "login_blocked_fresh") ELSE Meets(r, "ok_fresh")
  /\ burst' = [burst EXCEPT ![r] = 0]
  /\ UNCHANGED <<rowVars, vouched, alerted, portalVars, faults>>

\* A wrong password is typed.
Typed(r) == burst' = [burst EXCEPT ![r] = @ + 1]

Refuses(r) ==
  /\ Wrong(r)
  /\ Meets(r, "login_failed_fresh")
  /\ Typed(r)
  /\ UNCHANGED <<rowVars, vouched, alerted, portalVars, faults>>

\* No form is found, which counts as a failure, or a session is not resumed,
\* which does not.
FindsNoForm(r) ==
  /\ Fault
  /\ \E o \in {"login_failed", "login_failed_fresh"} : Meets(r, o)
  /\ UNCHANGED <<rowVars, vouched, alerted, portalVars, burst>>

\* Any error of a page is recorded as a failed scrape: before a password was
\* typed, after one was accepted, and after a wrong one was refused.
Errs(r) ==
  /\ Fault
  /\ \/ Meets(r, "scrape_failed") /\ UNCHANGED burst
     \/ ~Wrong(r) /\ Meets(r, "scrape_failed_fresh") /\ burst' = [burst EXCEPT ![r] = 0]
     \/ Wrong(r) /\ Meets(r, "scrape_failed") /\ Typed(r)
  /\ UNCHANGED <<rowVars, vouched, alerted, portalVars>>

OneMore(n) == IF n < MaxCount THEN n + 1 ELSE n

\* Mutation of Counted: any good run clears the counter.
CountedByAnyRun(r, outcome) ==
  CASE outcome \in {"ok", "ok_fresh", "login_blocked_fresh"} -> 0
    [] outcome = "login_failed_fresh" -> OneMore(fails[r])
    [] OTHER -> fails[r]

\* Another one: the counter has no upper limit.
CountedForEver(r, outcome) ==
  CASE outcome \in {"ok_fresh", "login_blocked_fresh"} -> 0
    [] outcome = "login_failed_fresh" -> fails[r] + 1
    [] OTHER -> fails[r]

\* record_health: the counter changes only if a password was typed.
Counted(r, outcome) ==
  CASE outcome \in {"ok_fresh", "login_blocked_fresh"} -> 0
    [] outcome = "login_failed_fresh" -> OneMore(fails[r])
    [] OTHER -> fails[r]

\* The session is stored; a second failure in a row drops it.
Kept(r, outcome) ==
  CASE outcome \in {"ok_fresh", "login_blocked_fresh", "scrape_failed_fresh"} -> TRUE
    [] outcome = "login_failed_fresh" -> warm[r] /\ fails[r] = 0
    [] OTHER -> warm[r]

\* _persist.  A good run on a warm session is not always written to the audit
\* trail, from which the scheduler learns that a row is blocked.
Persist(r) ==
  LET outcome == pc[r] IN
  /\ outcome \in Outcomes
  /\ fails' = [fails EXCEPT ![r] = Counted(r, outcome)]
  /\ lastOk' = [lastOk EXCEPT ![r] = IF outcome \in {"ok", "ok_fresh"} THEN "ok" ELSE "failed"]
  /\ age' = [age EXCEPT ![r] = 0]
  /\ \E written \in (IF outcome = "ok" THEN BOOLEAN ELSE {TRUE}) :
       blocked' = [blocked EXCEPT ![r] =
                     IF written THEN outcome \in {"login_blocked", "login_blocked_fresh"} ELSE @]
  /\ vouched' = IF outcome \in {"ok_fresh", "login_blocked_fresh"} THEN 0 ELSE vouched
  /\ warm' = [warm EXCEPT ![r] = Kept(r, outcome)]
  /\ pc' = [pc EXCEPT ![r] = "idle"]
  /\ UNCHANGED <<alerted, right, wall, changes, burst, faults>>

\* The harvester dies, and what was to be recorded is lost.
Die ==
  /\ \E r \in Rows : pc[r] # "idle"
  /\ Fault
  /\ pc' = [r \in Rows |-> "idle"]
  /\ UNCHANGED <<rowVars, vouched, alerted, portalVars, burst>>

-----------------------------------------------------------------------------
(* The owner, the portal and the clock                                     *)

Change == changes < MaxChanges /\ changes' = changes + 1

\* rearm, and the other places that make a row due at once.
Rearm(r) ==
  /\ Change
  /\ fails' = [fails EXCEPT ![r] = 0]
  /\ age' = [age EXCEPT ![r] = Never]
  /\ burst' = [burst EXCEPT ![r] = 0]

Refresh(r) ==
  /\ Rearm(r)
  /\ UNCHANGED <<lastOk, blocked, vouched, alerted, pc, right, warm, wall, faults>>

\* The owner saves the portal's password in the vault; a harvest under way may
\* go on with the old one.
SavePassword(r) ==
  /\ Rearm(r)
  /\ lastOk' = [lastOk EXCEPT ![r] = "none"]
  /\ right' = [right EXCEPT ![r] = TRUE]
  /\ \/ UNCHANGED pc
     \/ pc[r] = "queued" /\ ~right[r] /\ pc' = [pc EXCEPT ![r] = "outdated"]
  /\ UNCHANGED <<blocked, vouched, alerted, warm, wall, faults>>

\* The password is changed at the portal; sessions may go on.
PasswordChanges ==
  /\ Change
  /\ right' = [r \in Rows |-> FALSE]
  /\ UNCHANGED <<rowVars, vouched, alerted, pc, warm, wall, burst, faults>>

\* The portal asks for a consent, and the owner gives it.
WallAppears ==
  /\ ~wall /\ Change
  /\ wall' = TRUE
  /\ UNCHANGED <<rowVars, vouched, alerted, pc, right, warm, burst, faults>>

WallCleared ==
  /\ wall
  /\ wall' = FALSE
  /\ UNCHANGED <<rowVars, vouched, alerted, pc, right, warm, changes, burst, faults>>

\* A unit of time passes, many times as long as a harvest.
Older(t) == IF t < PausedRetry THEN t + 1 ELSE t

TimePasses ==
  /\ \A r \in Rows : pc[r] = "idle"
  /\ age' = [r \in Rows |-> Older(age[r])]
  /\ vouched' = IF vouched < Never THEN vouched + 1 ELSE vouched
  /\ <<age, vouched>>' # <<age, vouched>>
  /\ UNCHANGED <<fails, lastOk, blocked, alerted, pc, portalVars, burst, faults>>

Harvest(r) ==
  Resumes(r) \/ LetsIn(r) \/ Refuses(r) \/ FindsNoForm(r) \/ Errs(r) \/ Persist(r)

Next ==
  \/ RunTick \/ Watchdog \/ Die
  \/ \E r \in Rows : Harvest(r) \/ Refresh(r) \/ SavePassword(r)
  \/ PasswordChanges \/ WallAppears \/ WallCleared
  \/ TimePasses

Spec == Init /\ [][Next]_vars

\* The loop ticks and harvests what is due, the watchdog runs, and time passes.
Fairness ==
  /\ WF_vars(RunTick) /\ WF_vars(Watchdog) /\ SF_vars(TimePasses)
  /\ \A r \in Rows : WF_vars(Harvest(r))

FairSpec == Spec /\ Fairness

-----------------------------------------------------------------------------
(* Properties                                                              *)

\* No row types more than MaxFails wrong passwords without an accepted one, a
\* re-arming or a rest of PausedRetry in between, but for those whose outcome
\* an error or a death kept from being recorded.
RowBudget == \A r \in Rows : burst[r] <= MaxFails + faults

\* "retry-forever-with-backoff, NEVER give-up-forever" (scheduler): every row
\* is harvested again and again, whatever has happened to it.
NeverGivesUp == \A r \in Rows : []<>(age[r] = 0)

\* "the alert can never disagree with what is actually paused": whenever the
\* watchdog has run, an incident is open if the scheduler holds a row at the
\* pause, be it by its own count or by that of another tenant's row.
Held(r) == age[r] # Never /\ ~blocked[r] /\ Paused(r)

PausedIsLoud == [][Watchdog /\ (\E r \in Rows : Held(r)) => alerted']_vars
=============================================================================
