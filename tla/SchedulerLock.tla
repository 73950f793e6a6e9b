---------------------------- MODULE SchedulerLock ----------------------------
(***************************************************************************)
(* The distributed lock of one scheduled job, api/scheduled_tasks/_lock.py:*)
(* run_locked_job, the Redis lock with its renewal thread, and the lease   *)
(* that the job asks between its steps. The lock is a key with an expiry;  *)
(* owning the key and believing to own it are two things.                  *)
(*                                                                         *)
(* Time is an integer. MaxDelay and MaxStep say how late a renewal may be  *)
(* and how long the job may go without asking; the code enforces neither.  *)
(***************************************************************************)
EXTENDS Integers

CONSTANTS
    Schedulers,       \* the scheduler processes
    LockTTL,          \* SCHEDULER_LOCK_TTL_SECONDS
    RenewInterval,    \* SCHEDULER_LOCK_RENEW_INTERVAL_SECONDS
    MaxDelay,         \* the most a renewal is late
    MaxStep,          \* the most time between two questions to the lease
    MaxClock,         \* bound: the latest time
    Nobody

ASSUME LockAssumption ==
    /\ LockTTL \in Nat \ {0}
    /\ RenewInterval \in Int
    /\ MaxDelay \in Nat /\ MaxStep \in Nat /\ MaxClock \in Nat
    /\ Nobody \notin Schedulers

VARIABLES
    clock,      \* the time, for the processes and for Redis
    owner,      \* whose token the lock key holds
    expires,    \* when the key goes
    job,        \* where each scheduler is in run_locked_job
    asked,      \* when its job last found the lease held
    lost,       \* the lease is marked lost
    renewal     \* when the renewal thread wakes up, -1 without a thread

lockVars == <<clock, owner, expires, job, asked, lost, renewal>>

JobStates == {"idle", "between", "working", "release"}

LockInit ==
    /\ clock = 0
    /\ owner = Nobody
    /\ expires = 0
    /\ job = [s \in Schedulers |-> "idle"]
    /\ asked = [s \in Schedulers |-> 0]
    /\ lost = [s \in Schedulers |-> FALSE]
    /\ renewal = [s \in Schedulers |-> -1]

----------------------------------------------------------------------------
\* The key is there and holds the token of s.
Owns(s) == owner = s /\ clock < expires

Unlocked == owner = Nobody \/ clock >= expires

Goto(s, state) == job' = [job EXCEPT ![s] = state]

NoThread(s) == renewal' = [renewal EXCEPT ![s] = -1]

\* SET key token NX PX, taken by s.
Grant(s) == owner' = s /\ expires' = clock + LockTTL

\* _start_renewal refuses intervals at which renewing makes no sense.
Renews == 0 < RenewInterval /\ RenewInterval < LockTTL

\* lock.acquire succeeds.
Acquire(s) ==
    /\ job[s] = "idle" /\ Unlocked
    /\ Grant(s)
    /\ Goto(s, "between")
    /\ lost' = [lost EXCEPT ![s] = FALSE]
    /\ renewal' = [renewal EXCEPT ![s] = IF Renews THEN clock + RenewInterval ELSE -1]
    /\ UNCHANGED <<clock, asked>>

\* acquire raises after Redis has set the key: the job is skipped, the key
\* stays until it expires. (A key held by another, or a call without
\* effect, changes nothing.)
AcquireRaises(s) ==
    /\ job[s] = "idle" /\ Unlocked
    /\ Grant(s)
    /\ UNCHANGED <<clock, job, asked, lost, renewal>>

\* Faulty: the lease is asked only once.
EnsureHeldOnce(s) ==
    /\ job[s] = "between"
    /\ Goto(s, "working")
    /\ asked' = [asked EXCEPT ![s] = clock]
    /\ UNCHANGED <<clock, owner, expires, lost, renewal>>

\* ensure_held returns, and the job does its next step.
EnsureHeld(s) ==
    /\ job[s] = "between" /\ ~lost[s]
    /\ Goto(s, "working")
    /\ asked' = [asked EXCEPT ![s] = clock]
    /\ UNCHANGED <<clock, owner, expires, lost, renewal>>

\* ensure_held raises SchedulerLockLost: run_locked_job gives up.
Abort(s) ==
    /\ job[s] = "between" /\ lost[s]
    /\ Goto(s, "release")
    /\ UNCHANGED <<clock, owner, expires, asked, lost, renewal>>

\* The step is done, or the job with it, or it has raised.
StepDone(s) ==
    /\ job[s] = "working"
    /\ \E state \in {"between", "release"} : Goto(s, state)
    /\ UNCHANGED <<clock, owner, expires, asked, lost, renewal>>

\* _renew_loop: extend succeeds.
Renew(s) ==
    /\ renewal[s] # -1 /\ clock >= renewal[s]
    /\ Owns(s)
    /\ expires' = clock + LockTTL
    /\ renewal' = [renewal EXCEPT ![s] = clock + RenewInterval]
    /\ UNCHANGED <<clock, owner, job, asked, lost>>

\* extend raises, because the key is not there or not ours, or because the
\* call fails with or without its effect: the lease is lost, the thread ends.
RenewFails(s) ==
    /\ renewal[s] # -1 /\ clock >= renewal[s]
    /\ expires' \in IF Owns(s) THEN {expires, clock + LockTTL} ELSE {expires}
    /\ lost' = [lost EXCEPT ![s] = TRUE]
    /\ NoThread(s)
    /\ UNCHANGED <<clock, owner, job, asked>>

\* Faulty: the key is deleted whoever holds it.
ReleaseAny(s) ==
    /\ job[s] = "release"
    /\ owner' = Nobody
    /\ Goto(s, "idle")
    /\ NoThread(s)
    /\ UNCHANGED <<clock, expires, asked, lost>>

\* release: the thread stops and the key, if still ours, is deleted. When
\* that fails the key may stay, extended by a renewal still in flight.
Release(s) ==
    /\ job[s] = "release"
    /\ \/ owner' = (IF Owns(s) THEN Nobody ELSE owner) /\ UNCHANGED expires
       \/ UNCHANGED owner /\ expires' \in IF Owns(s) THEN {expires, clock + LockTTL} ELSE {expires}
    /\ Goto(s, "idle")
    /\ NoThread(s)
    /\ UNCHANGED <<clock, asked, lost>>

\* The process dies. The key stays until it expires.
Die(s) ==
    /\ job[s] # "idle"
    /\ Goto(s, "idle")
    /\ NoThread(s)
    /\ UNCHANGED <<clock, owner, expires, asked, lost>>

\* Renewals and steps of the job are in time.
Timely ==
    \A s \in Schedulers :
        /\ renewal[s] # -1 => clock < renewal[s] + MaxDelay
        /\ job[s] = "working" => clock < asked[s] + MaxStep

LockTick ==
    /\ clock < MaxClock
    /\ Timely
    /\ clock' = clock + 1
    /\ UNCHANGED <<owner, expires, job, asked, lost, renewal>>

LockStep(s) ==
    \/ Acquire(s) \/ AcquireRaises(s)
    \/ EnsureHeld(s) \/ Abort(s) \/ StepDone(s)
    \/ Renew(s) \/ RenewFails(s)
    \/ Release(s) \/ Die(s)

LockNext == LockTick \/ \E s \in Schedulers : LockStep(s)

LockSpec == LockInit /\ [][LockNext]_lockVars

----------------------------------------------------------------------------
LockTypeOK ==
    /\ clock \in 0..MaxClock
    /\ owner \in Schedulers \cup {Nobody}
    /\ expires \in 0..(clock + LockTTL)
    /\ job \in [Schedulers -> JobStates]
    /\ asked \in [Schedulers -> Nat]
    /\ lost \in [Schedulers -> BOOLEAN]
    /\ renewal \in [Schedulers -> Nat \cup {-1}]
    /\ \A s \in Schedulers : renewal[s] # -1 => Renews

(***************************************************************************)
(* What the lock is for: two schedulers never do a step of the job at the  *)
(* same time, provided that the settings leave room for a late renewal and *)
(* a long step (LockSettings). SchedulerLockLost says it of a single job:  *)
(* one that cannot prove its ownership stops.                              *)
(***************************************************************************)
OneWorker ==
    \A s, t \in Schedulers : job[s] = "working" /\ job[t] = "working" => s = t

\* The renewal thread runs, and a renewal that comes late and fails leaves
\* enough of the lock for the step that the job is in.
LockSettings == 0 < RenewInterval /\ RenewInterval + MaxDelay + MaxStep < LockTTL

\* Whoever works owns the key and will own it until he has asked again; a
\* lease that is not lost belongs to a thread that will renew it in time.
Covered(s) ==
    /\ job[s] = "working" =>
          /\ owner = s /\ clock <= asked[s] + MaxStep
          /\ asked[s] + MaxStep < expires
    /\ job[s] \in {"between", "working"} /\ ~lost[s] =>
          /\ owner = s
          /\ renewal[s] # -1 /\ clock <= renewal[s] + MaxDelay
          /\ renewal[s] + LockTTL <= expires + RenewInterval
    /\ job[s] = "idle" => renewal[s] = -1

LockInv == LockTypeOK /\ \A s \in Schedulers : Covered(s)

(***************************************************************************)
(* Nobody takes the key from a job that owns it: a late release or renewal *)
(* of an earlier owner leaves the key of the next owner alone.             *)
(***************************************************************************)
InJob(s) == job[s] \in {"between", "working"}

KeyKept(s) == Owns(s) /\ InJob(s) /\ InJob(s)' => owner' = s /\ expires' >= expires

KeyRespected == [][\A s \in Schedulers : KeyKept(s)]_lockVars
============================================================================
