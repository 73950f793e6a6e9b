---------------------------- MODULE ActivityWatch ----------------------------
(***************************************************************************)
(* What the operator sees: the activity log that every process writes      *)
(* (api/logging_service/service.py), the two daemons that leave heartbeats *)
(* in it (api/cube/worker.py, api/scheduler_worker.py), a scheduled job    *)
(* under its lock, and the two pages that read them, the monitoring page   *)
(* (api/monitoring_service.py) and the page of scheduled tasks             *)
(* (api/scheduled_tasks/inspection.py).                                    *)
(*                                                                         *)
(* A time unit is IDLE_SECONDS. Each process has its own                   *)
(* TimedRotatingFileHandler on the same activity.jsonl, that of Python     *)
(* 3.11.9 and later (MEMORY.md:5: 3.11.11). Only the current file is ever  *)
(* read, and only its last lines: older ones are forgotten. A dated file is*)
(* named after the midnight before it.                                     *)
(***************************************************************************)
EXTENDS Integers, Sequences, FiniteSets

CONSTANTS
    Daemons,          \* cube_worker.py and scheduler_worker.py
    SchedulerWorker,  \* the latter
    Webs,             \* the uWSGI workers
    BeatEvery,        \* the least time between two heartbeats
    MaxGap,           \* the most: a worker does not beat while it works
    Window,           \* the age from which a heartbeat is stale
    Day,              \* the time between two midnights (UTC)
    Backups,          \* max(1, LOG_RETENTION_DAYS): the dated files kept
    MonitorTail,      \* _ACTIVITY_TAIL_LINES of the monitoring page
    InspectTail,      \* _ACTIVITY_TAIL_LINES of the page of tasks
    TaskTTL,          \* SCHEDULER_LOCK_TTL_SECONDS
    Chatter,          \* bound: lines per time unit besides heartbeats
    MaxNow            \* bound: the latest time

ASSUME WatchAssumption ==
    /\ SchedulerWorker \in Daemons
    /\ BeatEvery \in Nat \ {0} /\ Day \in Nat \ {0} /\ Window \in Nat
    /\ MonitorTail \in Nat /\ InspectTail \in Nat /\ MonitorTail <= InspectTail
    /\ TaskTTL \in Nat \ {0} /\ Chatter \in Nat /\ Backups \in Nat \ {0}

VARIABLES
    now,
    log,        \* the last lines of the current file
    since,      \* when that file was opened
    touched,    \* when it was last written to
    dated,      \* the dated files there are
    life,       \* of each process
    stream,     \* the file each process has open: the current or a dated one
    rollAt,     \* when its handler rolls over
    beaten,     \* when each daemon that is up last left a heartbeat
    died,       \* when each daemon that is not up died
    chatter,    \* the lines of this time unit besides heartbeats
    task,       \* the run of the scheduled job
    taskLock,   \* when the key of its lock goes
    page        \* the worker's status on a page of tasks half made

logVars == <<log, since, touched, dated, stream, rollAt>>
taskVars == <<task, taskLock>>
watchVars == <<now, logVars, life, beaten, died, chatter, taskVars, page>>

Processes == Daemons \cup Webs

WatchInit ==
    /\ now = 0
    /\ log = <<>> /\ since = 0 /\ touched = 0 /\ dated = {}
    /\ life = [p \in Processes |-> "down"]
    /\ stream = [p \in Processes |-> "dated"]
    /\ rollAt = [p \in Processes |-> 0]
    /\ beaten = [d \in Daemons |-> 0]
    /\ died = [d \in Daemons |-> 0]
    /\ chatter = 0
    /\ task = "idle" /\ taskLock = 0
    /\ page = "none"

----------------------------------------------------------------------------
Line(event, p) == [event |-> event, by |-> p, at |-> now]

LastLines(lines, n) == SubSeq(lines, IF Len(lines) > n THEN Len(lines) - n + 1 ELSE 1, Len(lines))

NextMidnight(t) == (t \div Day + 1) * Day

\* Before rollAt[p] it was the day of this file.
DatedFile(p) == rollAt[p] - Day

\* shouldRollover, and no process was there before. (If one was, doRollover
\* returns and leaves the stream and the time of the rollover as they are.)
RollsOver(p) == now >= rollAt[p] /\ DatedFile(p) \notin dated

\* The files of the last days.
Newest(files) == {f \in files : Cardinality({g \in files : g > f}) < Backups}

\* doRollover: the current file gets the dated name, whoever wrote it last,
\* and p opens a new one; the others keep the file they have open.
DoRollover(p, lines) ==
    /\ log' = lines
    /\ since' = now /\ touched' = now
    /\ dated' = Newest(dated \cup {DatedFile(p)})
    /\ stream' = [q \in Processes |-> IF q = p THEN "current" ELSE "dated"]
    /\ rollAt' = [rollAt EXCEPT ![p] = NextMidnight(now)]

\* log_activity: the handler rolls over if it is time, then writes.
LogActivity(p, lines) ==
    \/ RollsOver(p) /\ DoRollover(p, lines)
    \/ /\ ~RollsOver(p) /\ stream[p] = "current"
       /\ log' = LastLines(log \o lines, InspectTail)
       /\ touched' = now
       /\ UNCHANGED <<since, dated, stream, rollAt>>
    \/ ~RollsOver(p) /\ stream[p] = "dated" /\ UNCHANGED logVars

Talk == chatter < Chatter /\ chatter' = chatter + 1

\* setup_logging: the handler appends to the current file, and takes the
\* time of its rollover from the file's last change.
SetupLogging(p) ==
    /\ life[p] = "down"
    /\ life' = [life EXCEPT ![p] = IF p \in Daemons THEN "starting" ELSE "up"]
    /\ stream' = [stream EXCEPT ![p] = "current"]
    /\ rollAt' = [rollAt EXCEPT ![p] = NextMidnight(touched)]
    /\ UNCHANGED <<now, log, since, touched, dated, beaten, died, chatter, taskVars, page>>

\* A daemon logs its start, and at once its first heartbeat.
StartDaemon(d) ==
    /\ life[d] = "starting" /\ Talk
    /\ life' = [life EXCEPT ![d] = "up"]
    /\ LogActivity(d, <<Line("started", d), Line("heartbeat", d)>>)
    /\ beaten' = [beaten EXCEPT ![d] = now]
    /\ died' = [died EXCEPT ![d] = 0]
    /\ UNCHANGED <<now, taskVars, page>>

\* _emit_worker_heartbeat, and the loop of run_scheduler_worker.
Heartbeat(d) ==
    /\ life[d] = "up" /\ now >= beaten[d] + BeatEvery
    /\ LogActivity(d, <<Line("heartbeat", d)>>)
    /\ beaten' = [beaten EXCEPT ![d] = now]
    /\ UNCHANGED <<now, life, died, chatter, taskVars, page>>

\* Any other event of any process.
Activity(p) ==
    /\ life[p] = "up" /\ Talk
    /\ LogActivity(p, <<Line("other", p)>>)
    /\ UNCHANGED <<now, life, beaten, died, taskVars, page>>

\* Its handler is gone with it; the next start makes a new one.
ProcessDies(p) ==
    /\ life[p] # "down"
    /\ life' = [life EXCEPT ![p] = "down"]
    /\ stream' = [stream EXCEPT ![p] = "dated"]
    /\ rollAt' = [rollAt EXCEPT ![p] = 0]
    /\ died' = IF p \in Daemons THEN [died EXCEPT ![p] = now] ELSE died
    /\ beaten' = IF p \in Daemons THEN [beaten EXCEPT ![p] = 0] ELSE beaten
    /\ task' = IF p = SchedulerWorker THEN "idle" ELSE task
    /\ UNCHANGED <<now, log, since, touched, dated, chatter, taskLock, page>>

----------------------------------------------------------------------------
\* run_locked_job, with the renewal thread of SchedulerLock on time.
StartTask ==
    /\ life[SchedulerWorker] = "up" /\ Talk
    /\ task = "idle" /\ now >= taskLock
    /\ task' = "running" /\ taskLock' = now + TaskTTL
    /\ LogActivity(SchedulerWorker, <<Line("scheduled_task_started", SchedulerWorker)>>)
    /\ UNCHANGED <<now, life, beaten, died, page>>

\* The lock is held: an earlier run died, or could not release it.
SkipTask ==
    /\ life[SchedulerWorker] = "up" /\ Talk
    /\ task = "idle" /\ now < taskLock
    /\ LogActivity(SchedulerWorker, <<Line("scheduled_task_skipped", SchedulerWorker)>>)
    /\ UNCHANGED <<now, life, beaten, died, taskVars, page>>

\* Completed, failed or aborted; the lock is released after it is logged.
EndTask ==
    /\ task = "running" /\ Talk
    /\ task' = "ended"
    /\ LogActivity(SchedulerWorker, <<Line("scheduled_task_ended", SchedulerWorker)>>)
    /\ UNCHANGED <<now, life, beaten, died, taskLock, page>>

ReleaseTask ==
    /\ task = "ended"
    /\ task' = "idle" /\ taskLock' \in {0, taskLock}
    /\ UNCHANGED <<now, logVars, life, beaten, died, chatter, page>>

WatchTick ==
    /\ now < MaxNow /\ page = "none"
    /\ \A d \in Daemons : life[d] = "up" => now < beaten[d] + MaxGap
    /\ now' = now + 1
    /\ chatter' = 0
    /\ taskLock' = IF task = "idle" THEN taskLock ELSE now' + TaskTTL
    /\ UNCHANGED <<logVars, life, beaten, died, task, page>>

----------------------------------------------------------------------------
\* The lines a page reads.
Recent(n) == LastLines(log, n)

Signs(d, n) == {i \in DOMAIN Recent(n) : Recent(n)[i].by = d /\ Recent(n)[i].event \in {"started", "heartbeat"}}

\* Faulty: the lines are searched from the first.
SeenOldest(d, n) == Recent(n)[CHOOSE i \in Signs(d, n) : \A j \in Signs(d, n) : i <= j].at

\* _read_latest_activity_record, and the loop of the page of tasks.
Seen(d, n) == Recent(n)[CHOOSE i \in Signs(d, n) : \A j \in Signs(d, n) : j <= i].at

\* _check_daemon_component and _build_scheduler_worker_snapshot.
DaemonShown(d, n) ==
    CASE Signs(d, n) = {}                                -> "not running"
      [] Signs(d, n) # {} /\ now - Seen(d, n) > Window   -> "stale"
      [] Signs(d, n) # {} /\ now - Seen(d, n) <= Window  -> "running"

MonitorShows(d) == DaemonShown(d, MonitorTail)

TasksPageShows(d) == DaemonShown(d, InspectTail)

\* get_scheduled_tasks_snapshot reads the log first.
ReadLog ==
    /\ page = "none"
    /\ page' = TasksPageShows(SchedulerWorker)
    /\ UNCHANGED <<now, logVars, life, beaten, died, chatter, taskVars>>

\* Faulty: without a heartbeat the lock is not looked at.
RuntimeOfWorker(worker) ==
    IF worker # "running" THEN "worker down"
    ELSE IF now < taskLock THEN "running" ELSE "idle"

\* _build_runtime_snapshot: the lock before the heartbeat. (When Redis
\* does not answer the status is unknown.)
Runtime(worker) ==
    IF now < taskLock THEN "running"
    ELSE IF worker # "running" THEN "worker down" ELSE "idle"

\* Then the locks, and the page shows Runtime(page).
ReadLocks ==
    /\ page # "none"
    /\ page' = "none"
    /\ UNCHANGED <<now, logVars, life, beaten, died, chatter, taskVars>>

WatchNext ==
    \/ \E d \in Daemons : StartDaemon(d) \/ Heartbeat(d)
    \/ \E p \in Processes : SetupLogging(p) \/ ProcessDies(p)
    \/ \E w \in Webs : Activity(w)
    \/ StartTask \/ SkipTask \/ EndTask \/ ReleaseTask
    \/ ReadLog \/ ReadLocks
    \/ WatchTick

WatchSpec == WatchInit /\ [][WatchNext]_watchVars

----------------------------------------------------------------------------
\* A heartbeat left after the current file was opened, by a daemon that
\* writes to it.
BeatIn(d) == stream[d] = "current" /\ beaten[d] > since

(***************************************************************************)
(* The statuses the two pages derive from the log. A daemon that died      *)
(* longer ago than the window is running on neither page. One that is up,  *)
(* writes to the current file and has left a heartbeat within the window   *)
(* since that file was opened (BeatIn) is running on both, whatever the    *)
(* other processes log, if fewer lines come between two heartbeats than a  *)
(* page reads. (Between a rollover and its next heartbeat a live daemon is *)
(* not running for the pages, while it writes to a dated file neither, and *)
(* while it works longer than the window it is stale.)                     *)
(***************************************************************************)
DaemonsShownTruly ==
    \A d \in Daemons, n \in {MonitorTail, InspectTail} :
        /\ life[d] = "down" /\ now - died[d] > Window => DaemonShown(d, n) # "running"
        /\ life[d] = "up" /\ BeatIn(d) /\ now - beaten[d] <= Window => DaemonShown(d, n) = "running"

(***************************************************************************)
(* The page of tasks asks the lock, not the worker, whether a run goes on  *)
(* (inspection.py:249): a job that runs is never shown idle or waiting for *)
(* a worker, even when the worker's heartbeats cannot be found; and idle is*)
(* shown only of a worker that was alive within the window.                *)
(***************************************************************************)
TasksShownTruly ==
    page # "none" =>
        /\ task # "idle" => Runtime(page) = "running"
        /\ Runtime(page) = "idle" =>
              life[SchedulerWorker] = "up" \/ now - died[SchedulerWorker] <= Window

(***************************************************************************)
(* MEMORY.md:38-39: the daemons leave heartbeats so that the monitoring    *)
(* page can compute their state. A daemon that is up and has left one since*)
(* midnight is shown running. It is not: the first process to log after    *)
(* midnight renames the file; the handlers of the others find the dated    *)
(* name taken, return, and go on in the dated file.                        *)
(***************************************************************************)
LiveDaemonsShown ==
    \A d \in Daemons :
        life[d] = "up" /\ beaten[d] >= (now \div Day) * Day => MonitorShows(d) = "running"
============================================================================
