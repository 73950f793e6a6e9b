\* The monitoring page after midnight, against MEMORY.md.
SPECIFICATION WatchSpec
CONSTANTS
    Daemons = {cube, scheduler}
    SchedulerWorker = scheduler
    Webs = {web}
    BeatEvery = 1
    MaxGap = 1
    Window = 1
    Day = 2
    Backups = 1
    MonitorTail = 6
    InspectTail = 7
    TaskTTL = 1
    Chatter = 1
    MaxNow = 3
INVARIANTS
    LiveDaemonsShown
CHECK_DEADLOCK FALSE
