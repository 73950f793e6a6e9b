\* Two schedulers, two files, metadata that do not expire (the default); two
\* requests for two pictures; both daemons and one uWSGI worker.
SPECIFICATION OperationsSpec
CONSTANTS
    Schedulers = {s1, s2}
    Files = {f1, f2}
    NoFile = NoFile
    LockTTL = 3
    RenewInterval = 1
    MaxDelay = 0
    MaxStep = 1
    MaxClock = 3
    Nobody = Nobody
    Retention = 1
    ImageTTL = 0
    StorageLimit = 1
    MaxDay = 3
    Pictures = {p1, p2}
    Servers = {r1, r2}
    Sweeper = sweeper
    DiskLimit = 2
    Daemons = {cube, scheduler}
    SchedulerWorker = scheduler
    Webs = {web}
    BeatEvery = 1
    MaxGap = 1
    Window = 1
    Day = 2
    Backups = 1
    MonitorTail = 7
    InspectTail = 8
    TaskTTL = 1
    Chatter = 1
    MaxNow = 4
SYMMETRY Symmetry
INVARIANTS
    OneWorker
    SavedFindable
    FailedLeavesNothing
    UnlinkFinds
    DiskAccounted
    DaemonsShownTruly
    TasksShownTruly
    ChecksLeaveNothing
PROPERTIES
    KeyRespected
    YoungFilesKept
CHECK_DEADLOCK FALSE
