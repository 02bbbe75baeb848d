\* Two transactions; any step fails, undoing can fail too; nobody else interferes.
SPECIFICATION Spec
CONSTANTS
    Absent = Absent
    None = None
    core = core
    cron = cron
    rotate = rotate
    coreNow = coreNow
    cronOld = cronOld
    cronNew = cronNew
    cronNewer = cronNewer
    rotateNew = rotateNew
    edited = edited
    Targets = {core, cron, rotate}
    AttestOnly = {core}
    Contents = {coreNow, cronOld, cronNew, cronNewer, rotateNew, edited}
    Foreign = {edited}
    Manifest <- InOrder
    Source <- TwoCommits
    Initials <- Fresh
    Faults = {"undo"}
    MaxTx = 2
INVARIANTS
    TypeOK
    LatestSuccessIsLive
PROPERTIES
    ApplyIsAtomic
    RollbackIsAtomic
