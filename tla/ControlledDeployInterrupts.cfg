\* Two transactions; the operation can be killed anywhere, and someone else changes
\* target files between and before operations.
SPECIFICATION Spec
CONSTANTS
    Absent = Absent
    None = None
    core = core
    cron = cron
    rotate = rotate
    coreNow = coreNow
    cronOld = cronOld
    cronNew = cronNew
    cronNewer = cronNewer
    rotateNew = rotateNew
    edited = edited
    Targets = {core, cron, rotate}
    AttestOnly = {core}
    Contents = {coreNow, cronOld, cronNew, cronNewer, rotateNew, edited}
    Foreign = {edited}
    Manifest <- InOrder
    Source <- TwoCommits
    Initials <- FreshOrEdited
    Faults = {"drift", "interrupt"}
    MaxTx = 2
INVARIANTS
    RecordedBeforeTouched
    PointerProvesCommit
PROPERTIES
    DriftIsReviewed
    AttestedIsUntouched
