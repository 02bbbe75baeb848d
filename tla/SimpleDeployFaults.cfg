\* One target, two units, kills and failed writes, the pointer moving, SIMPLE-DEPLOY
\* being switched on and off and the target opting into an origin image at will.
SPECIFICATION Spec
CONSTANTS
    None = None
    coloring = coloring
    cv = cv
    timerAll = timerAll
    timerOne = timerOne
    base = base
    next = next
    origin = origin
    foreign = foreign
    plainFile = plainFile
    originFile = originFile
    Targets = {coloring}
    Procs = {timerAll, timerOne}
    Digests = {base, origin, foreign}
    ComposeFiles = {plainFile, originFile}
    Faults = {"crash", "write_error"}
    Aliases <- OneAlias
    Registries <- AnyRegistry
    Reviewed <- ReviewedImages
INVARIANTS
    TypeOK
    MutualExclusion
    OnlyReviewedImagesRun
    SuccessIsRunning
PROPERTIES
    StopIsFinal
    ReceiptNamesWhatRuns
    ImplementsLedger
    OptInIsSticky
