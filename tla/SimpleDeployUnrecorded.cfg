\* As SimpleDeployFaults, but only state writes can fail.
SPECIFICATION Spec
CONSTANTS
    None = None
    coloring = coloring
    cv = cv
    timerAll = timerAll
    timerOne = timerOne
    base = base
    next = next
    origin = origin
    foreign = foreign
    plainFile = plainFile
    originFile = originFile
    Targets = {coloring}
    Procs = {timerAll, timerOne}
    Digests = {base, next, foreign}
    ComposeFiles = {plainFile}
    Faults = {"write_error"}
    Aliases <- OneAlias
    Registries <- PlainOnly
    Reviewed <- ReviewedImages
INVARIANTS
    UnrecordedMutationBlocks
