\* Two targets, the --all unit and a per-target unit, commands failing, nobody killed.
SPECIFICATION FairSpec
CONSTANTS
    None = None
    coloring = coloring
    cv = cv
    timerAll = timerAll
    timerOne = timerOne
    base = base
    next = next
    origin = origin
    foreign = foreign
    plainFile = plainFile
    originFile = originFile
    Targets = {coloring, cv}
    Procs = {timerAll, timerOne}
    Digests = {base, next}
    ComposeFiles = {plainFile}
    Faults = {}
    Aliases <- BothAliases
    Registries <- FirstRefused
    Reviewed <- ReviewedImages
INVARIANTS
    UnrecordedMutationBlocks
PROPERTIES
    Converges
