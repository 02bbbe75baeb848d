\* Three pids beside the wrapper's and three processes, so that pids are used again; wrapper
\* and cleaner are killed anywhere.
SPECIFICATION Spec
CONSTANTS
    None = None
    Pid = {1, 2, 3, 4}
    Wrapper = 1
    MaxStart = 3
    Faults = {"killed"}
CHECK_DEADLOCK FALSE
INVARIANTS
    TypeOK
    OnlyTheRunIsSignalled
PROPERTY
    NothingIsLeftBehind
