\* A job of two pages alone; a tool outlives its time-out, the service is killed, a write fails.
SPECIFICATION Spec
CONSTANTS
    None = None
    i1 = i1
    i2 = i2
    i3 = i3
    old = old
    a1 = a1
    a2 = a2
    a3 = a3
    d1 = d1
    d2 = d2
    Id = {i1, i2, i3}
    Art = {old, a1, a2, a3, d1, d2}
    Initial <- OneOld
    Archived = {i1}
    Uploads <- TwoPages
    Batches <- NoBatch
    MaxHandled = 0
    Faults = {"crash", "write_error"}
CHECK_DEADLOCK FALSE
INVARIANTS
    FailedJobListsPublished
