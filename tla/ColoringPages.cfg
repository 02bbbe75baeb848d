\* One archived page, two uploads of a page, and two batches of which the second repeats an
\* activity and names the archived page's id; two admin requests; the service is killed anywhere.
SPECIFICATION FairSpec
CONSTANTS
    None = None
    i1 = i1
    i2 = i2
    i3 = i3
    old = old
    a1 = a1
    a2 = a2
    a3 = a3
    d1 = d1
    d2 = d2
    Id = {i1, i2}
    Art = {old, a1, a2, a3, d1, d2}
    Initial <- OneOld
    Archived = {i1}
    Uploads <- TwoUploads
    Batches <- Repeated
    MaxHandled = 2
    Faults = {"crash"}
CHECK_DEADLOCK FALSE
INVARIANTS
    TypeOK
    LiveHasFiles
    IdNamesOneArt
    OneJobAtATime
PROPERTIES
    ClaimedOnce
    ImplementsPageLife
    LockIsFreed
    JobsSettle
