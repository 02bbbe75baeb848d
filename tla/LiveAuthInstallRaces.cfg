\* Two processes, requests for two commits of main, a canary with the request id of
\* one of them, one edit.
SPECIFICATION Spec
SYMMETRY Symmetry
CONSTANTS
    Absent = Absent
    Partial = Partial
    None = None
    p1 = p1
    p2 = p2
    i1 = i1
    i2 = i2
    r1 = r1
    r2 = r2
    Procs = {p1, p2}
    Issues = {i1, i2}
    Requests = {r1, r2}
    Bodies <- RequestsAndCanary
    MaxMain = 2
    MaxEdits = 1
INVARIANTS
    TypeOK
    SucceededIsInstalled
    MarkerNamesInstall
    IInv
    SingleUse
    StoreAlwaysOpens
PROPERTIES
    ImplementsOneShot
    NeverResumed
