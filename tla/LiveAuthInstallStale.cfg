\* The replay check alone, with processes that are killed.
SPECIFICATION Spec
CONSTANTS
    Absent = Absent
    Partial = Partial
    None = None
    p1 = p1
    p2 = p2
    i1 = i1
    i2 = i2
    r1 = r1
    r2 = r2
    Procs = {p1}
    Issues = {i1, i2}
    Requests = {r1, r2}
    Bodies <- RequestsAndCanary
    MaxMain = 2
    MaxEdits = 0
PROPERTIES
    AvailableIsNew
