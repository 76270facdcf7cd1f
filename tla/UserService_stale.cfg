\* A read that overlaps an update, nothing fails.
SPECIFICATION Spec
CONSTANTS
    None = None
    r1 = r1
    r2 = r2
    r3 = r3
    e1 = e1
    e2 = e2
    n1 = n1
    n2 = n2
    Requests = {r1, r2, r3}
    Ids = {i1}
    Emails = {e1, e2}
    Names = {n1, n2}
    MaxFaults = 0
INVARIANTS
    CacheCoherentAtRest
CHECK_DEADLOCK FALSE
