\* Three requests of any kind and one fault.
SPECIFICATION FairSpec
CONSTANTS
    None = None
    r1 = r1
    r2 = r2
    r3 = r3
    e1 = e1
    e2 = e2
    n1 = n1
    n2 = n2
    Requests = {r1, r2, r3}
    Ids = {i1, i2}
    Emails = {e1, e2}
    Names = {n1}
    MaxFaults = 1
INVARIANTS
    EmailsUnique
    CacheInv
PROPERTIES
    CacheConverges
    ImplementsDirectory
CHECK_DEADLOCK FALSE
