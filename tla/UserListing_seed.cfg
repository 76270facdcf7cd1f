\* Seeders, other writers and a client that reads every page.
SPECIFICATION MCSpec
CONSTANTS
    s1 = s1
    s2 = s2
    admin = admin
    e1 = e1
    e2 = e2
    Emails = {admin, e1, e2}
    Admin = admin
    Seeders = {s1, s2}
    Count = 2
    MaxTime = 2
    MaxFaults = 1
    DefaultSize = 1
    MaxSize = 2
    Sizes <- MCSizes
INVARIANTS
    ListingTypeOK
    SafeToRepeat
    CountHonest
    PageMatchesTotal
    WalkIsFaithful
PROPERTIES
    SeedersEnd
