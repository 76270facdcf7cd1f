\* Requests through the middlewares, and the limiter under them.
SPECIFICATION MCSpec
CONSTANTS
    r1 = r1
    r2 = r2
    Requests = {r1, r2}
    Ips = {a1}
    Buckets = {b1, b2}
    NoBucket = NoBucket
    Cost = 1
    Capacity = 2
    Interval = 3
    MaxStall = 1
    MaxTime = 4
    Users = {u1, u2}
    None = None
    Listed = Listed
    Other = Other
    TokenLife = 1
INVARIANTS
    RateBound
    AnswersComplete
PROPERTIES
    AnsweredOnce
    ProtectedNeedsLogin
    EveryRequestAnswered
