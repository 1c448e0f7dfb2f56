SPECIFICATION FairSpec
CONSTANTS
    Req = {r1, r2, r3}
    Limit = 2
    Window = 3
    MaxCount = 4
    MaxFailures = 1
    NoExpiry = NoExpiry
INVARIANT BurstBounded
INVARIANT ExpiryOwed
PROPERTY WindowFixed
PROPERTY LimitLiftsUnlessDied
