SPECIFICATION FairSpec
CONSTANTS
    None = None
    Empty = Empty
    orders = orders
    dlq = dlq
    workers = workers
    short = short
    full = full
    p1 = p1
    p2 = p2
    Process = {p1, p2}
    Name = {short, full}
    Subscription = {workers}
    SubOf <- Spelled
    Topic = {orders, dlq}
    Plan <- Plans
    Infra <- Infrastructure
    Testing = TRUE
    MaxFaults = 1
INVARIANTS
    TypeOK
    LostRaceResolved
    PolicyInForce
    CapWasCarried
    HarnessKnowsAttachment
PROPERTY
    EventuallyServes
CHECK_DEADLOCK FALSE
