SPECIFICATION Spec
CONSTANTS
    None = None
    Empty = Empty
    orders = orders
    dlq = dlq
    workers = workers
    short = short
    full = full
    p1 = p1
    p2 = p2
    Process = {p1}
    Name = {short, full}
    Subscription = {workers}
    SubOf <- Spelled
    Topic = {orders, dlq}
    Plan <- Mixed
    Infra <- Infrastructure
    Testing = FALSE
    MaxFaults = 0
INVARIANTS
    OnePolicyPerSubscription
CHECK_DEADLOCK FALSE
