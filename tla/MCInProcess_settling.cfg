SPECIFICATION FairSpec
CONSTANTS
    None = None
    orders = orders
    spent = spent
    workers = workers
    audit = audit
    w1 = w1
    w2 = w2
    Topic = {orders, spent}
    Sub = {workers, audit}
    Worker = {w1, w2}
    Descriptor <- Recapped
    MaxConsumers = 2
    MaxPublishes = 1
    AttemptMax = 3
    TurnWidth = 4
INVARIANTS
    TypeOK
PROPERTIES
    ImplementsContract
    EventuallySettled
    HarnessSettles
CHECK_DEADLOCK FALSE
