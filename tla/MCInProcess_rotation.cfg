SPECIFICATION Spec
CONSTANTS
    None = None
    orders = orders
    spent = spent
    workers = workers
    audit = audit
    w1 = w1
    w2 = w2
    Topic = {orders, spent}
    Sub = {workers}
    Worker = {w1, w2}
    Descriptor <- OneSubscription
    MaxConsumers = 4
    MaxPublishes = 2
    AttemptMax = 3
    TurnWidth = 4
SYMMETRY Workers
INVARIANTS
    NoStranding
    FirstDeliveriesInOrder
    ExactlyOnePlace
    InFlightExact
    AttemptsWithinCap
PROPERTIES
    RoutesAgree
    ReleasedLast
CHECK_DEADLOCK FALSE
