SPECIFICATION Spec
CONSTANTS
    None = None
    orders = orders
    invoices = invoices
    short = short
    full = full
    other = other
    Name = {short}
    Topic = {orders}
    TopicOf <- OneName
    Key = {k}
    Handle = {h}
    Worker = {w1, w2}
    Abandonable = {}
    MaxPublishes = 2
INVARIANTS
    ShutdownFlushesAll
CHECK_DEADLOCK FALSE
