SPECIFICATION FairSpec
CONSTANTS
    None = None
    orders = orders
    invoices = invoices
    short = short
    full = full
    other = other
    Name = {short, full, other}
    Topic = {orders, invoices}
    TopicOf <- Spelled
    Key = {k}
    Handle = {h}
    Worker = {w1, w2}
    Abandonable = {w1}
    MaxPublishes = 2
INVARIANTS
    TypeOK
    RightPublisher
    FlushCovers
    OnePublisherPerTopic
    KeyOrder
PROPERTIES
    CallsReturn
    KeyResumes
CHECK_DEADLOCK FALSE
