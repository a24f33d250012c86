SPECIFICATION FairBrokerSpec
CONSTANTS
    None = None
    c1 = c1
    c2 = c2
    c3 = c3
    b1 = b1
    b2 = b2
    r1 = r1
    r2 = r2
    Connection = {c1, c2, c3}
    Runtime = {r1, r2}
    GenWidth = 4
    Broker = {b1, b2}
    BrokerOf <- Cloned
    Clients = 1
    CallsOn <- Called
    t = t
    Task = {t}
    HandleOf <- PublishesTo
INVARIANTS
    LifecycleTypeOK
    OneConnection
    RegisteredWhileHeld
    SlotsAccounted
    UsableUntilShutdown
PROPERTIES
    ConnectReturns
CHECK_DEADLOCK FALSE
