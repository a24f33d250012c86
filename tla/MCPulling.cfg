SPECIFICATION FairSpec
CONSTANTS
    None = None
    Message = {m}
    Cap = 2
    Learned = {2, None}
    CHANNEL_CAPACITY = 2
    MaxOutstanding = 2
    MaxLease = 2
    Delay = {1, 2, 3}
    Guarantees = {TRUE, FALSE}
    MaxFaults = 1
INVARIANTS
    TypeOK
    HandedInOrder
    ConfirmedAckFinal
    AckedAsAsked
    DelayHonoured
PROPERTIES
    EventuallySettled
    PumpEnds
CHECK_DEADLOCK FALSE
