SPECIFICATION Spec
CONSTANTS
    None = None
    Binary = Binary
    Oversize = Oversize
    Refused = Refused
    Service <- AllServices
    Topic <- Topics
    Reg = {1, 2, 3, 4}
    AttemptMax = 5
    MaxEvents = 3
INVARIANTS
    AckedMeansDone
    KeysKept
    DeadLettersArrive
CHECK_DEADLOCK FALSE
