SPECIFICATION Spec
CONSTANTS
    None = None
    Message = {m1}
    Cap = 1
    Learned = {1}
    CHANNEL_CAPACITY = 1
    MaxOutstanding = 1
    MaxLease = 2
    Delay = {2}
    Guarantees = {FALSE}
    MaxFaults = 0
PROPERTY
    NeverEarly
CHECK_DEADLOCK FALSE
