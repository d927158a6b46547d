\* A sender and one peer, pinged twice.
CONSTANTS
    s = s
    p = p
    q = q
    Client = {s, p}
    Sender = s
    Peers <- One
    Skew <- Skews
    Word = 24
    Digits = 128
    Scales = {1}
    Samples = 2
    Margin = 3
    Ms = 3
    Rest = 1
    Jitter = 1
    MaxDelay = 2
    Beginnings <- Times
    MaxNow = 60
SPECIFICATION Spec
CHECK_DEADLOCK FALSE
INVARIANTS
    OffsetIsSkew
