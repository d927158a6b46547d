\* A sender and two peers, each pinged once; pings fail, messages are lost.
CONSTANTS
    s = s
    p = p
    q = q
    Client = {s, p, q}
    Sender = s
    Peers <- Order
    Skew <- Skews
    Word = 24
    Digits = 8
    Scales = {1, 2, 4, 8, 16}
    Samples = 1
    Margin = 2
    Ms = 2
    Rest = 0
    Jitter = 3
    MaxDelay = 1
    Beginnings <- Times
    MaxNow = 60
SPECIFICATION Spec
CHECK_DEADLOCK FALSE
INVARIANTS
    TypeOK
    StartsClose
    StartsOnTarget
PROPERTIES
    SenderStarts
