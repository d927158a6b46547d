\* Two clients, one of which loads from two threads; a connection may break,
\* the server may stop and start again once.
CONSTANTS
    c1 = c1
    c2 = c2
    user = user
    handler = handler
    long = long
    short = short
    bad = bad
    Client = {c1, c2}
    Loader <- Threads
    Song = {long, short, bad}
    Parts <- Lengths
    Wav <- Songs
    Playlists <- Orders
    Numbers = {1, 2}
    MaxEvents = 3
SPECIFICATION Spec
CHECK_DEADLOCK FALSE
INVARIANTS
    TypeOK
    PlaysWholeSong
    SameNumberSameSong
    HearOfEachOther
    OneEntryEach
PROPERTIES
    LoadsEnd
