\* One user, two commands in a row: a peer gets them the other way round.
CONSTANTS
    Node = {n1, n2}
    Slot = {s1, s2}
    Main = main
    Song = {a}
    NoSong = none
    Peers <- FullMesh
    Issuers <- OneIssuer
    Mortal <- Nobody
    MaxCommands = 3
    MaxHops = 1
    Serial = FALSE
    Lossy = FALSE
    Deadlines = FALSE
    Failures = FALSE
SPECIFICATION Spec
CHECK_DEADLOCK FALSE
INVARIANTS
    Synced
