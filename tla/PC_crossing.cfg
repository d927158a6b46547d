\* Two users whose commands cross; loads fail and a client may crash, with the
\* requests on their way to it.
CONSTANTS
    Node = {n1, n2}
    Slot = {s1, s2}
    Main = main
    Song = {a}
    NoSong = none
    Peers <- FullMesh
    Issuers <- Everybody
    Mortal <- OneIssuer
    MaxCommands = 2
    MaxHops = 2
    Serial = FALSE
    Lossy = FALSE
    Deadlines = FALSE
    Failures = TRUE
SPECIFICATION Spec
CHECK_DEADLOCK FALSE
INVARIANTS
    TypeOK
    FlagHasOwner
    EchoNeedsOverlap
PROPERTIES
    CommandsEnd
    FlagIsLowered
