\* Three clients, one command at a time; the one without a user may crash.
CONSTANTS
    Node = {n1, n2, n3}
    Slot = {s1}
    Main = main
    Song = {a, b}
    NoSong = none
    Peers <- FullMesh
    Issuers <- TwoIssuers
    Mortal <- Bystanders
    MaxCommands = 4
    MaxHops = 2
    Serial = TRUE
    Lossy = FALSE
    Deadlines = FALSE
    Failures = FALSE
SPECIFICATION Spec
CHECK_DEADLOCK FALSE
INVARIANTS
    NoEcho
    PlaysTheSongAskedFor
    Synced
    Aligned
    AsAsked
PROPERTIES
    UserCommandsAreBroadcast
    ActsAsOnePlayer
    CarriesCommandsOut
