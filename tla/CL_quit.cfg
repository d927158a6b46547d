\* Two clients quit at any time; one is sent anything meanwhile, the other one
\* hears of its exit.
CONSTANTS
    n1 = n1
    n2 = n2
    Node = {n1, n2}
    Slot = {s1, s2}
    Main = main
    Peers <- Listed
    Quitters = {n1, n2}
    Incoming <- Heard
SPECIFICATION Spec
CHECK_DEADLOCK FALSE
INVARIANTS
    TypeOK
    HandlersAreDone
    ServerIsJoined
    PeersAreTold
PROPERTIES
    QuitExits
