\* Commands at any time, failing pings and calls: gossips cross joins, leaves and gossips.
CONSTANTS
    Node <- Nodes
    Slot = {s1, s2}
    Main = main
    Addr <- Addresses
    Self <- SelfAddress
    Reach <- Owner
    Outgoing <- Ephemeral
    Joins <- LanJoins
    MaxOps = 4
    Mortal <- Nobody
    Serial = FALSE
    Flaky = TRUE
    Deadlines = FALSE
SPECIFICATION Spec
CHECK_DEADLOCK FALSE
INVARIANTS
    TypeOK
    NoSelfLoop
PROPERTIES
    OpsEnd
