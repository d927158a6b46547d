\* A client quits.
CONSTANTS
    Node <- Nodes
    Slot = {s1}
    Main = main
    Addr <- Addresses
    Self <- SelfAddress
    Reach <- Owner
    Outgoing <- Ephemeral
    Joins <- LanJoins
    MaxOps = 4
    Mortal <- Nobody
    Serial = TRUE
    Flaky = FALSE
    Deadlines = FALSE
SPECIFICATION Spec
CHECK_DEADLOCK FALSE
PROPERTIES
    ExitRemoves
