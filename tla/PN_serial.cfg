\* One command at a time; clients may crash at any moment.
CONSTANTS
    Node <- Nodes
    Slot = {s1}
    Main = main
    Addr <- Addresses
    Self <- SelfAddress
    Reach <- Owner
    Outgoing <- Ephemeral
    Joins <- LanJoins
    MaxOps = 4
    Mortal <- Everybody
    Serial = TRUE
    Flaky = FALSE
    Deadlines = FALSE
SPECIFICATION Spec
CHECK_DEADLOCK FALSE
INVARIANTS
    NoDuplicates
    GossipMakesMesh
PROPERTIES
    OpsEnd
