\* A song loaded from memory starts before its data.
CONSTANTS
    Caller = {c}
    Ops <- NoSeek
    Kinds = {"memory"}
    Lengths = {0, 5, 8}
    Positions <- Offsets
    InStep = TRUE
    Header = 4
    FrameBytes = 2
    Buffer = 2
    Word = 32
SPECIFICATION Spec
INVARIANTS
    ReadsInBounds
