\* One control thread, every operation, both ways to load, seeks as in a group that
\* is in step.
CONSTANTS
    Caller = {c}
    Ops <- AllOps
    Kinds = {"file", "memory"}
    Lengths = {0, 5, 8}
    Positions <- Offsets
    InStep = TRUE
    Header = 4
    FrameBytes = 2
    Buffer = 2
    Word = 32
SPECIFICATION Spec
INVARIANTS
    TypeOK
    SoundHasItsFlag
    NoFillUnderRender
    PlaysWithinSong
PROPERTIES
    CallsReturn
    SongEnds
