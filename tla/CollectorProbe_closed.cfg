SPECIFICATION ProbeSpec
CONSTANTS
    Chunks = 2
    None = None
INVARIANTS
    SuccessIsClosed
