SPECIFICATION FairSpec
CONSTANTS
    StaleSeconds = 2
    MaxTime = 3
    None = None
    MaxSamples = 2
INVARIANTS
    ViewsAreCurrent
PROPERTIES
    StaleIsBlanked
