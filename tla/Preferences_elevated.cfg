SPECIFICATION Spec
CHECK_DEADLOCK FALSE
CONSTANTS
    Instances = {one, two}
    Values = {u, v}
    Default = Default
    Torn = Torn
    Kills = FALSE
    Beside = FALSE
    MaxStarts = 3
PROPERTIES
    PersistedAtExit
