SPECIFICATION AllSpec
CHECK_DEADLOCK FALSE
CONSTANTS
    Instances = {one, two}
    Values = {u, v}
    Default = Default
    Torn = Torn
    Kills = TRUE
    Beside = TRUE
    MaxStarts = 2
    Paths = {p1, p2, p3, p4}
    Capacity = 2
    MaxCloses = 2
    Stop = Stop
    Layouts <- MCLayouts
    Micro <- MCMicro
    Card <- MCCard
    Points <- MCPoints
    Gap = 1
    Snap = 2
    Nowhere = Nowhere
    Places = {"micro", "card", "away"}
    HasTray = TRUE
    Keys = {k1, k2, k3}
    Chunks = 2
    None = None
INVARIANTS
    FileWhole
    NeverFull
    OnScreen
    CardBeside
    VerdictIsTrue
    PartsStaySound
PROPERTIES
    PersistedAlone
    ShutdownEnds
    RequestsAnswered
    StaysPut
    EngagedStays
    PreviewEnds
    ClickFollowsShown
    ProbeEnds
