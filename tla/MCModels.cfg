SPECIFICATION AllSpec
CHECK_DEADLOCK FALSE
CONSTANTS
    StaleSeconds = 3
    MaxTime = 5
    None = None
    Apps = {1, 2, 3}
    Unstable = {3}
    MaxRate = 2
    ChallengerSeconds = 2
    Tracks = {1, 2, 3}
    MaxApps = 2
    MaxSamples = 2
    HistoryWindow = 7
    HistoryTime = 10
    Nobody = Nobody
    Window = 2
    RateTime = 5
    MaxBytes = 4
    Unknown = Unknown
    Pids = {p, q}
    Lives = {1, 2}
    Varied = {p}
    Rates = {1}
    Program = Program
    Accounts = {k, l}
    Found = {k}
    Builders = {x, y}
    MaxContents = 3
    MaxBuilds = 2
    Channels = {public}
INVARIANTS
    SustainedLeaderIsChosen
    ShownHistoryComplete
    BadgeAgrees
    EvidenceIsCurrent
    ListsShowLatest
    ZipIsOfCommit
    OneBuildPerDestination
    PartsStaySound
PROPERTIES
    SwitchNeedsEvidence
    RateIsWindowed
    ExportedIsClicked
