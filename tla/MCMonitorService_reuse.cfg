SPECIFICATION Spec
CONSTANTS
    Pids = {p1}
    p1 = p1
    p2 = p2
    MaxLife = 3
    MaxBytes = 3
    Sizes = {1, 2}
    Absent = Absent
    NoTime = NoTime
    None = None
    exe = exe
    own = own
    Apps = {exe, own}
    Identities <- MCIds
    KeysOf <- MCOneKey
    Unknown = Unknown
INVARIANTS
    NeverOvercharged
    CertainSampleIsComplete
PROPERTY
    CountersNeverStepBack
