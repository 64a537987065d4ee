SPECIFICATION Spec
CONSTANTS
    Pids = {p1}
    p1 = p1
    p2 = p2
    MaxLife = 2
    MaxBytes = 2
    Sizes = {1}
    Absent = Absent
    NoTime = NoTime
    None = None
    exe = exe
    own = own
    Apps = {exe, own}
    Identities <- MCIds
    KeysOf <- MCOneKey
    Unknown = Unknown
INVARIANTS
    NewIdentityIsolated
