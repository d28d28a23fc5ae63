SPECIFICATION Spec
CONSTANTS
    text1 = text1
    text2 = text2
    Empty = Empty
    None = None
    Texts = {Empty, text1, text2}
    Owners = {o1, o2}
    Inputs <- MCInputs
    SessionTtl = 5
    MaxTtl = 5
    ExpireLimit = 4
    Lease = 2
SYMMETRY Symmetry
INVARIANTS
    EveryRecordExpires
