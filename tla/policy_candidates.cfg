SPECIFICATION Spec
CONSTANTS
    w = w
    u = u
    u2 = u2
    dot = dot
    n = n
    m = m
    v = v
    Here = Here
    There = There
    Words = {w, u, u2, dot}
    Uuids = {u, u2}
    DotSegments = {dot}
    SizeOf <- MCSizeOf
    Malformed = Malformed
    Forbidden = Forbidden
    None = None
    Administrators = {a1}
    Readers = {}
    Candidates <- MCManyCandidates
    Calls = {}
INVARIANTS
    Unambiguous
    MatchedPathsResolve
    DigestNamesPolicy
    RefusalIsJustified
