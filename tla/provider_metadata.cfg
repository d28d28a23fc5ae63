SPECIFICATION FairSpec
CONSTANTS
    Readers = {r1}
    Callbacks = {c1, c2}
    Behind = 1
    Faults = {"none", "claims", "foreign", "nonce"}
    MaxVersion = 3
INVARIANTS
    TypeOK
    FilledOnce
    SingleRefresh
PROPERTIES
    RegressesOnlyByOverlap
    VerdictsAreTimely
    EveryTaskEnds
