SPECIFICATION Spec
CONSTANTS
    Metrics = {m1, m2}
    AdHoc = AdHoc
    Versions = {v1, v2}
    NoVersion = NoVersion
    Bodies = {b1, b2}
    Policies = {p1, p2}
    MaxRuns = 2
SYMMETRY Symmetry
INVARIANTS
    TypeOK
    EvidenceChain
    CompletionReady
    SucceededIsGoverned
    UnknownNotRepeated
    GrantForRecoveredCall
PROPERTY VerifiedIsFinal
