SPECIFICATION Spec
CONSTANTS
    Profiles = {a}
    NoProfile = NoProfile
    Models = {m1, m2}
    Runs = {r1}
    Ops = {o1, o2}
    NoOp = NoOp
    MaxRevision = 3
    MaxGeneration = 3
    MaxActivation = 2
    MaxCalls = 3
    MaxFaults = 1
    MaxStarts = 1
    Kinds = {"save", "replace", "delete", "validate", "switch", "activate", "remove", "bind"}
SYMMETRY Symmetry
INVARIANTS
    TypeOK
    CredentialInVault
    BoundRunKeepsCredential
    OnlyProvenIsUsed
    ActiveKeepsCredential
    NothingLeftBehind
PROPERTIES
    NoLostEdit
CHECK_DEADLOCK FALSE
