SPECIFICATION Spec
CONSTANTS
    Metrics = {m1}
    AdHoc = AdHoc
    Versions = {v1}
    NoVersion = NoVersion
    Bodies = {b1}
    Policies = {p1}
    MaxRuns = 1
INVARIANT CurrentDataIsKnown
