SPECIFICATION Spec
CONSTANTS
    Runs = {r1}
    NoRun = NoRun
    Cmds = {c1}
    NoCmd = NoCmd
    Procs = {p1}
    NoProc = NoProc
    Slots = {q1}
    Kinds = {"start"}
    Costs = {"Low"}
    MaxSteps = 1
    MaxCrashes = 0
    ReconstructIsAtomic = TRUE
INVARIANT RecoverableHistory
