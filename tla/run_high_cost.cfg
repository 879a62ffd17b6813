SPECIFICATION Spec
CONSTANTS
    Runs = {r1}
    NoRun = NoRun
    Cmds = {q1, q2, q3}
    NoCmd = NoCmd
    Procs = {p1}
    NoProc = NoProc
    Slots = {q1, q2, q3}
    Kinds = {"start", "resume", "answer"}
    Costs = {"High"}
    MaxSteps = 1
    MaxCrashes = 2
    ReconstructIsAtomic = TRUE
SYMMETRY Symmetry
ACTION_CONSTRAINT MarkedIssues
INVARIANT HighCostRetryConfirmed
