SPECIFICATION Spec
CONSTANTS
    Runs = {r1}
    NoRun = NoRun
    Cmds = {c1, c2}
    NoCmd = NoCmd
    Procs = {p1}
    NoProc = NoProc
    Slots = {q1, q2}
    Kinds = {"start", "cancel"}
    Costs = {"Low"}
    MaxSteps = 1
    MaxCrashes = 0
    ReconstructIsAtomic = TRUE
PROPERTY TerminalIsFinal
