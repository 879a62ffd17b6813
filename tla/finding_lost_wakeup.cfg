SPECIFICATION FairSpec
CONSTANTS
    Runs = {r1}
    NoRun = NoRun
    Cmds = {c1, c2}
    NoCmd = NoCmd
    Procs = {p1}
    NoProc = NoProc
    Slots = {q1, q2}
    Kinds = {"start", "answer"}
    Costs = {"Low"}
    MaxSteps = 2
    MaxCrashes = 0
    ReconstructIsAtomic = TRUE
PROPERTY RunningRunStops
