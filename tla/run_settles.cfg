SPECIFICATION FairSpec
CONSTANTS
    Runs = {r1}
    NoRun = NoRun
    Cmds = {c1, c2}
    NoCmd = NoCmd
    Procs = {p1}
    NoProc = NoProc
    Slots = {q1, q2}
    Kinds = {"start", "resume"}
    Costs = {"Low"}
    MaxSteps = 1
    MaxCrashes = 1
    ReconstructIsAtomic = FALSE
INVARIANT RowWasJournaled
PROPERTY ScheduledRunSettles
