SPECIFICATION Spec
CONSTANTS
    Runs = {r1}
    NoRun = NoRun
    Cmds = {c1, c2}
    NoCmd = NoCmd
    Procs = {p1, p2}
    NoProc = NoProc
    Slots = {q1, q2}
    Kinds = {"start", "resume", "answer", "cancel"}
    Costs = {"Low", "High"}
    MaxSteps = 2
    MaxCrashes = 0
    ReconstructIsAtomic = TRUE
SYMMETRY Symmetry
INVARIANTS
    TypeOK
    LedgerInv
    CallEventsOnce
    NoUndecidedWhileRunning
