SPECIFICATION PartsSpec
CONSTANTS
    Runs = {r1, r2}
    NoRun = NoRun
    Cmds = {c1, c2}
    NoCmd = NoCmd
    Procs = {p1}
    NoProc = NoProc
    Slots = {q1, q2}
    Kinds = {"start", "resume", "answer", "cancel"}
    Costs = {"Low", "High"}
    MaxSteps = 1
    MaxCrashes = 1
    ReconstructIsAtomic = TRUE
    Puts = {u1, u2}
    Bodies = {0}
    PerShard = 2
    Exports = {e1, e2}
    Commands = {cmd}
    NoExport = NoExport
    Lengths = {4, 5}
    Budgets = {3}
    MaxFound = 2
    Asked = {a1}
    Talk = Talk
    Callers = {k1, k2}
    Generations = {g1, g2}
    NoGeneration = NoGeneration
    MaxChanges = 2
    Targets = {t1, t2}
    NoTarget = NoTarget
    MaxTasks = 2
    Letter = Letter
    Slash = Slash
    Command = Command
    NoText = NoText
    MaxText = 2
    MaxHistory = 2
SYMMETRY PartsSymmetry
INVARIANTS
    OneEffectPerCommand
    SingleUnfinishedCall
    PartsTypeOK
    RowHasBytes
    ExportStands
    PromptPacked
    RightClient
    PickerShowsAnswer
    ShowsActive
PROPERTIES
    TextIsKept
    ImplementsContract
