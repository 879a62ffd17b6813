SPECIFICATION Spec
CONSTANTS
    Models = {"m1", "m2"}
    MaxOps = 2
    MaxRevision = 3
    MaxVisits = 2
    MaxRetries = 1
    Profiles = {p1}
    NoProfile = NoProfile
    MaxCalls = 2
    MaxFaults = 1
    MaxStarts = 1
    MaxRuns = 2
    MaxLog = 4
    ToolCalls = {1, 2}
    MaxPermits = 1
INVARIANTS
    TypeOK
    BusyIffActive
    OneInside
    AnswerReachesRun
    ToolCallsAccounted
PROPERTIES
    ActivatesWhatIsShown
    Conclusion
    WaitEnds
CHECK_DEADLOCK FALSE
