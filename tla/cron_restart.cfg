SPECIFICATION Spec
CONSTANTS
    once = once
    keep = keep
    every = every
    Jobs = {once, keep, every}
    Def <- MCDef
    Fitting <- MCFitting
    NoJob = NoJob
    MaxJobs = 2
    Overdue = 2
    MinEpoch = 10
    MaxTime = 14
    MaxBoots = 1
INVARIANTS
    FiredIsSpent
    MarkIsOfPushedJob
    AcceptedIsKept
    OnTimeIsNotOverdue
    SavedWhenQuiet
PROPERTIES
    AcceptedSurvives
CONSTRAINT OnceFilled
CHECK_DEADLOCK FALSE
