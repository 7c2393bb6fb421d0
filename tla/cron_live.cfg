SPECIFICATION FairSpec
CONSTANTS
    once = once
    keep = keep
    every = every
    Jobs = {once, every}
    Def <- MCDef
    Fitting <- MCFitting
    NoJob = NoJob
    MaxJobs = 2
    Overdue = 2
    MinEpoch = 10
    MaxTime = 12
    MaxBoots = 0
PROPERTIES
    DueIsTaken
CHECK_DEADLOCK FALSE
