SPECIFICATION FairSpec
CONSTANTS
    Run = {r1, r2}
    Handler = {h1, h2}
    MaxWarnings = 2
    MaxFaults = 1
INVARIANTS
    TasksInvariant
    ScheduleFollowsRow
    WarnedOnce
PROPERTIES
    RunningEnds
