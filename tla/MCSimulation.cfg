\* Two runs, the second one over what the first left behind, and three
\* signals: one in the handler of another.
SPECIFICATION FairSpec
CONSTANTS
    MaxRuns = 2
    MaxSignals = 3
    EmptyIsUnset = TRUE
\* The last run is over.
CHECK_DEADLOCK FALSE
INVARIANTS
    TypeOK
    CleanupAtMostOnce
    AttackIsCleanedUp
    ServerEndsWithScript
    ManagementIsNotCollected
    LatestIsWhole
PROPERTIES
    RunEnds
