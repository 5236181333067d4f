\* A server that outlived its run takes the uploads of the next one.
SPECIFICATION Spec
CONSTANTS
    MaxRuns = 2
    MaxSignals = 0
    EmptyIsUnset = TRUE
\* The last run is over.
CHECK_DEADLOCK FALSE
INVARIANT
    UploadsInOwnRun
