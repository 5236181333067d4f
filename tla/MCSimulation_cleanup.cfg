\* One run, undisturbed: what its verification says of the VM.
SPECIFICATION Spec
CONSTANTS
    MaxRuns = 1
    MaxSignals = 0
    EmptyIsUnset = TRUE
\* The last run is over.
CHECK_DEADLOCK FALSE
INVARIANT
    VerifiedIsRemoved
