\* No fault: the drain at Ctrl+C puts everything buffered into one batch.
SPECIFICATION Spec
CONSTANTS
    MaxMessages = 3
    BatchSize = 1
    MinCapacity = 2
    Faults = {}
INVARIANT BatchWithinLimit
