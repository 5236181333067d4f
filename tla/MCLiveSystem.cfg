\* Two runs of the command over one database, three messages each, with every
\* fault of the pipeline and of the store.
SPECIFICATION Spec
CONSTANTS
    MaxMessages = 3
    BatchSize = 2
    MinCapacity = 2
    Faults = {"collector", "open", "flush", "kill"}
    None = None
    NoToken = NoToken
    StoreFaults = {"ddl", "query", "kill"}
    EventOf <- MCEventOf
    MaxRuns = 2
INVARIANTS
    GraphIsTheLog
    OneTornRowPerCut
    ExitLeavesAllInGraph
    TypeOK
