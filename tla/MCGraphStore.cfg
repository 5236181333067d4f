\* Both commands that ingest, with every fault.  The id counter reaches the
\* largest id and goes one beyond it.
SPECIFICATION Spec
CONSTANTS
    None = None
    NoToken = NoToken
    Argv = Argv
    ExitStatus = ExitStatus
    Event <- MCEvent
    Role = {"run", "replay", "status"}
    I64Max = 3
    MaxBatch = 2
    MaxId = 4
    Faults = {"ddl", "query", "kill"}
INVARIANTS
    TypeOK
    IdsAreDense
    EdgesAreAudited
    PropertiesAreAudited
    StoredIsComplete
PROPERTIES
    NothingForgotten
