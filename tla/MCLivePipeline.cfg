\* Every fault, with fair threads and time that passes; neither Ctrl+C nor a
\* message nor a fault has to happen.  Batches of two and a channel of two:
\* flushes on size and on the interval, a full channel, a blocked handler, and
\* a drain longer than a batch.
SPECIFICATION FairSpec
CONSTANTS
    MaxMessages = 5
    BatchSize = 2
    MinCapacity = 2
    Faults = {"collector", "open", "flush", "kill"}
INVARIANTS
    TypeOK
    CommittedInOrder
    NothingInTransitLost
    LossIsBounded
    DurableAtExit
    StatsCountCommitted
    ErrorExitMeansNoEvents
    IInv
PROPERTIES
    AppendOnly
    ImplementsLog
    StopsWhenAsked
    SendReturns
    EveryMessageHandled
    AcceptedBecomesDurable
