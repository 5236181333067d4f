\* No fault: an event sent after the writer's last try_recv is accepted and
\* dropped with the Receiver.
SPECIFICATION Spec
CONSTANTS
    MaxMessages = 2
    BatchSize = 1
    MinCapacity = 2
    Faults = {}
INVARIANT WriterDrainsBeforeExit
