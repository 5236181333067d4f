\* Six configurations, three of them with a mistake, every failure of the
\* client, the writer at any moment of the setup, and four operations of the
\* machine in every order.
SPECIFICATION Spec
CONSTANTS
    None = None
    Config <- MCConfig
    Cwd <- MCCwd
    Link <- MCLink
    Directories <- MCDirectories
    ClientFaults = {"new", "mute", "subscribe"}
    Pid = {p1, p2}
    User = {root, user}
    Name = {a, b}
    Home <- MCHome
    MaxOps = 4
\* Fewer orders of the writer and the machine; see MCCollector.
CONSTRAINT StoreOpened
SYMMETRY MCSymmetry
\* All processes may have exited.
CHECK_DEADLOCK FALSE
INVARIANTS
    TypeOK
    SubscribedAsConfigured
    StoreIsMuted
    OneEventPerOperation
    EventsAreSelfContained
    KeyNamesOneImage
    LiveProcessesAsTheyAre
    LineageIsConnected
    FilesCanBeFollowed
