\* A bare file name, and a store below a link with two levels missing.
SPECIFICATION Spec
CONSTANTS
    None = None
    Config <- StoreConfig
    Cwd <- MCCwd
    Link <- MCLink
    Directories <- MCDirectories
    ClientFaults = {"new", "mute", "subscribe"}
    Pid = {p1, p2}
    User = {root, user}
    Name = {a, b}
    Home <- MCHome
    MaxOps = 4
\* All processes may have exited.
CHECK_DEADLOCK FALSE
INVARIANT
    StoreAlwaysMuted
