\* Only the AUTH form of exec is subscribed to.
SPECIFICATION Spec
CONSTANTS
    None = None
    Config <- AuthOnly
    Cwd <- MCCwd
    Link <- MCLink
    Directories <- MCDirectories
    ClientFaults = {"new", "mute", "subscribe"}
    Pid = {p1, p2}
    User = {root, user}
    Name = {a, b}
    Home <- MCHome
    MaxOps = 4
\* All processes may have exited.
CHECK_DEADLOCK FALSE
INVARIANT
    AuthGivesEdge
