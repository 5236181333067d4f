----------------------------- MODULE Collector ------------------------------
(***************************************************************************)
(* The collector at work: processes and files of the machine change, the   *)
(* kernel reports what the client is subscribed to, and handle_message     *)
(* turns each message into an event for the writer.                        *)
(*                                                                         *)
(* The machine is external and is modelled by what the code takes from it: *)
(* an audit token holds the pid, a version that no other process instance  *)
(* has, and the user ids.  A message is a snapshot and the client hands    *)
(* messages to the handler one after the other, so an operation and the    *)
(* handling of its messages are one step here; the channel to the writer   *)
(* is LivePipeline's.  The path mutes take away messages by path alone:    *)
(* what happens here happens under no muted prefix.                        *)
(***************************************************************************)
EXTENDS Integers, Subscription, Normalise

CONSTANTS
    Pid, User, Name,   \* pids, users, names of files
    Home,              \* the directory the files are in
    MaxOps             \* bound: operations

ASSUME MachineAssumption ==
    /\ Pid # {} /\ User # {}
    /\ MaxOps \in Nat

VARIABLES
    procs,    \* the processes that live: pid |-> process
    files,    \* the files that exist: path |-> inode
    ops,      \* history: the messages the operations stand for
    events    \* the events sent to the writer

machineVars == <<procs, files, ops, events>>
vars == <<setupVars, machineVars>>

TokenType == [pid : Pid, version : Nat, uid : User]
ProcessType == [token : TokenType, image : Nat]

Path(name) == Append(Home, name)
FileType == [path : {Path(name) : name \in Name}, stat : [inode : Nat, mode : {0}]]
NewPathType == [kind : {"new"}, directory : [path : {Home}], filename : Name, mode : {0}]

DestinationType == NewPathType \cup [kind : {"existing"}, file : FileType]

\* What a message carries that the library can decode is not its None.
ASSUME NoneAssumption ==
    None \notin [target : ProcessType] \cup [target : ProcessType, args : Nat] \cup
                [stat : Nat] \cup [file : FileType] \cup
                [directory : [path : {Home}], filename : Name, mode : {0}] \cup
                DestinationType \cup [source : FileType, destination : DestinationType]

Now == Len(ops) + 1

Process(pid, version, uid, image) ==
    [token |-> [pid |-> pid, version |-> version, uid |-> uid], image |-> image]

Init ==
    /\ SetupInit
    /\ \E pid \in Pid, uid \in User : procs = [p \in {pid} |-> Process(pid, 0, uid, 0)]
    /\ files = << >>
    /\ ops = << >>
    /\ events = << >>

-----------------------------------------------------------------------------
(* From an operation to the writer. *)

Message(type, p, event) ==
    [type |-> type, time |-> Now, instigator |-> p, event |-> event]

\* handle_message: an AUTH message is answered ALLOW, so what it asks about
\* goes ahead; what the normaliser makes of a message is sent.
HandleMessage(sent, m) == sent \o NormaliseMessage(m)

\* The kernel delivers what the client is subscribed to ...
Deliver(sent, m) == IF m.type \in types THEN HandleMessage(sent, m) ELSE sent

\* ... and asks before an exec and an open, which its NOTIFY message follows.
Ask(sent, m) ==
    IF m.type = "NOTIFY_EXEC" THEN Deliver(sent, [m EXCEPT !.type = "AUTH_EXEC"])
    ELSE IF m.type = "NOTIFY_OPEN" THEN Deliver(sent, [m EXCEPT !.type = "AUTH_OPEN"])
    ELSE sent

Happens(m) ==
    /\ phase = "active"
    /\ Len(ops) < MaxOps
    /\ ops' = Append(ops, m)
    /\ events' = Deliver(Ask(events, m), m)
    /\ UNCHANGED setupVars

-----------------------------------------------------------------------------
(* Processes.  A version or an image is named by the time it came to be. *)

Put(f, x, y) == [z \in DOMAIN f \cup {x} |-> IF z = x THEN y ELSE f[z]]

Fork(p, pid) ==
    LET child == Process(pid, Now, p.token.uid, p.image)
    IN  /\ pid \notin DOMAIN procs
        /\ procs' = Put(procs, pid, child)
        /\ Happens(Message("NOTIFY_FORK", p, [target |-> child]))
        /\ UNCHANGED files

\* A new image in the same process, perhaps of another user (setuid bit).
Exec(p, uid) ==
    LET pid == p.token.pid
        target == Process(pid, Now, uid, Now)
    IN  /\ procs' = Put(procs, pid, target)
        /\ Happens(Message("NOTIFY_EXEC", p, [target |-> target, args |-> Now]))
        /\ UNCHANGED files

\* setuid(2) and its kin: no event of the registry tells of it.
SetUid(p, uid) ==
    /\ uid # p.token.uid
    /\ procs' = Put(procs, p.token.pid, [p EXCEPT !.token.uid = uid])
    /\ Happens(Message("SETUID", p, [uid |-> uid]))
    /\ UNCHANGED files

Exit(p) ==
    /\ procs' = [pid \in DOMAIN procs \ {p.token.pid} |-> procs[pid]]
    /\ Happens(Message("NOTIFY_EXIT", p, [stat |-> Now]))
    /\ UNCHANGED files

Touch(p, q) ==
    /\ \E type \in {"NOTIFY_GET_TASK", "NOTIFY_REMOTE_THREAD_CREATE"} :
           Happens(Message(type, p, [target |-> q]))
    /\ UNCHANGED <<procs, files>>

-----------------------------------------------------------------------------
(* Files and sockets.  An inode is named by the time it came to be. *)

Stat(inode) == [inode |-> inode, mode |-> 0]
File(path) == [path |-> path, stat |-> Stat(files[path])]
NewPath(name) ==
    [kind |-> "new", directory |-> [path |-> Home], filename |-> name, mode |-> 0]
Existing(path) == [kind |-> "existing", file |-> File(path)]

\* The event of a create is sent with the path or with the file it made; the
\* library may have no destination, or nothing, to show for it.
CreateFile(p, name) ==
    LET path == Path(name)
        made == [kind |-> "existing", file |-> [path |-> path, stat |-> Stat(Now)]]
    IN  /\ path \notin DOMAIN files
        /\ files' = Put(files, path, Now)
        /\ \E event \in {None} \cup {[destination |-> d] : d \in {None, NewPath(name), made}} :
               Happens(Message("NOTIFY_CREATE", p, event))
        /\ UNCHANGED procs

UseFile(p, path) ==
    /\ path \in DOMAIN files
    /\ \E type \in {"NOTIFY_WRITE", "NOTIFY_OPEN", "NOTIFY_CLOSE"} :
           Happens(Message(type, p, [file |-> File(path)]))
    /\ UNCHANGED <<procs, files>>

UnlinkFile(p, path) ==
    /\ path \in DOMAIN files
    /\ files' = [f \in DOMAIN files \ {path} |-> files[f]]
    /\ Happens(Message("NOTIFY_UNLINK", p, [file |-> File(path)]))
    /\ UNCHANGED procs

\* A rename replaces the file at its destination, if there is one.
RenameFile(p, path, name) ==
    LET dest == Path(name)
    IN  /\ path \in DOMAIN files
        /\ dest # path
        /\ files' = [f \in (DOMAIN files \ {path}) \cup {dest} |->
                        IF f = dest THEN files[path] ELSE files[f]]
        /\ Happens(Message("NOTIFY_RENAME", p,
               [source |-> File(path),
                destination |-> IF dest \in DOMAIN files THEN Existing(dest)
                                ELSE NewPath(name)]))
        /\ UNCHANGED procs

UseSocket(p, name) ==
    /\ \/ Happens(Message("NOTIFY_UIPC_BIND", p,
              [directory |-> [path |-> Home], filename |-> name, mode |-> 0]))
       \/ Happens(Message("NOTIFY_UIPC_CONNECT", p,
              [file |-> [path |-> Path(name), stat |-> Stat(0)]]))
    /\ UNCHANGED <<procs, files>>

Live == {procs[pid] : pid \in DOMAIN procs}

MachineNext ==
    \E p \in Live :
        \/ \E pid \in Pid : Fork(p, pid)
        \/ \E uid \in User : Exec(p, uid) \/ SetUid(p, uid)
        \/ Exit(p)
        \/ \E q \in Live : Touch(p, q)
        \/ \E name \in Name : CreateFile(p, name) \/ UseSocket(p, name)
        \/ \E path \in DOMAIN files : UseFile(p, path) \/ UnlinkFile(p, path)
        \/ \E path \in DOMAIN files, name \in Name : RenameFile(p, path, name)

Next ==
    \/ SetupNext /\ UNCHANGED machineVars
    \/ MachineNext

Spec == Init /\ [][Next]_vars

-----------------------------------------------------------------------------
(* What the graph will know. *)

EventNodes == UNION {ToSet(events[i].nodes) : i \in DOMAIN events}
EventEdges ==
    UNION {{[time |-> events[i].time, edge |-> edge] : edge \in ToSet(events[i].edges)} :
             i \in DOMAIN events}

Of(key) == {n \in EventNodes : n.key = key}
Reports(t) == t \in types /\ t \in DOMAIN EventNameOf

TypeOK ==
    /\ phase \in {"loading", "starting", "client", "muting", "active", "failed"}
    /\ ToSet(names) \subseteq DOMAIN EsType
    /\ types \subseteq DOMAIN EventNameOf
    /\ \A pid \in DOMAIN procs : procs[pid].token.pid = pid
    /\ \A i \in DOMAIN events : events[i].name \in AllNames

\* The code passes over a create without a destination.
Shown(m) == m.type # "NOTIFY_CREATE" \/ m.event \notin {None, [destination |-> None]}

\* The client is asked before this operation.
Asked(m) ==
    \/ m.type = "NOTIFY_EXEC" /\ "AUTH_EXEC" \in types
    \/ m.type = "NOTIFY_OPEN" /\ "AUTH_OPEN" \in types

\* An operation whose NOTIFY the configuration names gives one event, under
\* that name and with the time of the message, also when its AUTH is named
\* too; one that it names in neither form gives none.  What it gives when only
\* its AUTH is named see AuthGivesEdge.
OneEventPerOperation ==
    \A t \in DOMAIN ops :
        LET of == {i \in DOMAIN events : events[i].time = t}
        IN  IF Reports(ops[t].type) /\ Shown(ops[t])
            THEN \E i \in of : of = {i} /\ EventNameOf[ops[t].type] = events[i].name
            ELSE Asked(ops[t]) \/ of = {}

SelfContained(e) ==
    LET keys == {n.key : n \in ToSet(e.nodes)}
        has(field) == {n[field] : n \in ToSet(e.nodes)} \ {None}
    IN  /\ \A j \in DOMAIN e.edges :
               /\ {e.edges[j].src, e.edges[j].dst} \subseteq keys
               /\ e.edges[j].src = <<"process", e.details.instigator>>
               /\ e.details.target # None =>
                      e.edges[j].dst = <<"process", e.details.target>>
        /\ has("args") = {e.details.args} \ {None}
        /\ has("exit") = {e.details.exit} \ {None}
        /\ has("stat") \subseteq {e.details.stat}

\* An edge joins two nodes of its own event (no stub without a path is left in
\* the graph), and the details, which end up as context_json, name the process
\* the edge starts from and repeat what its nodes carry.
EventsAreSelfContained == \A i \in DOMAIN events : SelfContained(events[i])

\* A key stands for one image of one process, whatever pids are used again.
KeyNamesOneImage ==
    \A m, n \in EventNodes :
        m.key = n.key /\ m.key[1] = "process" => m.image = n.image /\ m.uid = n.uid

\* What the graph says of a process that lives is true of it: it has not
\* exited, and its command line is the one of the exec that made it.
LiveProcessesAsTheyAre ==
    \A p \in Live : \A n \in Of(ProcessKey(p)) :
        /\ n.exit = None
        /\ n.args # None => n.args = p.image

\* The edges by which a process came to be, and the processes that the graph
\* knows before time t: the first one, those that changed their user, and those
\* an edge leads to.
Births == {x \in EventEdges : x.edge.kind \in {"FORKED", "EXECUTED"}}

NewUser(m) ==
    <<"process", <<m.instigator.token.pid, m.instigator.token.version, m.event.uid>>>>

Known(t) ==
    {ProcessKey(ops[1].instigator)} \cup
    {NewUser(ops[u]) : u \in {v \in DOMAIN ops : v < t /\ ops[v].type = "SETUID"}} \cup
    {x.edge.dst : x \in {y \in Births : y.time < t}}

\* With fork and exec subscribed to, every process that lives descends, in the
\* order of time, from the first one or from one that changed its user: it is
\* known, and an edge starts from a process known before it.
LineageIsConnected ==
    {"NOTIFY_FORK", "NOTIFY_EXEC"} \subseteq types /\ ops # << >> =>
        /\ \A x \in Births : x.edge.src \in Known(x.time)
        /\ \A p \in Live : ProcessKey(p) \in Known(Now)

Moves(t, path) ==
    {x \in EventEdges :
        x.time = t /\ x.edge.kind = "RENAMED" /\ x.edge.dst = <<"file", path>>}

\* at says where a file is from time t on, if the renames in the graph are
\* followed from path: to the destination of one that starts where it is.
FollowsMoves(at, t, path) ==
    /\ at[t] = path
    /\ \A u \in t + 1 .. Len(ops) :
           IF Moves(u, at[u - 1]) = {} THEN at[u] = at[u - 1]
           ELSE \A x \in Moves(u, at[u - 1]) : at[u] = x.edge.metadata

\* With create and rename subscribed to, a file whose creation is in the graph
\* is found where it is now by following its renames.
FilesCanBeFollowed ==
    {"NOTIFY_CREATE", "NOTIFY_RENAME"} \subseteq types =>
        \A path \in DOMAIN files : \A x \in EventEdges :
            x.time = files[path] /\ x.edge.kind = "CREATED" =>
                \E at \in [x.time .. Len(ops) -> {Path(name) : name \in Name}] :
                    FollowsMoves(at, x.time, x.edge.dst[2]) /\ at[Len(ops)] = path

-----------------------------------------------------------------------------
(* Claims of the repository's documents that the code does not keep. *)

\* "`notify_exec` / `auth_exec` | parent + child process | `EXECUTED`", and the
\* same of `auth_open` and `OPENED`: with the AUTH form in the configuration the
\* operation has its edge.
AuthGivesEdge ==
    \A t \in DOMAIN ops :
        Asked(ops[t]) =>
            \E i \in DOMAIN events :
                /\ events[i].time = t
                /\ \E edge \in ToSet(events[i].edges) :
                       edge.kind = IF ops[t].type = "NOTIFY_EXEC" THEN "EXECUTED" ELSE "OPENED"

\* ProcessIdentity: "Stable key for a process node in the graph. ...
\* `audit_token_t` is unique per process instance."
KeyIsStable ==
    \A s, t \in {u \in DOMAIN ops : Reports(ops[u].type)} :
        LET p == ops[s].instigator
            q == ops[t].instigator
        IN  p.token.pid = q.token.pid /\ p.token.version = q.token.version
                => ProcessKey(p) = ProcessKey(q)
=============================================================================
