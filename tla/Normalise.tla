----------------------------- MODULE Normalise ------------------------------
(***************************************************************************)
(* normalise_message: what one Endpoint Security message becomes.          *)
(*                                                                         *)
(* A message m is a snapshot taken by the kernel: m.type, m.time, the      *)
(* process m.instigator that acted, and m.event, None when the library     *)
(* cannot decode it.  A process has an audit token [pid, version, uid] and *)
(* an image (path and signing identity, which are copied as they are).  A  *)
(* file has a path and what stat said of it.  Paths are sequences of       *)
(* names.  An Option is None or the value; the result is << >> or          *)
(* <<event>>, an event of the shape that GraphStore ingests.               *)
(***************************************************************************)
EXTENDS Events, Sequences

CONSTANT None

\* Slips: the key is the pid alone; or the pid and the user.
PidOnly(token) == <<token.pid>>
HexWithoutVersion(token) == <<token.pid, token.uid>>

\* audit_token_hex: every part of the token is in the string.
Hex(token) == <<token.pid, token.version, token.uid>>

ProcessKey(p) == <<"process", Hex(p.token)>>

\* process_node; the user ids are read out of the token that makes the key.
ProcessNode(p, args, exit) ==
    [key |-> ProcessKey(p), image |-> p.image, uid |-> p.token.uid,
     stat |-> None, args |-> args, exit |-> exit]

\* FileNode and SocketNode.
PathNode(label, path, stat) ==
    [key |-> <<label, path>>, image |-> None, uid |-> None,
     stat |-> stat, args |-> None, exit |-> None]

\* file_from_esf.
FileFromEsf(f) == PathNode("file", f.path, f.stat)

\* What stat says, when only the mode is known.
ModeOnly(mode) == [inode |-> None, mode |-> mode]

\* instigator_details.
InstigatorDetails(p) ==
    [instigator |-> Hex(p.token), instigatorImage |-> p.image, target |-> None,
     targetImage |-> None, args |-> None, exit |-> None, stat |-> None]

Edge(kind, src, dst, metadata) ==
    [kind |-> kind, src |-> src, dst |-> dst, metadata |-> metadata]

JoinDirFilename(directory, filename) == Append(directory.path, filename)

-----------------------------------------------------------------------------
(* The arms of the match: nodes, edges and details. *)

Parts(nodes, edges, details) ==
    <<[nodes |-> nodes, edges |-> edges, details |-> details]>>

ExecEvent(p, ev) ==
    Parts(<<ProcessNode(p, None, None), ProcessNode(ev.target, ev.args, None)>>,
          <<Edge("EXECUTED", ProcessKey(p), ProcessKey(ev.target), None)>>,
          [InstigatorDetails(p) EXCEPT !.target = Hex(ev.target.token),
                                       !.targetImage = ev.target.image,
                                       !.args = ev.args])

\* Slips: an edge with only one of its ends among the nodes; an edge turned
\* round.
OneEnd(p, q, kind) ==
    Parts(<<ProcessNode(p, None, None)>>,
          <<Edge(kind, ProcessKey(p), ProcessKey(q), None)>>,
          InstigatorDetails(p))
TurnedRound(p, q, kind) ==
    Parts(<<ProcessNode(p, None, None), ProcessNode(q, None, None)>>,
          <<Edge(kind, ProcessKey(q), ProcessKey(p), None)>>,
          InstigatorDetails(p))

\* NotifyFork, NotifyRemoteThreadCreate and NotifyGetTask.
ProcessEvent(p, q, kind) ==
    Parts(<<ProcessNode(p, None, None), ProcessNode(q, None, None)>>,
          <<Edge(kind, ProcessKey(p), ProcessKey(q), None)>>,
          InstigatorDetails(p))

ExitEvent(p, status) ==
    Parts(<<ProcessNode(p, None, status)>>,
          <<Edge("EXITED", ProcessKey(p), ProcessKey(p), status)>>,
          [InstigatorDetails(p) EXCEPT !.exit = status])

\* file_event and path_file_event: the details repeat what stat said.
FileEvent(p, f, kind) ==
    Parts(<<ProcessNode(p, None, None), FileFromEsf(f)>>,
          <<Edge(kind, ProcessKey(p), <<"file", f.path>>, None)>>,
          [InstigatorDetails(p) EXCEPT !.stat = f.stat])

\* A path that does not exist yet is a file of which the mode is known.
PathFileEvent(p, path, mode, kind) ==
    FileEvent(p, [path |-> path, stat |-> ModeOnly(mode)], kind)

\* destination() of a create or a rename.
DestinationPath(d) ==
    IF d.kind = "existing" THEN d.file.path
    ELSE JoinDirFilename(d.directory, d.filename)

CreateEvent(p, d) ==
    IF d = None THEN << >>
    ELSE IF d.kind = "existing" THEN FileEvent(p, d.file, "CREATED")
    ELSE PathFileEvent(p, DestinationPath(d), d.mode, "CREATED")

\* rename_dest_path: without a destination the metadata names the empty path.
RenameDestPath(d) == IF d = None THEN << >> ELSE DestinationPath(d)

\* Slip: the edge leads to the new name.
RenameToDestination(p, ev) ==
    Parts(<<ProcessNode(p, None, None), FileFromEsf(ev.source)>>,
          <<Edge("RENAMED", ProcessKey(p), <<"file", RenameDestPath(ev.destination)>>,
                 RenameDestPath(ev.destination))>>,
          [InstigatorDetails(p) EXCEPT !.stat = ev.source.stat])

RenameEvent(p, ev) ==
    Parts(<<ProcessNode(p, None, None), FileFromEsf(ev.source)>>,
          <<Edge("RENAMED", ProcessKey(p), <<"file", ev.source.path>>,
                 RenameDestPath(ev.destination))>>,
          [InstigatorDetails(p) EXCEPT !.stat = ev.source.stat])

\* socket_path_event and socket_event: only a bind tells the mode.
SocketEvent(p, path, stat, kind) ==
    Parts(<<ProcessNode(p, None, None), PathNode("socket", path, None)>>,
          <<Edge(kind, ProcessKey(p), <<"socket", path>>, None)>>,
          [InstigatorDetails(p) EXCEPT !.stat = stat])

\* The match.  The events without an arm, the AUTH ones among them, are None.
Match(m) ==
    LET p == m.instigator
        ev == m.event
    IN  CASE m.type = "NOTIFY_EXEC"   -> ExecEvent(p, ev)
          [] m.type = "NOTIFY_FORK"   -> ProcessEvent(p, ev.target, "FORKED")
          [] m.type = "NOTIFY_EXIT"   -> ExitEvent(p, ev.stat)
          [] m.type = "NOTIFY_REMOTE_THREAD_CREATE" ->
                 ProcessEvent(p, ev.target, "REMOTE_THREAD_CREATED")
          [] m.type = "NOTIFY_GET_TASK" -> ProcessEvent(p, ev.target, "GOT_TASK")
          [] m.type = "NOTIFY_CREATE" -> CreateEvent(p, ev.destination)
          [] m.type = "NOTIFY_WRITE"  -> FileEvent(p, ev.file, "WROTE")
          [] m.type = "NOTIFY_UNLINK" -> FileEvent(p, ev.file, "UNLINKED")
          [] m.type = "NOTIFY_RENAME" -> RenameEvent(p, ev)
          [] m.type = "NOTIFY_OPEN"   -> FileEvent(p, ev.file, "OPENED")
          [] m.type = "NOTIFY_CLOSE"  -> FileEvent(p, ev.file, "CLOSED")
          [] m.type = "NOTIFY_UIPC_BIND" ->
                 SocketEvent(p, JoinDirFilename(ev.directory, ev.filename),
                             ModeOnly(ev.mode), "UIPC_BOUND")
          [] m.type = "NOTIFY_UIPC_CONNECT" ->
                 SocketEvent(p, ev.file.path, None, "UIPC_CONNECTED")
          [] OTHER -> << >>

\* Slip: an AUTH message is normalised as the NOTIFY message is.
NormaliseAuthToo(m) ==
    IF m.event = None \/ m.type \notin DOMAIN EventNameOf THEN << >>
    ELSE LET type == IF m.type = "AUTH_EXEC" THEN "NOTIFY_EXEC" ELSE m.type
             parts == Match([m EXCEPT !.type = type])
         IN  [i \in DOMAIN parts |->
                [name |-> EventNameOf[m.type], time |-> m.time,
                 nodes |-> parts[i].nodes, edges |-> parts[i].edges,
                 details |-> parts[i].details]]

NormaliseMessage(m) ==
    IF m.event = None \/ m.type \notin DOMAIN EventNameOf THEN << >>
    ELSE LET parts == Match(m)
         IN  [i \in DOMAIN parts |->
                [name |-> EventNameOf[m.type], time |-> m.time,
                 nodes |-> parts[i].nodes, edges |-> parts[i].edges,
                 details |-> parts[i].details]]
=============================================================================
