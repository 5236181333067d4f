--------------------------- MODULE CollectorProofs ----------------------------
(***************************************************************************)
(* What the collector sends, for every message, every configuration and    *)
(* any number of processes, users, files and operations.                   *)
(***************************************************************************)
EXTENDS Collector, SubscriptionProofs

-----------------------------------------------------------------------------
(* Sequences, by their elements. *)

IsSequence(s) == s \in Seq(ToSet(s))

LEMMA OneElement ==
    ASSUME NEW a
    PROVE  /\ <<a>> \in Seq({a}) /\ Len(<<a>>) = 1 /\ DOMAIN <<a>> = {1}
           /\ <<a>>[1] = a /\ <<a>> # << >>
           /\ ToSet(<<a>>) = {a}
BY DEF ToSet

LEMMA TwoElements ==
    ASSUME NEW a, NEW b
    PROVE  ToSet(<<a, b>>) = {a, b}
<1>1. DOMAIN <<a, b>> = {1, 2} /\ <<a, b>>[1] = a /\ <<a, b>>[2] = b
  OBVIOUS
<1> HIDE DEF ToSet
<1> QED
  BY <1>1 DEF ToSet

LEMMA NoElements ==
    /\ ToSet(<< >>) = {} /\ DOMAIN << >> = {} /\ IsSequence(<< >>)
BY DEF ToSet, IsSequence

LEMMA AddedLast ==
    ASSUME NEW s, IsSequence(s), NEW e
    PROVE  LET t == Append(s, e)
           IN  /\ IsSequence(t) /\ s \o <<e>> = t
               /\ Len(s) \in Nat /\ DOMAIN s = 1 .. Len(s)
               /\ DOMAIN t = DOMAIN s \cup {Len(s) + 1} /\ Len(s) + 1 \notin DOMAIN s
               /\ Len(t) = Len(s) + 1
               /\ \A i \in DOMAIN s : t[i] = s[i]
               /\ t[Len(s) + 1] = e
               /\ ToSet(t) = ToSet(s) \cup {e}
<1> DEFINE S == ToSet(s) \cup {e}
           t == Append(s, e)
<1>1. s \in Seq(S) /\ e \in S
  BY SeqMonotonic DEF IsSequence
<1>2. Len(s) \in Nat /\ DOMAIN s = 1 .. Len(s)
  BY <1>1, LenProperties
<1>3. /\ t \in Seq(S) /\ Len(t) = Len(s) + 1
      /\ \A i \in 1 .. Len(s) : t[i] = s[i]
      /\ t[Len(s) + 1] = e
  BY <1>1, AppendProperties
<1>4. s \o <<e>> = t
  BY <1>1, AppendIsConcat
<1>5. DOMAIN t = 1 .. Len(s) + 1
  BY <1>3, LenProperties
<1> HIDE DEF t, S
<1>6. DOMAIN t = DOMAIN s \cup {Len(s) + 1} /\ Len(s) + 1 \notin DOMAIN s
  BY <1>2, <1>5
<1>7. ToSet(t) = ToSet(s) \cup {e}
  BY <1>2, <1>3, <1>6 DEF ToSet
<1>8. IsSequence(t)
  BY <1>3, <1>7 DEF IsSequence, S
<1> QED
  BY <1>2, <1>3, <1>4, <1>6, <1>7, <1>8 DEF t

-----------------------------------------------------------------------------
(* What one message becomes. *)

About(n, q) == n.key = ProcessKey(q) /\ n.image = q.image /\ n.uid = q.token.uid

ByName == {"NOTIFY_FORK", "NOTIFY_REMOTE_THREAD_CREATE", "NOTIFY_GET_TASK"}

\* The process nodes of what m becomes are about its instigator and its target;
\* only an exit says that one exited, only an exec what it was called with.
NodesAbout(e, m) ==
    \A n \in ToSet(e.nodes) : n.key[1] = "process" =>
        \/ /\ About(n, m.instigator)
           /\ n.args = None
           /\ n.exit # None => m.type = "NOTIFY_EXIT"
        \/ /\ m.type \in ByName \cup {"NOTIFY_EXEC"}
           /\ About(n, m.event.target)
           /\ n.args # None => m.type = "NOTIFY_EXEC" /\ n.args = m.event.args
           /\ n.exit = None

\* SelfContained asks for these fields, and they are all that an arm gives.
Good(part, m) == SelfContained(part) /\ NodesAbout(part, m)

LEMMA ExecGood ==
    ASSUME NEW m, m.type = "NOTIFY_EXEC"
    PROVE  \E part : ExecEvent(m.instigator, m.event) = <<part>> /\ Good(part, m)
<1> DEFINE p == m.instigator
           q == m.event.target
           a == ProcessNode(p, None, None)
           b == ProcessNode(q, m.event.args, None)
           edge == Edge("EXECUTED", ProcessKey(p), ProcessKey(q), None)
           d == [InstigatorDetails(p) EXCEPT !.target = Hex(q.token),
                                             !.targetImage = q.image,
                                             !.args = m.event.args]
           part == [nodes |-> <<a, b>>, edges |-> <<edge>>, details |-> d]
<1>1. ExecEvent(m.instigator, m.event) = <<part>>
  BY DEF ExecEvent, Parts
<1>2. /\ d.instigator = Hex(p.token) /\ d.target = Hex(q.token) /\ d.args = m.event.args
      /\ d.exit = None /\ d.stat = None
  BY DEF InstigatorDetails
<1>3. /\ a.key = ProcessKey(p) /\ a.args = None /\ a.exit = None /\ a.stat = None
      /\ a.image = p.image /\ a.uid = p.token.uid
      /\ b.key = ProcessKey(q) /\ b.args = m.event.args /\ b.exit = None /\ b.stat = None
      /\ b.image = q.image /\ b.uid = q.token.uid
  BY DEF ProcessNode
<1>4. edge.src = ProcessKey(p) /\ edge.dst = ProcessKey(q)
  BY DEF Edge
<1> HIDE DEF a, b, d, edge, p, q
<1>5. /\ ToSet(part.nodes) = {a, b}
      /\ DOMAIN part.edges = {1} /\ part.edges[1] = edge /\ part.details = d
  BY TwoElements, OneElement
<1> HIDE DEF part
<1>6. SelfContained(part)
  BY <1>2, <1>3, <1>4, <1>5 DEF SelfContained, ProcessKey
<1>7. NodesAbout(part, m)
  BY <1>3, <1>5 DEF NodesAbout, About, p, q
<1> QED
  BY <1>1, <1>6, <1>7 DEF Good

LEMMA ProcessGood ==
    ASSUME NEW m, m.type \in ByName, NEW kind
    PROVE  \E part : ProcessEvent(m.instigator, m.event.target, kind) = <<part>> /\ Good(part, m)
<1> DEFINE p == m.instigator
           q == m.event.target
           a == ProcessNode(p, None, None)
           b == ProcessNode(q, None, None)
           edge == Edge(kind, ProcessKey(p), ProcessKey(q), None)
           d == InstigatorDetails(p)
           part == [nodes |-> <<a, b>>, edges |-> <<edge>>, details |-> d]
<1>1. ProcessEvent(m.instigator, m.event.target, kind) = <<part>>
  BY DEF ProcessEvent, Parts
<1>2. /\ d.instigator = Hex(p.token) /\ d.target = None /\ d.args = None
      /\ d.exit = None /\ d.stat = None
  BY DEF InstigatorDetails
<1>3. /\ a.key = ProcessKey(p) /\ a.args = None /\ a.exit = None /\ a.stat = None
      /\ a.image = p.image /\ a.uid = p.token.uid
      /\ b.key = ProcessKey(q) /\ b.args = None /\ b.exit = None /\ b.stat = None
      /\ b.image = q.image /\ b.uid = q.token.uid
  BY DEF ProcessNode
<1>4. edge.src = ProcessKey(p) /\ edge.dst = ProcessKey(q)
  BY DEF Edge
<1> HIDE DEF a, b, d, edge, p, q
<1>5. /\ ToSet(part.nodes) = {a, b}
      /\ DOMAIN part.edges = {1} /\ part.edges[1] = edge /\ part.details = d
  BY TwoElements, OneElement
<1> HIDE DEF part
<1>6. SelfContained(part)
  BY <1>2, <1>3, <1>4, <1>5 DEF SelfContained, ProcessKey
<1>7. NodesAbout(part, m)
  BY <1>3, <1>5 DEF NodesAbout, About, p, q
<1> QED
  BY <1>1, <1>6, <1>7 DEF Good

LEMMA ExitGood ==
    ASSUME NEW m, m.type = "NOTIFY_EXIT"
    PROVE  \E part : ExitEvent(m.instigator, m.event.stat) = <<part>> /\ Good(part, m)
<1> DEFINE p == m.instigator
           a == ProcessNode(p, None, m.event.stat)
           edge == Edge("EXITED", ProcessKey(p), ProcessKey(p), m.event.stat)
           d == [InstigatorDetails(p) EXCEPT !.exit = m.event.stat]
           part == [nodes |-> <<a>>, edges |-> <<edge>>, details |-> d]
<1>1. ExitEvent(m.instigator, m.event.stat) = <<part>>
  BY DEF ExitEvent, Parts
<1>2. /\ d.instigator = Hex(p.token) /\ d.target = None /\ d.args = None
      /\ d.exit = m.event.stat /\ d.stat = None
  BY DEF InstigatorDetails
<1>3. /\ a.key = ProcessKey(p) /\ a.args = None /\ a.exit = m.event.stat /\ a.stat = None
      /\ a.image = p.image /\ a.uid = p.token.uid
  BY DEF ProcessNode
<1>4. edge.src = ProcessKey(p) /\ edge.dst = ProcessKey(p)
  BY DEF Edge
<1> HIDE DEF a, d, edge, p
<1>5. /\ ToSet(part.nodes) = {a}
      /\ DOMAIN part.edges = {1} /\ part.edges[1] = edge /\ part.details = d
  BY OneElement
<1> HIDE DEF part
<1>6. SelfContained(part)
  BY <1>2, <1>3, <1>4, <1>5 DEF SelfContained, ProcessKey
<1>7. NodesAbout(part, m)
  BY <1>3, <1>5 DEF NodesAbout, About, p
<1> QED
  BY <1>1, <1>6, <1>7 DEF Good

\* A process and the path it worked on: the arms of files and sockets.
LEMMA PathGood ==
    ASSUME NEW m, NEW label \in {"file", "socket"}, NEW path, NEW stat, NEW known,
           NEW kind, NEW metadata, stat \in {None, known}
    PROVE  LET p == m.instigator
           IN  \E part :
                 /\ Parts(<<ProcessNode(p, None, None), PathNode(label, path, stat)>>,
                          <<Edge(kind, ProcessKey(p), <<label, path>>, metadata)>>,
                          [InstigatorDetails(p) EXCEPT !.stat = known]) = <<part>>
                 /\ Good(part, m)
<1> DEFINE p == m.instigator
           a == ProcessNode(p, None, None)
           b == PathNode(label, path, stat)
           edge == Edge(kind, ProcessKey(p), <<label, path>>, metadata)
           d == [InstigatorDetails(p) EXCEPT !.stat = known]
           part == [nodes |-> <<a, b>>, edges |-> <<edge>>, details |-> d]
<1>1. Parts(<<a, b>>, <<edge>>, d) = <<part>>
  BY DEF Parts
<1>2. /\ d.instigator = Hex(p.token) /\ d.target = None /\ d.args = None
      /\ d.exit = None /\ d.stat = known
  BY DEF InstigatorDetails
<1>3. /\ a.key = ProcessKey(p) /\ a.args = None /\ a.exit = None /\ a.stat = None
      /\ a.image = p.image /\ a.uid = p.token.uid
      /\ b.key = <<label, path>> /\ b.args = None /\ b.exit = None /\ b.stat = stat
  BY DEF ProcessNode, PathNode
<1>4. edge.src = ProcessKey(p) /\ edge.dst = <<label, path>>
  BY DEF Edge
<1>5. b.key[1] # "process"
  BY <1>3
<1> HIDE DEF a, b, d, edge, p
<1>6. /\ ToSet(part.nodes) = {a, b}
      /\ DOMAIN part.edges = {1} /\ part.edges[1] = edge /\ part.details = d
  BY TwoElements, OneElement
<1> HIDE DEF part
<1>7. SelfContained(part)
  BY <1>2, <1>3, <1>4, <1>6 DEF SelfContained, ProcessKey
<1>8. NodesAbout(part, m)
  BY <1>3, <1>5, <1>6 DEF NodesAbout, About, p
<1> QED
  BY <1>1, <1>7, <1>8 DEF Good, a, b, d, edge, p

LEMMA FileGood ==
    ASSUME NEW m, NEW f, NEW kind
    PROVE  \E part : FileEvent(m.instigator, f, kind) = <<part>> /\ Good(part, m)
BY PathGood DEF FileEvent, FileFromEsf

LEMMA RenameGood ==
    ASSUME NEW m
    PROVE  \E part : RenameEvent(m.instigator, m.event) = <<part>> /\ Good(part, m)
<1> DEFINE path == m.event.source.path
           stat == m.event.source.stat
           dest == RenameDestPath(m.event.destination)
<1>1. \E part :
        /\ Parts(<<ProcessNode(m.instigator, None, None), PathNode("file", path, stat)>>,
                 <<Edge("RENAMED", ProcessKey(m.instigator), <<"file", path>>, dest)>>,
                 [InstigatorDetails(m.instigator) EXCEPT !.stat = stat]) = <<part>>
        /\ Good(part, m)
  <2>1. "file" \in {"file", "socket"} /\ stat \in {None, stat}
    OBVIOUS
  <2> HIDE DEF path, stat, dest
  <2> QED
    BY <2>1, PathGood
<1> QED
  BY <1>1 DEF RenameEvent, FileFromEsf

LEMMA SocketGood ==
    ASSUME NEW m, NEW path, NEW stat, NEW kind
    PROVE  \E part : SocketEvent(m.instigator, path, stat, kind) = <<part>> /\ Good(part, m)
BY PathGood DEF SocketEvent

LEMMA CreateGood ==
    ASSUME NEW m, m.event.destination # None
    PROVE  \E part : /\ CreateEvent(m.instigator, m.event.destination) = <<part>>
                     /\ Good(part, m)
<1> DEFINE p == m.instigator
           d == m.event.destination
<1>1. \A f : \E part : FileEvent(p, f, "CREATED") = <<part>> /\ Good(part, m)
  BY FileGood
<1>2. \E f : CreateEvent(p, d) = FileEvent(p, f, "CREATED")
  BY DEF CreateEvent, PathFileEvent
<1> QED
  BY <1>1, <1>2

Decodes(m) ==
    /\ m.event # None
    /\ m.type \in DOMAIN EventNameOf \ {"AUTH_EXEC", "AUTH_OPEN"}
    /\ m.type = "NOTIFY_CREATE" => m.event.destination # None

LEMMA MatchGood ==
    ASSUME NEW m, Decodes(m)
    PROVE  \E part : Match(m) = <<part>> /\ Good(part, m)
<1> DEFINE p == m.instigator
           ev == m.event
<1>1. CASE m.type = "NOTIFY_EXEC"
  <2>1. Match(m) = ExecEvent(p, ev)
    BY <1>1 DEF Match
  <2> QED
    BY <1>1, <2>1, ExecGood
<1>2. CASE m.type = "NOTIFY_FORK"
  <2>1. Match(m) = ProcessEvent(p, ev.target, "FORKED")
    BY <1>2 DEF Match
  <2> QED
    BY <1>2, <2>1, ProcessGood DEF ByName
<1>3. CASE m.type = "NOTIFY_EXIT"
  <2>1. Match(m) = ExitEvent(p, ev.stat)
    BY <1>3 DEF Match
  <2> QED
    BY <1>3, <2>1, ExitGood
<1>4. CASE m.type = "NOTIFY_REMOTE_THREAD_CREATE"
  <2>1. Match(m) = ProcessEvent(p, ev.target, "REMOTE_THREAD_CREATED")
    BY <1>4 DEF Match
  <2> QED
    BY <1>4, <2>1, ProcessGood DEF ByName
<1>5. CASE m.type = "NOTIFY_GET_TASK"
  <2>1. Match(m) = ProcessEvent(p, ev.target, "GOT_TASK")
    BY <1>5 DEF Match
  <2> QED
    BY <1>5, <2>1, ProcessGood DEF ByName
<1>6. CASE m.type = "NOTIFY_CREATE"
  <2>1. Match(m) = CreateEvent(p, ev.destination)
    BY <1>6 DEF Match
  <2> QED
    BY <1>6, <2>1, CreateGood DEF Decodes
<1>7. CASE m.type \in {"NOTIFY_WRITE", "NOTIFY_UNLINK", "NOTIFY_OPEN", "NOTIFY_CLOSE"}
  <2>1. \E kind : Match(m) = FileEvent(p, ev.file, kind)
    BY <1>7 DEF Match
  <2> QED
    BY <2>1, FileGood
<1>8. CASE m.type = "NOTIFY_RENAME"
  <2>1. Match(m) = RenameEvent(p, ev)
    BY <1>8 DEF Match
  <2> QED
    BY <2>1, RenameGood
<1>9. CASE m.type \in {"NOTIFY_UIPC_BIND", "NOTIFY_UIPC_CONNECT"}
  <2>1. \E path, stat, kind : Match(m) = SocketEvent(p, path, stat, kind)
    BY <1>9 DEF Match
  <2> QED
    BY <2>1, SocketGood
<1>10. m.type \in {"NOTIFY_EXEC", "NOTIFY_FORK", "NOTIFY_EXIT", "NOTIFY_REMOTE_THREAD_CREATE",
                   "NOTIFY_GET_TASK", "NOTIFY_CREATE", "NOTIFY_WRITE", "NOTIFY_UNLINK",
                   "NOTIFY_OPEN", "NOTIFY_CLOSE", "NOTIFY_RENAME", "NOTIFY_UIPC_BIND",
                   "NOTIFY_UIPC_CONNECT"}
  BY DEF Decodes, EventNameOf
<1> QED
  BY <1>1, <1>2, <1>3, <1>4, <1>5, <1>6, <1>7, <1>8, <1>9, <1>10

\* The edge of what m becomes, for the three kinds that the graph is followed by.
EdgeAbout(edge, m) ==
    /\ edge.kind \in {"FORKED", "EXECUTED"} <=> m.type \in {"NOTIFY_FORK", "NOTIFY_EXEC"}
    /\ edge.kind = "RENAMED" <=> m.type = "NOTIFY_RENAME"
    /\ edge.kind = "CREATED" <=> m.type = "NOTIFY_CREATE"
    /\ m.type \in {"NOTIFY_FORK", "NOTIFY_EXEC"} =>
           edge.src = ProcessKey(m.instigator) /\ edge.dst = ProcessKey(m.event.target)
    /\ m.type = "NOTIFY_RENAME" =>
           /\ edge.dst = <<"file", m.event.source.path>>
           /\ edge.metadata = RenameDestPath(m.event.destination)
    /\ m.type = "NOTIFY_CREATE" =>
           edge.dst = <<"file", DestinationPath(m.event.destination)>>

HasEdge(parts, m) == \E nodes, edge, d : parts = Parts(nodes, <<edge>>, d) /\ EdgeAbout(edge, m)

LEMMA EdgeIs ==
    ASSUME NEW kind, NEW src, NEW dst, NEW metadata
    PROVE  LET edge == Edge(kind, src, dst, metadata)
           IN  /\ edge.kind = kind /\ edge.src = src
               /\ edge.dst = dst /\ edge.metadata = metadata
BY DEF Edge

LEMMA FileHasEdge ==
    ASSUME NEW m, NEW f, NEW kind,
           EdgeAbout(Edge(kind, ProcessKey(m.instigator), <<"file", f.path>>, None), m)
    PROVE  HasEdge(FileEvent(m.instigator, f, kind), m)
BY DEF FileEvent, HasEdge

LEMMA MatchEdge ==
    ASSUME NEW m, Decodes(m)
    PROVE  HasEdge(Match(m), m)
<1> DEFINE p == m.instigator
           ev == m.event
           edge(kind, dst, metadata) == Edge(kind, ProcessKey(p), dst, metadata)
<1>0. \A kind, dst, metadata :
        /\ edge(kind, dst, metadata).kind = kind
        /\ edge(kind, dst, metadata).src = ProcessKey(p)
        /\ edge(kind, dst, metadata).dst = dst
        /\ edge(kind, dst, metadata).metadata = metadata
  BY EdgeIs
<1>1. CASE m.type = "NOTIFY_EXEC"
  <2>1. Match(m) = ExecEvent(p, ev)
    BY <1>1 DEF Match
  <2>2. EdgeAbout(edge("EXECUTED", ProcessKey(ev.target), None), m)
    BY <1>0, <1>1 DEF EdgeAbout
  <2> QED
    BY <2>1, <2>2 DEF ExecEvent, HasEdge
<1>2. ASSUME NEW kind, Match(m) = ProcessEvent(p, ev.target, kind),
             EdgeAbout(edge(kind, ProcessKey(ev.target), None), m)
      PROVE  HasEdge(Match(m), m)
  BY <1>2 DEF ProcessEvent, HasEdge
<1>3. CASE m.type = "NOTIFY_FORK"
  <2>1. Match(m) = ProcessEvent(p, ev.target, "FORKED")
    BY <1>3 DEF Match
  <2>2. EdgeAbout(edge("FORKED", ProcessKey(ev.target), None), m)
    BY <1>0, <1>3 DEF EdgeAbout
  <2> QED
    BY <1>2, <2>1, <2>2
<1>4. CASE m.type \in {"NOTIFY_REMOTE_THREAD_CREATE", "NOTIFY_GET_TASK"}
  <2>1. PICK kind \in {"REMOTE_THREAD_CREATED", "GOT_TASK"} :
            Match(m) = ProcessEvent(p, ev.target, kind)
    BY <1>4 DEF Match
  <2>2. EdgeAbout(edge(kind, ProcessKey(ev.target), None), m)
    BY <1>0, <1>4 DEF EdgeAbout
  <2> QED
    BY <1>2, <2>1, <2>2
<1>5. CASE m.type = "NOTIFY_EXIT"
  <2>1. Match(m) = ExitEvent(p, ev.stat)
    BY <1>5 DEF Match
  <2>2. EdgeAbout(edge("EXITED", ProcessKey(p), ev.stat), m)
    BY <1>0, <1>5 DEF EdgeAbout
  <2> QED
    BY <2>1, <2>2 DEF ExitEvent, HasEdge
<1>6. CASE m.type = "NOTIFY_CREATE"
  <2>1. Match(m) = CreateEvent(p, ev.destination)
    BY <1>6 DEF Match
  <2>2. PICK f : /\ CreateEvent(p, ev.destination) = FileEvent(p, f, "CREATED")
                 /\ f.path = DestinationPath(ev.destination)
    BY <1>6 DEF CreateEvent, PathFileEvent, DestinationPath, Decodes
  <2>3. EdgeAbout(edge("CREATED", <<"file", f.path>>, None), m)
    BY <1>0, <1>6, <2>2 DEF EdgeAbout
  <2> QED
    BY <2>1, <2>2, <2>3, FileHasEdge
<1>7. CASE m.type \in {"NOTIFY_WRITE", "NOTIFY_UNLINK", "NOTIFY_OPEN", "NOTIFY_CLOSE"}
  <2>1. PICK kind \in {"WROTE", "UNLINKED", "OPENED", "CLOSED"} :
            Match(m) = FileEvent(p, ev.file, kind)
    BY <1>7 DEF Match
  <2>2. EdgeAbout(edge(kind, <<"file", ev.file.path>>, None), m)
    BY <1>0, <1>7 DEF EdgeAbout
  <2> QED
    BY <2>1, <2>2, FileHasEdge
<1>8. CASE m.type = "NOTIFY_RENAME"
  <2>1. Match(m) = RenameEvent(p, ev)
    BY <1>8 DEF Match
  <2>2. EdgeAbout(edge("RENAMED", <<"file", ev.source.path>>,
                       RenameDestPath(ev.destination)), m)
    BY <1>0, <1>8 DEF EdgeAbout
  <2> QED
    BY <2>1, <2>2 DEF RenameEvent, HasEdge
<1>9. CASE m.type \in {"NOTIFY_UIPC_BIND", "NOTIFY_UIPC_CONNECT"}
  <2>1. PICK kind \in {"UIPC_BOUND", "UIPC_CONNECTED"} :
            \E path, stat : Match(m) = SocketEvent(p, path, stat, kind)
    BY <1>9 DEF Match
  <2>2. \A path : EdgeAbout(edge(kind, <<"socket", path>>, None), m)
    BY <1>0, <1>9 DEF EdgeAbout
  <2> QED
    BY <2>1, <2>2 DEF SocketEvent, HasEdge
<1>10. m.type \in {"NOTIFY_EXEC", "NOTIFY_FORK", "NOTIFY_EXIT", "NOTIFY_REMOTE_THREAD_CREATE",
                   "NOTIFY_GET_TASK", "NOTIFY_CREATE", "NOTIFY_WRITE", "NOTIFY_UNLINK",
                   "NOTIFY_OPEN", "NOTIFY_CLOSE", "NOTIFY_RENAME", "NOTIFY_UIPC_BIND",
                   "NOTIFY_UIPC_CONNECT"}
  BY DEF Decodes, EventNameOf
<1> QED
  BY <1>1, <1>3, <1>4, <1>5, <1>6, <1>7, <1>8, <1>9, <1>10

\* normalise_message on any message: one event about it, or none.
LEMMA Normalised ==
    ASSUME NEW m
    PROVE  IF Decodes(m)
           THEN \E e : /\ NormaliseMessage(m) = <<e>>
                       /\ e.name = EventNameOf[m.type] /\ e.time = m.time
                       /\ SelfContained(e) /\ NodesAbout(e, m)
                       /\ \E edge : e.edges = <<edge>> /\ EdgeAbout(edge, m)
           ELSE NormaliseMessage(m) = << >>
<1> DEFINE eventOf(part) == [name |-> EventNameOf[m.type], time |-> m.time,
                             nodes |-> part.nodes, edges |-> part.edges,
                             details |-> part.details]
<1>1. CASE Decodes(m)
  <2>1. PICK part : Match(m) = <<part>> /\ Good(part, m)
    BY <1>1, MatchGood
  <2>2. NormaliseMessage(m) = [i \in DOMAIN Match(m) |-> eventOf(Match(m)[i])]
    BY <1>1 DEF NormaliseMessage, Decodes
  <2>3. DOMAIN Match(m) = {1} /\ Match(m)[1] = part
    BY <2>1, OneElement
  <2> DEFINE e == eventOf(part)
  <2>4. SelfContained(e) /\ NodesAbout(e, m)
    BY <2>1 DEF Good, SelfContained, NodesAbout
  <2>8. \E edge : e.edges = <<edge>> /\ EdgeAbout(edge, m)
    <3>1. PICK nodes, edge, d : Match(m) = Parts(nodes, <<edge>>, d) /\ EdgeAbout(edge, m)
      BY <1>1, MatchEdge DEF HasEdge
    <3>2. Match(m)[1] = [nodes |-> nodes, edges |-> <<edge>>, details |-> d]
      BY <3>1, OneElement DEF Parts
    <3> QED
      BY <2>3, <3>1, <3>2
  <2>5. e.name = EventNameOf[m.type] /\ e.time = m.time
    OBVIOUS
  <2>6. NormaliseMessage(m) = [i \in {1} |-> e]
    BY <2>2, <2>3
  <2> HIDE DEF e, eventOf
  <2>7. [i \in {1} |-> e] = <<e>>
    BY OneElement
  <2> QED
    BY <1>1, <2>4, <2>5, <2>6, <2>7, <2>8
<1>2. CASE ~Decodes(m)
  <2>1. CASE m.event = None \/ m.type \notin DOMAIN EventNameOf
    BY <1>2, <2>1 DEF NormaliseMessage
  <2>2. CASE m.type \in {"AUTH_EXEC", "AUTH_OPEN"}
    <3>1. Match(m) = << >>
      BY <2>2 DEF Match
    <3> QED
      BY <1>2, <3>1 DEF NormaliseMessage
  <2>3. CASE m.type = "NOTIFY_CREATE" /\ m.event.destination = None
    <3>1. Match(m) = << >>
      BY <2>3 DEF Match, CreateEvent
    <3> QED
      BY <1>2, <3>1 DEF NormaliseMessage
  <2> QED
    BY <1>2, <2>1, <2>2, <2>3 DEF Decodes
<1> QED
  BY <1>1, <1>2

-----------------------------------------------------------------------------
(* The invariant. *)

ProcessNodes == {n \in EventNodes : n.key[1] = "process"}

MachineTypes ==
    /\ IsSequence(ops) /\ IsSequence(events)
    /\ DOMAIN procs \subseteq Pid
    /\ \A pid \in DOMAIN procs : procs[pid] \in ProcessType /\ procs[pid].token.pid = pid
    /\ DOMAIN files \subseteq {Path(name) : name \in Name}
    /\ \A path \in DOMAIN files : files[path] \in Nat

\* Nothing happens before the subscription, and an event is about an operation.
EventsOfOperations ==
    /\ phase # "active" => ops = << >> /\ events = << >>
    /\ \A i \in DOMAIN events : events[i].name \in AllNames /\ events[i].time \in DOMAIN ops

\* What was ever said of a pid and a version, and what is now.
Instances ==
    {<<n.key[2][1], n.key[2][2], n.image>> : n \in ProcessNodes} \cup
    {<<p.token.pid, p.token.version, p.image>> : p \in Live}

\* A pid and a version have one image for good, and no version is of the future.
OneImage ==
    /\ \A x \in Instances : x[2] \in 0 .. Len(ops)
    /\ \A x, y \in Instances : x[1] = y[1] /\ x[2] = y[2] => x[3] = y[3]

\* One event for an operation whose NOTIFY is subscribed to, and none for any
\* other: of an AUTH message nothing is made.
OneOfEach ==
    \A t \in DOMAIN ops :
        LET of == {i \in DOMAIN events : events[i].time = t}
        IN  IF Reports(ops[t].type) /\ Shown(ops[t])
            THEN \E i \in of : of = {i} /\ EventNameOf[ops[t].type] = events[i].name
            ELSE of = {}

\* What a process node says is true of the instance it names; one that exited
\* does not live.
NodesAreTrue ==
    \A n \in ProcessNodes :
        /\ n.uid = n.key[2][3]
        /\ n.args # None => n.args = n.image
        /\ n.exit # None =>
               \A p \in Live : ~(p.token.pid = n.key[2][1] /\ p.token.version = n.key[2][2])

IInv ==
    /\ MachineTypes
    /\ EventsOfOperations
    /\ OneImage
    /\ NodesAreTrue
    /\ OneOfEach
    /\ EventsAreSelfContained

-----------------------------------------------------------------------------
(* One operation. *)

\* What Happens says of the events, whatever is subscribed to.
Tells(m) ==
    IF m.type \in types /\ Decodes(m)
    THEN \E e : /\ events' = Append(events, e)
                /\ e.name = EventNameOf[m.type] /\ e.time = m.time
                /\ SelfContained(e) /\ NodesAbout(e, m)
                /\ \E edge : e.edges = <<edge>> /\ EdgeAbout(edge, m)
    ELSE events' = events

LEMMA HappensTells ==
    ASSUME IsSequence(events), NEW type, NEW p, NEW event,
           type \notin {"AUTH_EXEC", "AUTH_OPEN"}, Happens(Message(type, p, event))
    PROVE  Tells(Message(type, p, event))
<1> DEFINE m == Message(type, p, event)
<1>1. \A sent : sent = events => sent \o << >> = events
  BY ConcatEmptySeq DEF IsSequence
<1>2. \A x : [m EXCEPT !.type = x].type = x
  BY DEF Message
<1>3. m.type = type
  BY DEF Message
<1> HIDE DEF m
<1>4. ASSUME NEW x \in {"AUTH_EXEC", "AUTH_OPEN"}
      PROVE  Deliver(events, [m EXCEPT !.type = x]) = events
  <2>1. ~Decodes([m EXCEPT !.type = x])
    BY <1>2 DEF Decodes
  <2>2. NormaliseMessage([m EXCEPT !.type = x]) = << >>
    BY <2>1, Normalised
  <2> QED
    BY <1>1, <2>2 DEF Deliver, HandleMessage
<1>5. Ask(events, m) = events
  BY <1>4 DEF Ask
<1>6. events' = Deliver(events, m)
  BY <1>5 DEF Happens, m
<1>7. CASE m.type \in types /\ Decodes(m)
  <2>1. PICK e : /\ NormaliseMessage(m) = <<e>>
                 /\ e.name = EventNameOf[m.type] /\ e.time = m.time
                 /\ SelfContained(e) /\ NodesAbout(e, m)
                 /\ \E edge : e.edges = <<edge>> /\ EdgeAbout(edge, m)
    BY <1>7, Normalised
  <2>2. events' = events \o <<e>>
    BY <1>6, <1>7, <2>1 DEF Deliver, HandleMessage
  <2>3. events' = Append(events, e)
    BY <2>2, AddedLast
  <2> QED
    BY <1>7, <2>1, <2>3 DEF Tells, m
<1>8. CASE m.type \in types /\ ~Decodes(m)
  <2>1. NormaliseMessage(m) = << >>
    BY <1>8, Normalised
  <2> QED
    BY <1>1, <1>6, <1>8, <2>1 DEF Deliver, HandleMessage, Tells, m
<1>9. CASE m.type \notin types
  BY <1>6, <1>9 DEF Deliver, Tells, m
<1> QED
  BY <1>7, <1>8, <1>9

SameImage(p, q) ==
    p.token.pid = q.token.pid /\ p.token.version = q.token.version /\ p.image = q.image

\* What an operation does to the files.
FilesMoved(m) ==
    CASE m.type = "NOTIFY_CREATE" ->
           \E path \in {Path(name) : name \in Name} :
               /\ files' = Put(files, path, Now)
               /\ Shown(m) => DestinationPath(m.event.destination) = path
      [] m.type = "NOTIFY_RENAME" ->
           \E dest \in {Path(name) : name \in Name} :
               /\ m.event.source.path \in DOMAIN files
               /\ dest # m.event.source.path
               /\ RenameDestPath(m.event.destination) = dest
               /\ files' = [f \in (DOMAIN files \ {m.event.source.path}) \cup {dest} |->
                                IF f = dest THEN files[m.event.source.path] ELSE files[f]]
      [] OTHER ->
           \A path \in DOMAIN files' : path \in DOMAIN files /\ files'[path] = files[path]

\* What the machine may do between two messages: m is the operation.  A process
\* that lives after it is one that lived before, or the one that now has another
\* user, or the new target of m.

Deed(m) ==
    /\ Happens(m)
    /\ m.time = Now
    /\ m.instigator \in Live
    /\ m.type \notin {"AUTH_EXEC", "AUTH_OPEN"}
    /\ m.type \in DOMAIN EventNameOf => (Decodes(m) <=> Shown(m))
    /\ m.type \in ByName \cup {"NOTIFY_EXEC"} =>
           m.event.target \in Live \/ m.event.target.token.version = Now
    /\ m.type = "NOTIFY_EXEC" => m.event.args = m.event.target.image
    /\ m.type = "NOTIFY_EXIT" => \A p \in Live' : p.token.pid # m.instigator.token.pid
    /\ \A p \in Live' :
           \/ p \in Live
           \/ /\ m.type = "SETUID"
              /\ SameImage(p, m.instigator) /\ ProcessKey(p) = NewUser(m)
           \/ /\ m.type \in {"NOTIFY_FORK", "NOTIFY_EXEC"}
              /\ p = m.event.target /\ p.token.version = Now
    /\ FilesMoved(m)
    /\ Tells(m)

ProcsTypes ==
    /\ DOMAIN procs \subseteq Pid
    /\ \A pid \in DOMAIN procs : procs[pid] \in ProcessType /\ procs[pid].token.pid = pid
FilesTypes ==
    /\ DOMAIN files \subseteq {Path(name) : name \in Name}
    /\ \A path \in DOMAIN files : files[path] \in Nat

LEMMA LiveTypes ==
    ASSUME ProcsTypes, NEW p \in Live
    PROVE  /\ p \in ProcessType /\ p.token.pid \in DOMAIN procs
           /\ procs[p.token.pid] = p /\ p.token.pid \in Pid
           /\ p.token.version \in Nat /\ p.token.uid \in User /\ p.image \in Nat
BY DEF ProcsTypes, Live, ProcessType, TokenType

LEMMA ProcessIs ==
    ASSUME NEW pid \in Pid, NEW version \in Nat, NEW uid \in User, NEW image \in Nat
    PROVE  LET q == Process(pid, version, uid, image)
           IN  /\ q \in ProcessType
               /\ q.token.pid = pid /\ q.token.version = version /\ q.token.uid = uid
               /\ q.image = image
BY DEF Process, ProcessType, TokenType

\* A process put into the table; what is said of it is said of all.
LEMMA PutIs ==
    ASSUME NEW pid, NEW q, procs' = Put(procs, pid, q)
    PROVE  /\ DOMAIN procs' = DOMAIN procs \cup {pid}
           /\ procs'[pid] = q
           /\ \A x \in DOMAIN procs \ {pid} : procs'[x] = procs[x]
           /\ Live' \subseteq Live \cup {q}
<1>1. /\ DOMAIN procs' = DOMAIN procs \cup {pid}
      /\ procs'[pid] = q
      /\ \A x \in DOMAIN procs \ {pid} : procs'[x] = procs[x]
  BY DEF Put
<1> QED
  BY <1>1 DEF Live

LEMMA NowIs ==
    ASSUME IsSequence(ops)
    PROVE  Now \in Nat \ {0} /\ Len(ops) \in Nat /\ Now = Len(ops) + 1 /\ Len(ops) < Now
BY LenProperties DEF IsSequence, Now

LEMMA ForkDeed ==
    ASSUME MachineTypes, NEW p \in Live, NEW pid \in Pid, Fork(p, pid)
    PROVE  (\E m : Deed(m)) /\ ProcsTypes'
<1> DEFINE child == Process(pid, Now, p.token.uid, p.image)
           m == Message("NOTIFY_FORK", p, [target |-> child])
<1>1. procs' = Put(procs, pid, child) /\ Happens(m)
  BY DEF Fork
<1>2. ProcsTypes /\ IsSequence(events) /\ Now \in Nat
  BY NowIs DEF MachineTypes, ProcsTypes
<1>3. child \in ProcessType /\ child.token.version = Now /\ child.token.pid = pid
  BY <1>2, LiveTypes, ProcessIs
<1>4. m.type = "NOTIFY_FORK" /\ m.instigator = p /\ m.event = [target |-> child] /\ m.time = Now
  BY DEF Message
<1>5. Tells(m)
  BY <1>1, <1>2, HappensTells
<1> HIDE DEF m, child
<1>6. m.event # None /\ m.event.target = child
  BY <1>3, <1>4, NoneAssumption
<1>p. /\ DOMAIN procs' = DOMAIN procs \cup {pid}
      /\ procs'[pid] = child
      /\ \A x \in DOMAIN procs \ {pid} : procs'[x] = procs[x]
      /\ Live' \subseteq Live \cup {child}
  BY <1>1, PutIs
<1>f. FilesMoved(m)
  BY <1>4 DEF FilesMoved, Fork
<1>7. Deed(m)
  BY <1>1, <1>3, <1>4, <1>5, <1>6, <1>p, <1>f DEF Deed, Decodes, Shown, ByName
<1>8. ProcsTypes'
  BY <1>1, <1>2, <1>3, <1>p DEF ProcsTypes
<1> QED
  BY <1>7, <1>8

LEMMA ExecDeed ==
    ASSUME MachineTypes, NEW p \in Live, NEW uid \in User, Exec(p, uid)
    PROVE  (\E m : Deed(m)) /\ ProcsTypes'
<1> DEFINE pid == p.token.pid
           target == Process(pid, Now, uid, Now)
           m == Message("NOTIFY_EXEC", p, [target |-> target, args |-> Now])
<1>1. procs' = Put(procs, pid, target) /\ Happens(m)
  BY DEF Exec
<1>2. ProcsTypes /\ IsSequence(events) /\ Now \in Nat
  BY NowIs DEF MachineTypes, ProcsTypes
<1>3. /\ target \in ProcessType /\ target.token.version = Now /\ target.token.pid = pid
      /\ target.image = Now /\ pid \in Pid
  BY <1>2, LiveTypes, ProcessIs
<1>4. /\ m.type = "NOTIFY_EXEC" /\ m.instigator = p /\ m.time = Now
      /\ m.event = [target |-> target, args |-> Now]
  BY DEF Message
<1>5. Tells(m)
  BY <1>1, <1>2, HappensTells
<1> HIDE DEF m, target
<1>6. m.event # None /\ m.event.target = target /\ m.event.args = Now
  BY <1>2, <1>3, <1>4, NoneAssumption
<1>p. /\ DOMAIN procs' = DOMAIN procs \cup {pid}
      /\ procs'[pid] = target
      /\ \A x \in DOMAIN procs \ {pid} : procs'[x] = procs[x]
      /\ Live' \subseteq Live \cup {target}
  BY <1>1, PutIs
<1>f. FilesMoved(m)
  BY <1>4 DEF FilesMoved, Exec
<1>7. Deed(m)
  BY <1>1, <1>3, <1>4, <1>5, <1>6, <1>p, <1>f DEF Deed, Decodes, Shown, ByName
<1>8. ProcsTypes'
  BY <1>1, <1>2, <1>3, <1>p DEF ProcsTypes
<1> QED
  BY <1>7, <1>8

LEMMA SetUidDeed ==
    ASSUME MachineTypes, NEW p \in Live, NEW uid \in User, SetUid(p, uid)
    PROVE  (\E m : Deed(m)) /\ ProcsTypes'
<1> DEFINE pid == p.token.pid
           q == [p EXCEPT !.token.uid = uid]
           m == Message("SETUID", p, [uid |-> uid])
<1>1. procs' = Put(procs, pid, q) /\ Happens(m)
  BY DEF SetUid
<1>2. ProcsTypes /\ IsSequence(events) /\ pid \in Pid
  BY LiveTypes DEF MachineTypes, ProcsTypes
<1>3. q \in ProcessType /\ q.token.pid = pid /\ SameImage(q, p)
  BY <1>2, LiveTypes DEF SameImage, ProcessType, TokenType
<1>4. m.type = "SETUID" /\ m.instigator = p /\ m.time = Now /\ m.event = [uid |-> uid]
  BY DEF Message
<1>5. Tells(m)
  BY <1>1, <1>2, HappensTells
<1>k. ProcessKey(q) = NewUser(m) /\ SameImage(q, m.instigator)
  BY <1>2, <1>3, <1>4, LiveTypes DEF ProcessKey, Hex, NewUser, ProcessType, TokenType
<1> HIDE DEF m, q
<1>6. m.type \notin DOMAIN EventNameOf
  BY <1>4 DEF EventNameOf
<1>p. /\ DOMAIN procs' = DOMAIN procs \cup {pid}
      /\ procs'[pid] = q
      /\ \A x \in DOMAIN procs \ {pid} : procs'[x] = procs[x]
      /\ Live' \subseteq Live \cup {q}
  BY <1>1, PutIs
<1>f. FilesMoved(m)
  BY <1>4 DEF FilesMoved, SetUid
<1>8. Deed(m)
  BY <1>1, <1>3, <1>4, <1>5, <1>6, <1>p, <1>k, <1>f DEF Deed, ByName
<1>9. ProcsTypes'
  BY <1>1, <1>2, <1>3, <1>p DEF ProcsTypes
<1> QED
  BY <1>8, <1>9

LEMMA ExitDeed ==
    ASSUME MachineTypes, NEW p \in Live, Exit(p)
    PROVE  (\E m : Deed(m)) /\ ProcsTypes'
<1> DEFINE m == Message("NOTIFY_EXIT", p, [stat |-> Now])
<1>1. procs' = [pid \in DOMAIN procs \ {p.token.pid} |-> procs[pid]] /\ Happens(m)
  BY DEF Exit
<1>2. ProcsTypes /\ IsSequence(events) /\ Now \in Nat
  BY NowIs DEF MachineTypes, ProcsTypes
<1>3. m.type = "NOTIFY_EXIT" /\ m.instigator = p /\ m.time = Now /\ m.event = [stat |-> Now]
  BY DEF Message
<1>4. Tells(m)
  BY <1>1, <1>2, HappensTells
<1> HIDE DEF m
<1>5. m.event # None
  BY <1>2, <1>3, NoneAssumption
<1>6. Live' \subseteq Live /\ \A x \in Live' : x.token.pid # p.token.pid
  BY <1>1, <1>2 DEF Live, ProcsTypes
<1>f. FilesMoved(m)
  BY <1>3 DEF FilesMoved, Exit
<1>7. Deed(m)
  BY <1>1, <1>3, <1>4, <1>5, <1>6, <1>f DEF Deed, Decodes, Shown, ByName
<1>8. ProcsTypes'
  BY <1>1, <1>2 DEF ProcsTypes
<1> QED
  BY <1>7, <1>8

\* The operations that leave the processes alone.
LEMMA OtherDeed ==
    ASSUME MachineTypes, NEW p \in Live, procs' = procs,
           NEW type \in {"NOTIFY_GET_TASK", "NOTIFY_REMOTE_THREAD_CREATE", "NOTIFY_CREATE",
                         "NOTIFY_WRITE", "NOTIFY_OPEN", "NOTIFY_CLOSE", "NOTIFY_UNLINK",
                         "NOTIFY_RENAME", "NOTIFY_UIPC_BIND", "NOTIFY_UIPC_CONNECT"},
           NEW event, Happens(Message(type, p, event)),
           type \in ByName => event.target \in Live,
           type # "NOTIFY_CREATE" => event # None,
           type = "NOTIFY_CREATE" /\ event # None =>
               (event.destination = None <=> event = [destination |-> None]),
           FilesMoved(Message(type, p, event))
    PROVE  (\E m : Deed(m)) /\ ProcsTypes'
<1> DEFINE m == Message(type, p, event)
<1>1. IsSequence(events) /\ ProcsTypes
  BY DEF MachineTypes, ProcsTypes
<1>2. m.type = type /\ m.instigator = p /\ m.time = Now /\ m.event = event
  BY DEF Message
<1>3. Tells(m)
  BY <1>1, HappensTells
<1>4. Happens(m) /\ FilesMoved(m)
  OBVIOUS
<1> HIDE DEF m
<1>5. Live' = Live
  BY DEF Live
<1>7. m.type \in DOMAIN EventNameOf => (Decodes(m) <=> Shown(m))
  BY <1>2 DEF Decodes, Shown
<1>8. Deed(m)
  BY <1>2, <1>3, <1>4, <1>5, <1>7 DEF Deed
<1>9. ProcsTypes'
  BY <1>1 DEF ProcsTypes
<1> QED
  BY <1>8, <1>9

LEMMA FileIs ==
    ASSUME FilesTypes, NEW path \in DOMAIN files
    PROVE  File(path) \in FileType
BY DEF FilesTypes, File, FileType, Stat

LEMMA MachineDeed ==
    ASSUME MachineTypes, MachineNext
    PROVE  (\E m : Deed(m)) /\ ProcsTypes' /\ FilesTypes'
<1>0. IsSequence(ops) /\ FilesTypes /\ Now \in Nat
  BY NowIs DEF MachineTypes, FilesTypes
<1>1. PICK p \in Live :
        \/ \E pid \in Pid : Fork(p, pid)
        \/ \E uid \in User : Exec(p, uid) \/ SetUid(p, uid)
        \/ Exit(p)
        \/ \E q \in Live : Touch(p, q)
        \/ \E name \in Name : CreateFile(p, name) \/ UseSocket(p, name)
        \/ \E path \in DOMAIN files : UseFile(p, path) \/ UnlinkFile(p, path)
        \/ \E path \in DOMAIN files, name \in Name : RenameFile(p, path, name)
  BY DEF MachineNext
<1>2. CASE \E pid \in Pid : Fork(p, pid)
  BY <1>0, <1>2, ForkDeed DEF Fork, FilesTypes
<1>3. CASE \E uid \in User : Exec(p, uid)
  BY <1>0, <1>3, ExecDeed DEF Exec, FilesTypes
<1>4. CASE \E uid \in User : SetUid(p, uid)
  BY <1>0, <1>4, SetUidDeed DEF SetUid, FilesTypes
<1>5. CASE Exit(p)
  BY <1>0, <1>5, ExitDeed DEF Exit, FilesTypes
<1>6. ASSUME NEW q \in Live, Touch(p, q)
      PROVE  (\E m : Deed(m)) /\ ProcsTypes' /\ FilesTypes'
  <2>1. PICK type \in {"NOTIFY_GET_TASK", "NOTIFY_REMOTE_THREAD_CREATE"} :
            Happens(Message(type, p, [target |-> q]))
    BY <1>6 DEF Touch
  <2>2. procs' = procs /\ files' = files
    BY <1>6 DEF Touch
  <2>3. [target |-> q] # None
    BY LiveTypes, NoneAssumption DEF MachineTypes, ProcsTypes
  <2>4. [target |-> q].target \in Live
    OBVIOUS
  <2>5. FilesMoved(Message(type, p, [target |-> q]))
    BY <2>2 DEF FilesMoved, Message
  <2> QED
    BY <1>0, <2>1, <2>2, <2>3, <2>4, <2>5, OtherDeed DEF FilesTypes
<1>7. ASSUME NEW name \in Name, CreateFile(p, name)
      PROVE  (\E m : Deed(m)) /\ ProcsTypes' /\ FilesTypes'
  <2> DEFINE made == [kind |-> "existing", file |-> [path |-> Path(name), stat |-> Stat(Now)]]
  <2>1. PICK event \in {None} \cup {[destination |-> d] : d \in {None, NewPath(name), made}} :
            Happens(Message("NOTIFY_CREATE", p, event))
    BY <1>7 DEF CreateFile
  <2>2. procs' = procs /\ files' = Put(files, Path(name), Now)
    BY <1>7 DEF CreateFile
  <2>6. FilesMoved(Message("NOTIFY_CREATE", p, event))
    <3> DEFINE m == Message("NOTIFY_CREATE", p, event)
    <3>1. m.type = "NOTIFY_CREATE" /\ m.event = event
      BY DEF Message
    <3>2. /\ DestinationPath(NewPath(name)) = Path(name)
          /\ DestinationPath(made) = Path(name)
      BY DEF DestinationPath, NewPath, JoinDirFilename, Path
    <3>3. Shown(m) => \E d \in {NewPath(name), made} : event = [destination |-> d]
      BY <2>1, <3>1 DEF Shown
    <3>4. Shown(m) => DestinationPath(m.event.destination) = Path(name)
      BY <3>1, <3>2, <3>3
    <3> HIDE DEF m
    <3> QED
      BY <2>2, <3>1, <3>4 DEF FilesMoved, m
  <2> HIDE DEF made
  <2>3. event # None => \E d : event = [destination |-> d]
    BY <2>1
  <2>4. event # None => (event.destination = None <=> event = [destination |-> None])
    BY <2>3
  <2>5. FilesTypes'
    BY <1>0, <2>2 DEF FilesTypes, Put
  <2> QED
    BY <2>1, <2>2, <2>4, <2>5, <2>6, OtherDeed DEF ByName
<1>8. ASSUME NEW name \in Name, UseSocket(p, name)
      PROVE  (\E m : Deed(m)) /\ ProcsTypes' /\ FilesTypes'
  <2> DEFINE bound == [directory |-> [path |-> Home], filename |-> name, mode |-> 0]
             joined == [file |-> [path |-> Path(name), stat |-> Stat(0)]]
  <2>1. \/ Happens(Message("NOTIFY_UIPC_BIND", p, bound))
        \/ Happens(Message("NOTIFY_UIPC_CONNECT", p, joined))
    BY <1>8 DEF UseSocket
  <2>2. procs' = procs /\ files' = files
    BY <1>8 DEF UseSocket
  <2>3. bound # None /\ joined # None
    <3>1. bound \in [directory : [path : {Home}], filename : Name, mode : {0}]
      OBVIOUS
    <3>2. joined \in [file : FileType]
      BY DEF FileType, Stat
    <3> QED
      BY <3>1, <3>2, NoneAssumption
  <2> HIDE DEF bound, joined
  <2>4. /\ FilesMoved(Message("NOTIFY_UIPC_BIND", p, bound))
        /\ FilesMoved(Message("NOTIFY_UIPC_CONNECT", p, joined))
    BY <2>2 DEF FilesMoved, Message
  <2> QED
    BY <1>0, <2>1, <2>2, <2>3, <2>4, OtherDeed DEF ByName, FilesTypes
<1>9. ASSUME NEW path \in DOMAIN files, UseFile(p, path)
      PROVE  (\E m : Deed(m)) /\ ProcsTypes' /\ FilesTypes'
  <2>1. PICK type \in {"NOTIFY_WRITE", "NOTIFY_OPEN", "NOTIFY_CLOSE"} :
            Happens(Message(type, p, [file |-> File(path)]))
    BY <1>9 DEF UseFile
  <2>2. procs' = procs /\ files' = files
    BY <1>9 DEF UseFile
  <2>3. [file |-> File(path)] # None
    BY <1>0, FileIs, NoneAssumption
  <2>4. FilesMoved(Message(type, p, [file |-> File(path)]))
    BY <2>2 DEF FilesMoved, Message
  <2> QED
    BY <1>0, <2>1, <2>2, <2>3, <2>4, OtherDeed DEF ByName, FilesTypes
<1>10. ASSUME NEW path \in DOMAIN files, UnlinkFile(p, path)
       PROVE  (\E m : Deed(m)) /\ ProcsTypes' /\ FilesTypes'
  <2>1. Happens(Message("NOTIFY_UNLINK", p, [file |-> File(path)]))
    BY <1>10 DEF UnlinkFile
  <2>2. procs' = procs /\ files' = [f \in DOMAIN files \ {path} |-> files[f]]
    BY <1>10 DEF UnlinkFile
  <2>3. [file |-> File(path)] # None
    BY <1>0, FileIs, NoneAssumption
  <2>4. FilesTypes'
    BY <1>0, <2>2 DEF FilesTypes
  <2>5. FilesMoved(Message("NOTIFY_UNLINK", p, [file |-> File(path)]))
    BY <2>2 DEF FilesMoved, Message
  <2> QED
    BY <2>1, <2>2, <2>3, <2>4, <2>5, OtherDeed DEF ByName
<1>11. ASSUME NEW path \in DOMAIN files, NEW name \in Name, RenameFile(p, path, name)
       PROVE  (\E m : Deed(m)) /\ ProcsTypes' /\ FilesTypes'
  <2> DEFINE dest == Path(name)
             to == IF dest \in DOMAIN files THEN Existing(dest) ELSE NewPath(name)
             event == [source |-> File(path), destination |-> to]
  <2>1. Happens(Message("NOTIFY_RENAME", p, event))
    BY <1>11 DEF RenameFile
  <2>2. /\ procs' = procs
        /\ files' = [f \in (DOMAIN files \ {path}) \cup {dest} |->
                         IF f = dest THEN files[path] ELSE files[f]]
    BY <1>11 DEF RenameFile
  <2>3. to \in DestinationType
    <3>1. CASE dest \in DOMAIN files
      BY <1>0, <3>1, FileIs DEF Existing, DestinationType
    <3>2. CASE dest \notin DOMAIN files
      BY <3>2 DEF NewPath, NewPathType, DestinationType
    <3> QED
      BY <3>1, <3>2
  <2>4. File(path) \in FileType
    BY <1>0, FileIs
  <2>5. FilesTypes'
    BY <1>0, <2>2 DEF FilesTypes
  <2>7. RenameDestPath(to) = dest
    <3>1. to # None
      BY <2>3, NoneAssumption
    <3>2. DestinationPath(to) = dest
      BY DEF DestinationPath, Existing, File, NewPath, JoinDirFilename, Path
    <3> QED
      BY <3>1, <3>2 DEF RenameDestPath
  <2>8. dest # path /\ File(path).path = path
    BY <1>11 DEF RenameFile, File
  <2> HIDE DEF to
  <2>6. event # None
    BY <2>3, <2>4, NoneAssumption
  <2>9. FilesMoved(Message("NOTIFY_RENAME", p, event))
    <3> DEFINE m == Message("NOTIFY_RENAME", p, event)
    <3>1. m.type = "NOTIFY_RENAME" /\ m.event.source.path = path /\ m.event.destination = to
      BY <2>8 DEF Message
    <3> HIDE DEF m, event
    <3>2. dest \in {Path(x) : x \in Name}
      OBVIOUS
    <3> HIDE DEF dest
    <3> QED
      BY <2>2, <2>7, <2>8, <3>1, <3>2 DEF FilesMoved, m
  <2> HIDE DEF event
  <2> QED
    BY <2>1, <2>2, <2>5, <2>6, <2>9, OtherDeed DEF ByName
<1> QED
  BY <1>1, <1>2, <1>3, <1>4, <1>5, <1>6, <1>7, <1>8, <1>9, <1>10, <1>11

-----------------------------------------------------------------------------
(* The invariant is kept. *)

Triple(n) == <<n.key[2][1], n.key[2][2], n.image>>

LEMMA AboutTriple ==
    ASSUME NEW n, NEW q, About(n, q)
    PROVE  /\ n.key[1] = "process"
           /\ Triple(n) = <<q.token.pid, q.token.version, q.image>>
           /\ n.key[2][1] = q.token.pid /\ n.key[2][2] = q.token.version
           /\ n.uid = n.key[2][3]
BY DEF About, Triple, ProcessKey, Hex

LEMMA NodesGrow ==
    ASSUME IsSequence(events), NEW e, events' = Append(events, e)
    PROVE  EventNodes' = EventNodes \cup ToSet(e.nodes)
<1>1. /\ DOMAIN events' = DOMAIN events \cup {Len(events) + 1}
      /\ \A i \in DOMAIN events : events'[i] = events[i]
      /\ events'[Len(events) + 1] = e
  BY AddedLast
<1>2. EventNodes' = UNION {ToSet(events'[i].nodes) : i \in DOMAIN events'}
  BY DEF EventNodes
<1>3. EventNodes = UNION {ToSet(events[i].nodes) : i \in DOMAIN events}
  BY DEF EventNodes
<1> HIDE DEF EventNodes
<1> QED
  BY <1>1, <1>2, <1>3

\* The process nodes after a deed: those there were, and those of its event.
LEMMA NodesOfDeed ==
    ASSUME IsSequence(events), NEW m, Deed(m), NEW n \in ProcessNodes'
    PROVE  \/ n \in ProcessNodes
           \/ /\ About(n, m.instigator) /\ m.instigator \in Live
              /\ n.args = None
              /\ n.exit # None => m.type = "NOTIFY_EXIT"
           \/ /\ About(n, m.event.target)
              /\ m.event.target \in Live \/ m.event.target.token.version = Now
              /\ n.args # None => n.args = m.event.target.image
              /\ n.exit = None
<1>1. n \in EventNodes' /\ n.key[1] = "process"
  BY DEF ProcessNodes
<1>2. CASE m.type \in types /\ Decodes(m)
  <2>1. PICK e : events' = Append(events, e) /\ NodesAbout(e, m)
    BY <1>2 DEF Deed, Tells
  <2>2. n \in EventNodes \/ n \in ToSet(e.nodes)
    BY <1>1, <2>1, NodesGrow
  <2>3. CASE n \in EventNodes
    BY <1>1, <2>3 DEF ProcessNodes
  <2>4. CASE n \in ToSet(e.nodes)
    BY <1>1, <2>1, <2>4 DEF NodesAbout, Deed
  <2> QED
    BY <2>2, <2>3, <2>4
<1>3. CASE ~(m.type \in types /\ Decodes(m))
  <2>1. EventNodes' = EventNodes
    BY <1>3 DEF Deed, Tells, EventNodes
  <2> QED
    BY <1>1, <2>1 DEF ProcessNodes
<1> QED
  BY <1>2, <1>3

LEMMA OpsOfDeed ==
    ASSUME MachineTypes, NEW m, Deed(m)
    PROVE  /\ IsSequence(ops') /\ IsSequence(events')
           /\ Len(ops) \in Nat /\ Len(ops') = Now /\ Now = Len(ops) + 1
           /\ DOMAIN ops' = DOMAIN ops \cup {Now} /\ Now \notin DOMAIN ops
           /\ ops'[Now] = m
           /\ \A t \in DOMAIN ops : ops'[t] = ops[t]
<1>1. ops' = Append(ops, m) /\ IsSequence(ops) /\ IsSequence(events)
  BY DEF Deed, Happens, MachineTypes
<1>2. IsSequence(events')
  <2>1. events' = events \/ \E e : events' = Append(events, e)
    BY DEF Deed, Tells
  <2>2. \A e : IsSequence(Append(events, e))
    BY <1>1, AddedLast
  <2> QED
    BY <1>1, <2>1, <2>2
<1> QED
  BY <1>1, <1>2, AddedLast DEF Now

LEMMA OneImageNext ==
    ASSUME MachineTypes, OneImage, NEW m, Deed(m)
    PROVE  OneImage'
<1> DEFINE T == m.event.target
           fresh == <<T.token.pid, Now, T.image>>
<1>1. Len(ops) \in Nat /\ Len(ops') = Now /\ Now = Len(ops) + 1 /\ IsSequence(events)
  BY OpsOfDeed DEF MachineTypes
<1>2. \A p \in Live : <<p.token.pid, p.token.version, p.image>> \in Instances
  BY DEF Instances
<1>3. ASSUME NEW n \in ProcessNodes'
      PROVE  Triple(n) \in Instances \cup {fresh}
  <2>1. CASE n \in ProcessNodes
    BY <2>1 DEF Instances, Triple
  <2>2. CASE About(n, m.instigator) /\ m.instigator \in Live
    BY <1>2, <2>2, AboutTriple
  <2>3. CASE About(n, T) /\ (T \in Live \/ T.token.version = Now)
    BY <1>2, <2>3, AboutTriple
  <2> QED
    BY <1>1, <2>1, <2>2, <2>3, NodesOfDeed
<1>4. ASSUME NEW p \in Live'
      PROVE  <<p.token.pid, p.token.version, p.image>> \in Instances \cup {fresh}
  BY <1>2, <1>4 DEF Deed, SameImage
<1>5. ASSUME NEW x \in Instances'
      PROVE  x \in Instances \cup {fresh}
  <2>1. Instances' = {Triple(n) : n \in ProcessNodes'} \cup
                     {<<p.token.pid, p.token.version, p.image>> : p \in Live'}
    BY DEF Instances, Triple
  <2> QED
    BY <1>3, <1>4, <1>5, <2>1
<1> HIDE DEF T
<1>6. fresh[1] = T.token.pid /\ fresh[2] = Now /\ fresh[3] = T.image
  OBVIOUS
<1> HIDE DEF fresh
<1>7. \A x \in Instances : x[2] \in 0 .. Len(ops) /\ x[2] # Now
  BY <1>1 DEF OneImage
<1>8. \A x \in Instances' : x[2] \in 0 .. Len(ops')
  BY <1>1, <1>5, <1>6, <1>7
<1>9. ASSUME NEW x \in Instances', NEW y \in Instances', x[1] = y[1], x[2] = y[2]
      PROVE  x[3] = y[3]
  <2>1. CASE x \in Instances /\ y \in Instances
    BY <1>9, <2>1 DEF OneImage
  <2>2. CASE x = fresh \/ y = fresh
    BY <1>5, <1>6, <1>7, <1>9, <2>2
  <2> QED
    BY <1>5, <2>1, <2>2
<1> QED
  BY <1>8, <1>9 DEF OneImage

LEMMA NodesAreTrueNext ==
    ASSUME MachineTypes, OneImage, NodesAreTrue, NEW m, Deed(m)
    PROVE  NodesAreTrue'
<1>1. Len(ops) \in Nat /\ Now = Len(ops) + 1 /\ IsSequence(events)
  BY OpsOfDeed DEF MachineTypes
<1>2. SUFFICES ASSUME NEW n \in ProcessNodes'
               PROVE  /\ n.uid = n.key[2][3]
                      /\ n.args # None => n.args = n.image
                      /\ n.exit # None =>
                             \A p \in Live' : ~(/\ p.token.pid = n.key[2][1]
                                                /\ p.token.version = n.key[2][2])
  BY DEF NodesAreTrue
<1>3. CASE n \in ProcessNodes
  <2>1. Triple(n) \in Instances /\ Triple(n)[2] = n.key[2][2]
    BY <1>3 DEF Instances, Triple
  <2>2. n.key[2][2] \in 0 .. Len(ops)
    BY <2>1 DEF OneImage
  <2>3. n.key[2][2] # Now
    BY <1>1, <2>2
  <2> QED
    BY <1>3, <2>3 DEF NodesAreTrue, Deed, SameImage
<1>4. CASE /\ About(n, m.instigator) /\ n.args = None
           /\ n.exit # None => m.type = "NOTIFY_EXIT"
  BY <1>4, AboutTriple DEF Deed
<1>5. CASE /\ About(n, m.event.target) /\ n.exit = None
           /\ n.args # None => n.args = m.event.target.image
  <2>1. n.image = m.event.target.image
    BY <1>5 DEF About
  <2> QED
    BY <1>5, <2>1, AboutTriple
<1> QED
  BY <1>1, <1>3, <1>4, <1>5, NodesOfDeed

LEMMA EventsNext ==
    ASSUME MachineTypes, EventsOfOperations, OneOfEach, EventsAreSelfContained,
           NEW m, Deed(m)
    PROVE  EventsOfOperations' /\ OneOfEach' /\ EventsAreSelfContained'
<1>1. /\ DOMAIN ops' = DOMAIN ops \cup {Now} /\ Now \notin DOMAIN ops
      /\ ops'[Now] = m
      /\ \A t \in DOMAIN ops : ops'[t] = ops[t]
      /\ IsSequence(events)
  BY OpsOfDeed DEF MachineTypes
<1>2. phase = "active" /\ phase' = phase /\ types' = types
  BY DEF Deed, Happens, setupVars
<1>3. \A t : Reports(t)' <=> Reports(t)
  BY <1>2 DEF Reports
<1>4. m.type \in DOMAIN EventNameOf => (Decodes(m) <=> Shown(m))
  BY DEF Deed
<1>5. (m.type \in types /\ Decodes(m)) <=> (Reports(m.type) /\ Shown(m))
  BY <1>4 DEF Reports, Decodes
<1> DEFINE of(t) == {i \in DOMAIN events : events[i].time = t}
           Right(t) == IF Reports(ops[t].type) /\ Shown(ops[t])
                       THEN \E i \in of(t) : /\ of(t) = {i}
                                             /\ EventNameOf[ops[t].type] = events[i].name
                       ELSE of(t) = {}
<1>6. OneOfEach <=> \A t \in DOMAIN ops : Right(t)
  BY DEF OneOfEach
<1>7. OneOfEach' <=> \A t \in DOMAIN ops' : Right(t)'
  BY DEF OneOfEach
<1>8. of(Now) = {}
  BY <1>1 DEF EventsOfOperations
<1>9. CASE Reports(m.type) /\ Shown(m)
  <2>1. PICK e : /\ events' = Append(events, e)
                 /\ e.name = EventNameOf[m.type] /\ e.time = Now
                 /\ SelfContained(e)
    BY <1>5, <1>9 DEF Deed, Tells
  <2>2. /\ DOMAIN events' = DOMAIN events \cup {Len(events) + 1}
        /\ Len(events) + 1 \notin DOMAIN events
        /\ \A i \in DOMAIN events : events'[i] = events[i]
        /\ events'[Len(events) + 1] = e
    BY <1>1, <2>1, AddedLast
  <2> DEFINE k == Len(events) + 1
  <2> HIDE DEF k
  <2>3. e.name \in AllNames
    BY <1>9, <2>1 DEF Reports, EventNameOf, AllNames, FromStr
  <2>4. EventsOfOperations'
    BY <1>1, <1>2, <2>1, <2>2, <2>3 DEF EventsOfOperations
  <2>5. EventsAreSelfContained'
    BY <2>1, <2>2 DEF EventsAreSelfContained
  <2>6. ASSUME NEW t \in DOMAIN ops PROVE Right(t)'
    <3>1. t # Now /\ ops'[t] = ops[t]
      BY <1>1
    <3>2. of(t)' = of(t)
      BY <2>1, <2>2, <3>1 DEF k
    <3>3. Right(t)
      BY <1>6, <2>6
    <3>4. \A i \in of(t) : events'[i] = events[i]
      BY <2>2
    <3>5. Shown(ops[t])' <=> Shown(ops[t])
      BY <3>1 DEF Shown
    <3>6. Reports(ops[t].type)' <=> Reports(ops[t].type)
      BY <1>2, <3>1 DEF Reports
    <3> HIDE DEF of
    <3> QED
      BY <3>1, <3>2, <3>3, <3>4, <3>5, <3>6
  <2>7. ASSUME NEW t, t = Now PROVE Right(t)'
    <3>1. of(t)' = {k}
      BY <1>8, <2>1, <2>2, <2>7 DEF k
    <3>2. events'[k].name = EventNameOf[m.type] /\ ops'[t] = m
      BY <1>1, <2>1, <2>2, <2>7 DEF k
    <3>3. Reports(m.type)' /\ Shown(m)'
      BY <1>2, <1>9 DEF Reports, Shown
    <3>4. Reports(ops[t].type)' /\ Shown(ops[t])'
      BY <3>2, <3>3 DEF Reports, Shown
    <3> HIDE DEF of
    <3> QED
      BY <3>1, <3>2, <3>4
  <2>8. OneOfEach'
    <3>1. \A t \in DOMAIN ops' : t \in DOMAIN ops \/ t = Now
      BY <1>1
    <3> HIDE DEF Right
    <3>2. \A t \in DOMAIN ops' : Right(t)'
      BY <2>6, <2>7, <3>1
    <3> QED
      BY <1>7, <3>2
  <2> QED
    BY <2>4, <2>5, <2>8
<1>10. CASE ~(Reports(m.type) /\ Shown(m))
  <2>1. events' = events
    BY <1>5, <1>10 DEF Deed, Tells
  <2>2. EventsOfOperations'
    BY <1>1, <1>2, <2>1 DEF EventsOfOperations
  <2>3. EventsAreSelfContained'
    BY <2>1 DEF EventsAreSelfContained
  <2>4. ASSUME NEW t \in DOMAIN ops PROVE Right(t)'
    <3>1. ops'[t] = ops[t] /\ of(t)' = of(t)
      BY <1>1, <2>1
    <3>2. Right(t)
      BY <1>6, <2>4
    <3>3. Shown(ops[t])' <=> Shown(ops[t])
      BY <3>1 DEF Shown
    <3>4. Reports(ops[t].type)' <=> Reports(ops[t].type)
      BY <1>2, <3>1 DEF Reports
    <3> HIDE DEF of
    <3> QED
      BY <2>1, <3>1, <3>2, <3>3, <3>4
  <2>5. ASSUME NEW t, t = Now PROVE Right(t)'
    <3>1. of(t)' = {} /\ ops'[t] = m
      BY <1>1, <1>8, <2>1, <2>5
    <3>2. ~(Reports(m.type)' /\ Shown(m)')
      BY <1>2, <1>10 DEF Reports, Shown
    <3>3. ~(Reports(ops[t].type)' /\ Shown(ops[t])')
      BY <3>1, <3>2 DEF Reports, Shown
    <3> HIDE DEF of
    <3> QED
      BY <3>1, <3>3
  <2>6. OneOfEach'
    <3>1. \A t \in DOMAIN ops' : t \in DOMAIN ops \/ t = Now
      BY <1>1
    <3> HIDE DEF Right
    <3>2. \A t \in DOMAIN ops' : Right(t)'
      BY <2>4, <2>5, <3>1
    <3> QED
      BY <1>7, <3>2
  <2> QED
    BY <2>2, <2>3, <2>6
<1> QED
  BY <1>9, <1>10

LEMMA DeedNext ==
    ASSUME IInv, NEW m, Deed(m), ProcsTypes', FilesTypes'
    PROVE  IInv'
<1>1. MachineTypes'
  BY OpsOfDeed DEF IInv, MachineTypes, ProcsTypes, FilesTypes
<1> QED
  BY <1>1, OneImageNext, NodesAreTrueNext, EventsNext DEF IInv

\* The setup says nothing of processes and files; while it lasts there is
\* nothing to say.
LEMMA SetupNextKeeps ==
    ASSUME IInv, [SetupNext]_setupVars, UNCHANGED machineVars
    PROVE  IInv'
<1>1. /\ procs' = procs /\ files' = files /\ ops' = ops /\ events' = events
  BY DEF machineVars
<1>2. phase = "active" => phase' = phase /\ types' = types
  BY DEF SetupNext, LoadConfig, ResolveName, CreateClient, ChooseMutes, MutePath, Subscribe,
         WriterOpensStore, setupVars
<1>3. EventNodes' = EventNodes /\ Live' = Live
  BY <1>1 DEF EventNodes, Live
<1>4. ProcessNodes' = ProcessNodes
  BY <1>3 DEF ProcessNodes
<1>5. Instances' = Instances
  BY <1>3, <1>4 DEF Instances
<1>6. MachineTypes' /\ EventsAreSelfContained'
  BY <1>1 DEF IInv, MachineTypes, EventsAreSelfContained
<1>7. EventsOfOperations'
  BY <1>1, <1>2 DEF IInv, EventsOfOperations
<1>8. OneImage' /\ NodesAreTrue'
  BY <1>1, <1>3, <1>4, <1>5 DEF IInv, OneImage, NodesAreTrue
<1>9. OneOfEach'
  <2>1. CASE ops = << >>
    BY <1>1, <2>1, NoElements DEF OneOfEach
  <2>2. CASE phase = "active"
    BY <1>1, <1>2, <2>2 DEF IInv, OneOfEach, Reports
  <2> QED
    BY <2>1, <2>2 DEF IInv, EventsOfOperations
<1> QED
  BY <1>6, <1>7, <1>8, <1>9 DEF IInv

LEMMA InitInv == Init => IInv
<1> SUFFICES ASSUME Init PROVE IInv
  OBVIOUS
<1>1. PICK pid \in Pid, uid \in User : procs = [p \in {pid} |-> Process(pid, 0, uid, 0)]
  BY DEF Init
<1>2. ops = << >> /\ events = << >> /\ files = << >>
  BY DEF Init
<1> DEFINE first == Process(pid, 0, uid, 0)
<1>3. /\ first \in ProcessType /\ first.token.pid = pid /\ first.token.version = 0
  BY ProcessIs
<1> HIDE DEF first
<1>4. DOMAIN procs = {pid} /\ procs[pid] = first
  BY <1>1 DEF first
<1>5. Live = {first}
  BY <1>4 DEF Live
<1>6. EventNodes = {} /\ ProcessNodes = {}
  BY <1>2, NoElements DEF EventNodes, ProcessNodes
<1>7. MachineTypes
  BY <1>2, <1>3, <1>4, NoElements DEF MachineTypes
<1>8. EventsOfOperations /\ OneOfEach /\ EventsAreSelfContained
  BY <1>2, NoElements DEF EventsOfOperations, OneOfEach, EventsAreSelfContained
<1>9. Instances = {<<first.token.pid, first.token.version, first.image>>}
  BY <1>5, <1>6 DEF Instances
<1>10. OneImage
  BY <1>2, <1>3, <1>9 DEF OneImage
<1>11. NodesAreTrue
  BY <1>6 DEF NodesAreTrue
<1> QED
  BY <1>7, <1>8, <1>10, <1>11 DEF IInv

LEMMA NextInv ==
    ASSUME IInv, [Next]_vars
    PROVE  IInv' /\ [SetupNext]_setupVars
<1>1. CASE MachineNext
  <2>1. (\E m : Deed(m)) /\ ProcsTypes' /\ FilesTypes'
    BY <1>1, MachineDeed DEF IInv
  <2>2. PICK m : Deed(m)
    BY <2>1
  <2>3. UNCHANGED setupVars
    BY <2>2 DEF Deed, Happens
  <2> QED
    BY <2>1, <2>2, <2>3, DeedNext
<1>2. CASE SetupNext /\ UNCHANGED machineVars
  BY <1>2, SetupNextKeeps
<1>3. CASE UNCHANGED vars
  <2>1. UNCHANGED setupVars /\ UNCHANGED machineVars
    BY <1>3 DEF vars
  <2> QED
    BY <2>1, SetupNextKeeps
<1> QED
  BY <1>1, <1>2, <1>3 DEF Next

-----------------------------------------------------------------------------
(* The theorems. *)

\* The invariant is inductive: any number of processes, users, files and
\* operations, and any configuration.
THEOREM Invariant == Spec => []IInv
<1>1. IInv /\ [Next]_vars => IInv'
  BY NextInv
<1> QED
  BY <1>1, InitInv, PTL DEF Spec

\* Whatever the machine does, the setup proceeds as it does by itself.
THEOREM SetupProceeds == Spec => SetupSpec
<1>1. Init => SetupInit
  BY DEF Init
<1>2. IInv /\ [Next]_vars => [SetupNext]_setupVars
  BY NextInv
<1> QED
  BY <1>1, <1>2, Invariant, PTL DEF Spec, SetupSpec

\* The client is subscribed to exactly the events the configuration names.
THEOREM SubscribesAsConfigured == Spec => []SubscribedAsConfigured
BY SetupProceeds, Subscribed, PTL

\* The store's directory is muted before the first event is delivered.
THEOREM MutesStore == Spec => []StoreIsMuted
BY SetupProceeds, StoreMuted, PTL

\* Every variable keeps its type; every event has a name of the registry.
THEOREM TypeCorrect == Spec => []TypeOK
<1>1. SetupInv /\ IInv => TypeOK
  <2> SUFFICES ASSUME SetupInv, IInv PROVE TypeOK
    OBVIOUS
  <2>1. ToSet(names) \subseteq DOMAIN EsType
    <3>1. names \in Seq(DOMAIN EsType)
      BY DEF SetupInv, SetupTypes
    <3> QED
      BY <3>1, LenProperties, ElementOfSeq DEF ToSet
  <2> QED
    BY <2>1 DEF TypeOK, SetupInv, SetupTypes, IInv, MachineTypes, EventsOfOperations
<1> QED
  BY <1>1, Invariant, SetupProceeds, SetupInvariant, PTL

\* An operation is counted once, though AUTH and NOTIFY of it both arrive, and
\* under its own name and time.
THEOREM OneEvent == Spec => []OneEventPerOperation
<1>1. IInv => OneEventPerOperation
  BY DEF IInv, OneOfEach, OneEventPerOperation
<1> QED
  BY <1>1, Invariant, PTL

\* No edge has an end that the nodes of its event do not describe.
THEOREM SelfContainedEvents == Spec => []EventsAreSelfContained
<1>1. IInv => EventsAreSelfContained
  BY DEF IInv
<1> QED
  BY <1>1, Invariant, PTL

\* Pids that are used again do not mix processes.
THEOREM OneImagePerKey == Spec => []KeyNamesOneImage
<1>1. IInv => KeyNamesOneImage
  <2> SUFFICES ASSUME IInv, NEW m \in EventNodes, NEW n \in EventNodes,
                      m.key = n.key, m.key[1] = "process"
               PROVE  m.image = n.image /\ m.uid = n.uid
    BY DEF KeyNamesOneImage
  <2>1. m \in ProcessNodes /\ n \in ProcessNodes
    BY DEF ProcessNodes
  <2>2. m.uid = m.key[2][3] /\ n.uid = n.key[2][3]
    BY <2>1 DEF IInv, NodesAreTrue
  <2>3. Triple(m) \in Instances /\ Triple(n) \in Instances
    BY <2>1 DEF Instances, Triple
  <2>4. \A x : Triple(x)[1] = x.key[2][1] /\ Triple(x)[2] = x.key[2][2] /\ Triple(x)[3] = x.image
    BY DEF Triple
  <2>5. m.image = n.image
    BY <2>3, <2>4 DEF IInv, OneImage
  <2> QED
    BY <2>2, <2>5
<1> QED
  BY <1>1, Invariant, PTL

\* A living process never shows an exit or another one's command line.
THEOREM LiveProcesses == Spec => []LiveProcessesAsTheyAre
<1>1. IInv => LiveProcessesAsTheyAre
  <2> SUFFICES ASSUME IInv, NEW p \in Live, NEW n \in EventNodes, n.key = ProcessKey(p)
               PROVE  n.exit = None /\ (n.args # None => n.args = p.image)
    BY DEF LiveProcessesAsTheyAre, Of
  <2>1. /\ n.key[1] = "process"
        /\ n.key[2][1] = p.token.pid /\ n.key[2][2] = p.token.version
    BY DEF ProcessKey, Hex
  <2>2. n \in ProcessNodes
    BY <2>1 DEF ProcessNodes
  <2>3. n.exit = None /\ (n.args # None => n.args = n.image)
    BY <2>1, <2>2 DEF IInv, NodesAreTrue
  <2> DEFINE x == <<n.key[2][1], n.key[2][2], n.image>>
             y == <<p.token.pid, p.token.version, p.image>>
  <2>4. x \in Instances /\ y \in Instances
    BY <2>2 DEF Instances
  <2>5. x[1] = y[1] /\ x[2] = y[2] /\ x[3] = n.image /\ y[3] = p.image
    BY <2>1
  <2> HIDE DEF x, y
  <2>6. n.image = p.image
    BY <2>4, <2>5 DEF IInv, OneImage
  <2> QED
    BY <2>3, <2>6
<1> QED
  BY <1>1, Invariant, PTL
=============================================================================
