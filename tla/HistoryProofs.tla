---------------------------- MODULE HistoryProofs ----------------------------
(***************************************************************************)
(* What can be found out from the graph about processes and files: where a *)
(* process comes from, and where a file has gone, after any operations of  *)
(* any number of processes.                                                *)
(***************************************************************************)
EXTENDS CollectorProofs

-----------------------------------------------------------------------------
(* Edges. *)

\* An edge is of an operation of the past.
LEMMA EdgesArePast ==
    ASSUME IInv, NEW x \in EventEdges
    PROVE  x.time \in 1 .. Len(ops) /\ Len(ops) \in Nat
<1>1. PICK i \in DOMAIN events : \E edge \in ToSet(events[i].edges) :
          x = [time |-> events[i].time, edge |-> edge]
  BY DEF EventEdges
<1>2. x.time \in DOMAIN ops
  BY <1>1 DEF IInv, EventsOfOperations
<1>3. DOMAIN ops = 1 .. Len(ops) /\ Len(ops) \in Nat
  BY LenProperties DEF IInv, MachineTypes, IsSequence
<1> QED
  BY <1>2, <1>3

\* An operation adds its edge, if it is reported.
LEMMA EdgesOfDeed ==
    ASSUME IInv, NEW m, Deed(m)
    PROVE  IF m.type \in types /\ Decodes(m)
           THEN \E edge : /\ EdgeAbout(edge, m)
                          /\ EventEdges' = EventEdges \cup {[time |-> Now, edge |-> edge]}
           ELSE EventEdges' = EventEdges
<1> DEFINE of(i) == {[time |-> events[i].time, edge |-> edge] : edge \in ToSet(events[i].edges)}
<1>1. EventEdges = UNION {of(i) : i \in DOMAIN events}
  BY DEF EventEdges
<1>2. EventEdges' = UNION {of(i)' : i \in DOMAIN events'}
  BY DEF EventEdges
<1>3. CASE m.type \in types /\ Decodes(m)
  <2>1. PICK e : /\ events' = Append(events, e) /\ e.time = m.time
                 /\ \E edge : e.edges = <<edge>> /\ EdgeAbout(edge, m)
    BY <1>3 DEF Deed, Tells
  <2>2. PICK edge : e.edges = <<edge>> /\ EdgeAbout(edge, m)
    BY <2>1
  <2>3. ToSet(e.edges) = {edge} /\ e.time = Now
    BY <2>1, <2>2, OneElement DEF Deed
  <2>4. /\ DOMAIN events' = DOMAIN events \cup {Len(events) + 1}
        /\ \A i \in DOMAIN events : events'[i] = events[i]
        /\ events'[Len(events) + 1] = e
    BY <2>1, AddedLast DEF IInv, MachineTypes
  <2>5. \A i \in DOMAIN events : of(i)' = of(i)
    BY <2>4
  <2>6. ASSUME NEW k, k = Len(events) + 1
        PROVE  of(k)' = {[time |-> Now, edge |-> edge]}
    BY <2>3, <2>4, <2>6
  <2> HIDE DEF of
  <2>7. EventEdges' = EventEdges \cup {[time |-> Now, edge |-> edge]}
    BY <1>1, <1>2, <2>4, <2>5, <2>6
  <2> QED
    BY <1>3, <2>2, <2>7
<1>4. CASE ~(m.type \in types /\ Decodes(m))
  BY <1>4 DEF Deed, Tells, EventEdges
<1> QED
  BY <1>3, <1>4

\* Fork, exec and rename always have what it takes.
LEMMA AlwaysDecodes ==
    ASSUME NEW m, Deed(m), m.type \in {"NOTIFY_FORK", "NOTIFY_EXEC", "NOTIFY_RENAME"}
    PROVE  Decodes(m)
BY DEF Deed, Shown, EventNameOf

-----------------------------------------------------------------------------
(* Where a process comes from. *)

LineageInv ==
    /\ ops = << >> => \E p \in Live : Live = {p}
    /\ LineageIsConnected

\* What is known stays known.
LEMMA KnownStays ==
    ASSUME IInv, NEW m, Deed(m), ops # << >>, NEW t
    PROVE  Known(t) \subseteq Known(t)'
<1>1. /\ DOMAIN ops' = DOMAIN ops \cup {Now} /\ ops'[Now] = m
      /\ \A u \in DOMAIN ops : ops'[u] = ops[u]
  BY OpsOfDeed DEF IInv
<1>2. 1 \in DOMAIN ops
  BY LenProperties, EmptySeq DEF IInv, MachineTypes, IsSequence
<1>3. ops'[1] = ops[1]
  BY <1>1, <1>2
<1>4. EventEdges \subseteq EventEdges'
  BY EdgesOfDeed
<1>5. Births \subseteq Births'
  BY <1>4 DEF Births
<1>6. \A u \in DOMAIN ops : NewUser(ops'[u]) = NewUser(ops[u])
  BY <1>1
<1>7. {NewUser(ops[u]) : u \in {v \in DOMAIN ops : v < t /\ ops[v].type = "SETUID"}} \subseteq
      {NewUser(ops'[u]) : u \in {v \in DOMAIN ops' : v < t /\ ops'[v].type = "SETUID"}}
  BY <1>1, <1>6
<1>8. {x.edge.dst : x \in {y \in Births : y.time < t}} \subseteq
      {x.edge.dst : x \in {y \in Births' : y.time < t}}
  BY <1>5
<1>9. /\ Known(t) = {ProcessKey(ops[1].instigator)} \cup
            {NewUser(ops[u]) : u \in {v \in DOMAIN ops : v < t /\ ops[v].type = "SETUID"}} \cup
            {x.edge.dst : x \in {y \in Births : y.time < t}}
      /\ Known(t)' = {ProcessKey(ops'[1].instigator)} \cup
            {NewUser(ops'[u]) : u \in {v \in DOMAIN ops' : v < t /\ ops'[v].type = "SETUID"}} \cup
            {x.edge.dst : x \in {y \in Births' : y.time < t}}
  BY DEF Known, ProcessKey, NewUser
<1> HIDE DEF Births, Known
<1> QED
  BY <1>3, <1>7, <1>8, <1>9

\* After an operation: who lived before it is known when it happens, and the
\* other ends of its edge, or the user it changed to, afterwards.
LEMMA LineageNext ==
    ASSUME IInv, LineageInv, NEW m, Deed(m), {"NOTIFY_FORK", "NOTIFY_EXEC"} \subseteq types
    PROVE  LineageIsConnected'
<1>1. /\ DOMAIN ops' = DOMAIN ops \cup {Now} /\ ops'[Now] = m
      /\ \A u \in DOMAIN ops : ops'[u] = ops[u]
      /\ Len(ops) \in Nat /\ Len(ops') = Now /\ Now = Len(ops) + 1
  BY OpsOfDeed DEF IInv
<1>2. Now \in Nat /\ Len(ops') + 1 = Now + 1 /\ Now < Now + 1
  BY <1>1
<1>3. Now' = Now + 1
  BY <1>2 DEF Now
<1>4. DOMAIN ops = 1 .. Len(ops)
  BY LenProperties DEF IInv, MachineTypes, IsSequence
<1>5. types' = types
  BY DEF Deed, Happens, setupVars
<1>6. \A x \in EventEdges : x.time < Now /\ x.time < Now + 1
  BY <1>1, EdgesArePast
\* Known after the operation, at two times.
<1>7. ASSUME NEW t
      PROVE  /\ ProcessKey(ops'[1].instigator) \in Known(t)'
             /\ m.type = "SETUID" /\ Now < t => NewUser(m) \in Known(t)'
             /\ \A x \in Births' : x.time < t => x.edge.dst \in Known(t)'
  <2>1. Known(t)' = {ProcessKey(ops'[1].instigator)} \cup
            {NewUser(ops'[u]) : u \in {v \in DOMAIN ops' : v < t /\ ops'[v].type = "SETUID"}} \cup
            {x.edge.dst : x \in {y \in Births' : y.time < t}}
    BY DEF Known, ProcessKey, NewUser
  <2> HIDE DEF Known, Births
  <2>2. m.type = "SETUID" /\ Now < t => NewUser(m) \in Known(t)'
    BY <1>1, <2>1
  <2> QED
    BY <2>1, <2>2
<1>8. Births' = {x \in EventEdges' : x.edge.kind \in {"FORKED", "EXECUTED"}}
  BY DEF Births
\* Who lived is known at the time of the operation and after it.
<1>9. ASSUME NEW p \in Live, NEW t \in {Now, Now + 1}
      PROVE  ProcessKey(p) \in Known(t)'
  <2>1. CASE ops = << >>
    <3>1. DOMAIN ops = {} /\ Now = 1
      BY <1>1, <1>4, <2>1
    <3>2. ops'[1] = m
      BY <1>1, <3>1
    <3>3. m.instigator = p
      BY <2>1 DEF LineageInv, Deed
    <3> QED
      BY <1>7, <3>2, <3>3
  <2>2. CASE ops # << >>
    <3>1. ProcessKey(p) \in Known(Now)
      BY <2>2 DEF LineageInv, LineageIsConnected
    <3>2. Known(Now) \subseteq Known(Now + 1)
      <4>1. \A u \in DOMAIN ops : u < Now + 1
        BY <1>1, <1>4
      <4> QED
        BY <1>6, <4>1 DEF Known, Births
    <3> DEFINE T == Now + 1
    <3>3. \A u : Known(u) \subseteq Known(u)'
      BY <2>2, KnownStays
    <3> HIDE DEF Known
    <3> QED
      BY <3>1, <3>2, <3>3
  <2> QED
    BY <2>1, <2>2
<1>10. m.type \in {"NOTIFY_FORK", "NOTIFY_EXEC"} => m.type \in types /\ Decodes(m)
  BY AlwaysDecodes
<1>11. ASSUME NEW x \in Births'
       PROVE  x.edge.src \in Known(x.time)'
  <2>1. CASE x \in EventEdges
    <3>1. x \in Births /\ ops # << >>
      <4>1. x.time \in 1 .. Len(ops)
        BY <2>1, EdgesArePast
      <4> QED
        BY <1>1, <1>8, <2>1, <4>1, EmptySeq DEF Births
    <3>2. x.edge.src \in Known(x.time)
      BY <3>1 DEF LineageInv, LineageIsConnected
    <3> DEFINE t == x.time
    <3>3. Known(t) \subseteq Known(t)'
      BY <3>1, KnownStays
    <3> QED
      BY <3>2, <3>3
  <2>2. CASE x \notin EventEdges
    <3>1. PICK edge : /\ EdgeAbout(edge, m) /\ x = [time |-> Now, edge |-> edge]
      BY <1>8, <2>2, EdgesOfDeed
    <3>2. edge.kind \in {"FORKED", "EXECUTED"}
      BY <1>8, <3>1
    <3>3. x.edge.src = ProcessKey(m.instigator) /\ x.time = Now
      BY <3>1, <3>2 DEF EdgeAbout
    <3>4. m.instigator \in Live
      BY DEF Deed
    <3> QED
      BY <1>9, <3>3, <3>4
  <2> QED
    BY <2>1, <2>2
<1>12. ASSUME NEW p \in Live', NEW t, t = Now + 1
       PROVE  ProcessKey(p) \in Known(t)'
  <2>1. CASE p \in Live
    BY <1>9, <1>12, <2>1
  <2>2. CASE m.type = "SETUID" /\ ProcessKey(p) = NewUser(m)
    BY <1>2, <1>7, <1>12, <2>2
  <2>3. CASE m.type \in {"NOTIFY_FORK", "NOTIFY_EXEC"} /\ p = m.event.target
    <3>1. PICK edge : /\ EdgeAbout(edge, m)
                      /\ [time |-> Now, edge |-> edge] \in EventEdges'
      BY <1>10, <2>3, EdgesOfDeed
    <3>2. edge.kind \in {"FORKED", "EXECUTED"} /\ edge.dst = ProcessKey(p)
      BY <2>3, <3>1 DEF EdgeAbout
    <3>3. [time |-> Now, edge |-> edge] \in Births'
      BY <1>8, <3>1, <3>2
    <3> QED
      BY <1>2, <1>7, <1>12, <3>2, <3>3
  <2> QED
    BY <2>1, <2>2, <2>3 DEF Deed
<1>13. LineageIsConnected' <=>
         ({"NOTIFY_FORK", "NOTIFY_EXEC"} \subseteq types' /\ ops' # << >> =>
             /\ \A x \in Births' : x.edge.src \in Known(x.time)'
             /\ \A p \in Live' : ProcessKey(p) \in Known(Now)')
  BY DEF LineageIsConnected, ProcessKey
<1> QED
  BY <1>3, <1>11, <1>12, <1>13

-----------------------------------------------------------------------------
(* Where a file has gone. *)

Paths == {Path(name) : name \in Name}

FilesInv ==
    /\ \A path \in DOMAIN files : files[path] \in 1 .. Len(ops)
    /\ FilesCanBeFollowed

\* The renames of path by the next operation, and where they say that it goes.
NewMoves(path) ==
    {x \in EventEdges' :
        x.time = Now /\ x.edge.kind = "RENAMED" /\ x.edge.dst = <<"file", path>>}
Goes(path, to) ==
    IF NewMoves(path) = {} THEN to = path ELSE \A x \in NewMoves(path) : to = x.edge.metadata

\* One more operation: the file goes where the renames of that time say.
LEMMA OneMoreMove ==
    ASSUME IInv, NEW m, Deed(m), NEW t \in 1 .. Len(ops), NEW start,
           NEW at \in [t .. Len(ops) -> Paths], FollowsMoves(at, t, start),
           NEW to \in Paths, Goes(at[Len(ops)], to)
    PROVE  \E bt \in [t .. Len(ops') -> Paths] :
               FollowsMoves(bt, t, start)' /\ bt[Len(ops')] = to
<1> PICK now : now = Now
  OBVIOUS
<1>1. Len(ops) \in Nat /\ Len(ops') = now /\ now = Len(ops) + 1 /\ t \in Nat
  BY OpsOfDeed DEF IInv
<1> DEFINE bt == [u \in t .. now |-> IF u = now THEN to ELSE at[u]]
<1>2. bt \in [t .. Len(ops') -> Paths]
  <2>1. \A u \in t .. now : u # now => u \in t .. Len(ops)
    BY <1>1
  <2> QED
    BY <1>1, <2>1
<1>3. /\ bt[now] = to /\ now \in t .. now
      /\ \A u \in t .. Len(ops) : bt[u] = at[u]
  BY <1>1
<1> HIDE DEF bt
<1>4. bt[t] = start
  BY <1>1, <1>3 DEF FollowsMoves
<1> DEFINE moves(u, path) == {x \in EventEdges' : /\ x.time = u /\ x.edge.kind = "RENAMED"
                                                  /\ x.edge.dst = <<"file", path>>}
<1>5. ASSUME NEW u \in 1 .. Len(ops), NEW path
      PROVE  moves(u, path) = Moves(u, path)
  <2>1. u # now
    BY <1>1
  <2>2. \A x \in EventEdges' : x.time = u => x \in EventEdges
    BY <2>1, EdgesOfDeed
  <2>3. EventEdges \subseteq EventEdges'
    BY EdgesOfDeed
  <2> QED
    BY <2>2, <2>3 DEF Moves
<1>6. moves(now, at[Len(ops)]) = NewMoves(at[Len(ops)])
  BY DEF NewMoves
<1> HIDE DEF moves
<1>7. ASSUME NEW u \in t + 1 .. now
      PROVE  IF moves(u, bt[u - 1]) = {} THEN bt[u] = bt[u - 1]
             ELSE \A x \in moves(u, bt[u - 1]) : bt[u] = x.edge.metadata
  <2>1. CASE u = now
    <3>1. u - 1 = Len(ops) /\ Len(ops) \in t .. Len(ops)
      BY <1>1, <2>1
    <3>2. bt[u - 1] = at[Len(ops)]
      BY <1>3, <3>1
    <3> QED
      BY <1>3, <1>6, <2>1, <3>2 DEF Goes
  <2>2. CASE u # now
    <3>1. /\ u \in t + 1 .. Len(ops) /\ u \in 1 .. Len(ops)
          /\ u \in t .. Len(ops) /\ u - 1 \in t .. Len(ops)
      BY <1>1, <2>2
    <3>2. bt[u] = at[u] /\ bt[u - 1] = at[u - 1]
      BY <1>3, <3>1
    <3>3. IF Moves(u, at[u - 1]) = {} THEN at[u] = at[u - 1]
          ELSE \A x \in Moves(u, at[u - 1]) : at[u] = x.edge.metadata
      BY <3>1 DEF FollowsMoves
    <3>4. moves(u, at[u - 1]) = Moves(u, at[u - 1])
      BY <1>5, <3>1
    <3> QED
      BY <3>2, <3>3, <3>4
  <2> QED
    BY <2>1, <2>2
<1>8. FollowsMoves(bt, t, start)'
  <2>1. \A u, path : Moves(u, path)' = moves(u, path)
    BY DEF Moves, moves
  <2>2. FollowsMoves(bt, t, start)' <=>
          /\ bt[t] = start
          /\ \A u \in t + 1 .. Len(ops') :
                 IF Moves(u, bt[u - 1])' = {} THEN bt[u] = bt[u - 1]
                 ELSE \A x \in Moves(u, bt[u - 1])' : bt[u] = x.edge.metadata
    BY DEF FollowsMoves
  <2> QED
    BY <1>1, <1>4, <1>7, <2>1, <2>2
<1>9. bt[Len(ops')] = to
  BY <1>1, <1>3
<1> QED
  BY <1>2, <1>8, <1>9

\* Every file is followed one operation further: the one that is renamed to
\* its new name, and all others to the name they keep.
LEMMA FilesNext ==
    ASSUME IInv, FilesInv, NEW m, Deed(m), ProcsTypes', FilesTypes'
    PROVE  FilesInv'
<1>1. Len(ops) \in Nat /\ Len(ops') = Now /\ Now = Len(ops) + 1
  BY OpsOfDeed DEF IInv
<1>2. PICK now : now = Now
  OBVIOUS
<1>3. types' = types /\ DOMAIN files \subseteq Paths
  BY DEF Deed, Happens, setupVars, IInv, MachineTypes, Paths
<1>4. \A x \in EventEdges : x.time # now
  BY <1>1, <1>2, EdgesArePast
\* The new edge.
<1>5. ASSUME NEW x \in EventEdges', x \notin EventEdges
      PROVE  EdgeAbout(x.edge, m) /\ x.time = now /\ m.type \in types /\ Decodes(m)
  BY <1>2, <1>5, EdgesOfDeed
\* A file that was there, and stays or goes to the name to.
<1>6. ASSUME {"NOTIFY_CREATE", "NOTIFY_RENAME"} \subseteq types,
             NEW path \in DOMAIN files, NEW to \in Paths,
             IF m.type = "NOTIFY_RENAME" /\ path = m.event.source.path
             THEN to = RenameDestPath(m.event.destination) ELSE to = path,
             NEW x \in EventEdges', x.time = files[path], x.edge.kind = "CREATED"
      PROVE  \E bt \in [x.time .. Len(ops') -> Paths] :
                 FollowsMoves(bt, x.time, x.edge.dst[2])' /\ bt[Len(ops')] = to
  <2>1. x.time \in 1 .. Len(ops)
    BY <1>6 DEF FilesInv
  <2>2. x \in EventEdges
    BY <1>1, <1>2, <1>5, <2>1
  <2>3. PICK at \in [x.time .. Len(ops) -> Paths] :
            FollowsMoves(at, x.time, x.edge.dst[2]) /\ at[Len(ops)] = path
    BY <1>6, <2>2 DEF FilesInv, FilesCanBeFollowed, Paths
  <2> DEFINE M == NewMoves(path)
  <2>4. \A y \in M : /\ m.type = "NOTIFY_RENAME" /\ path = m.event.source.path
                     /\ y.edge.metadata = RenameDestPath(m.event.destination)
    <3> TAKE y \in M
    <3>1. EdgeAbout(y.edge, m)
      BY <1>2, <1>4, <1>5 DEF NewMoves
    <3>2. \A a, b : <<"file", a>> = <<"file", b>> => a = b
      OBVIOUS
    <3> QED
      BY <3>1, <3>2 DEF EdgeAbout, NewMoves
  <2>5. m.type = "NOTIFY_RENAME" /\ path = m.event.source.path => M # {}
    <3>1. SUFFICES ASSUME m.type = "NOTIFY_RENAME", path = m.event.source.path
                   PROVE  M # {}
      OBVIOUS
    <3>2. PICK edge : /\ EdgeAbout(edge, m)
                      /\ EventEdges' = EventEdges \cup {[time |-> now, edge |-> edge]}
      BY <1>2, <1>6, <3>1, AlwaysDecodes, EdgesOfDeed
    <3>3. [time |-> now, edge |-> edge] \in M
      BY <1>2, <3>1, <3>2 DEF EdgeAbout, NewMoves
    <3> QED
      BY <3>3
  <2>6. Goes(at[Len(ops)], to)
    BY <1>6, <2>3, <2>4, <2>5 DEF Goes
  <2>7. /\ at \in [x.time .. Len(ops) -> Paths]
        /\ FollowsMoves(at, x.time, x.edge.dst[2])
    BY <2>3
  <2> QED
    BY <1>6, <2>1, <2>6, <2>7, OneMoreMove
<1> DEFINE Found(path) ==
        \A x \in EventEdges' : x.time = files'[path] /\ x.edge.kind = "CREATED" =>
            \E bt \in [x.time .. Len(ops') -> Paths] :
                FollowsMoves(bt, x.time, x.edge.dst[2])' /\ bt[Len(ops')] = path
<1>7. CASE m.type = "NOTIFY_CREATE"
  <2>1. PICK new \in Paths : /\ files' = Put(files, new, Now)
                             /\ Shown(m) => DestinationPath(m.event.destination) = new
    BY <1>7 DEF Deed, FilesMoved, Paths
  <2>2. /\ DOMAIN files' = DOMAIN files \cup {new} /\ files'[new] = now
        /\ \A path \in DOMAIN files \ {new} : files'[path] = files[path]
    BY <1>2, <2>1 DEF Put
  <2>3. ASSUME {"NOTIFY_CREATE", "NOTIFY_RENAME"} \subseteq types,
               NEW x \in EventEdges', x.time = now
        PROVE  \E bt \in [x.time .. Len(ops') -> Paths] :
                   FollowsMoves(bt, x.time, x.edge.dst[2])' /\ bt[Len(ops')] = new
    <3>1. x.edge.dst = <<"file", new>>
      <4>1. EdgeAbout(x.edge, m) /\ Decodes(m)
        BY <1>4, <1>5, <2>3
      <4>2. Shown(m)
        BY <1>7, <4>1 DEF Deed, EventNameOf
      <4>3. DestinationPath(m.event.destination) = new
        BY <2>1, <4>2
      <4> QED
        BY <1>7, <4>1, <4>3 DEF EdgeAbout
    <3> DEFINE bt == [u \in now .. now |-> new]
    <3>2. now .. Len(ops') = {now} /\ now + 1 .. Len(ops') = {} /\ now \in now .. now
      BY <1>1, <1>2
    <3>3. bt \in [now .. Len(ops') -> Paths] /\ bt[now] = new
      BY <1>1, <1>2, <3>2
    <3> HIDE DEF bt
    <3>4. FollowsMoves(bt, now, new)' <=>
            /\ bt[now] = new
            /\ \A u \in now + 1 .. Len(ops') :
                   IF Moves(u, bt[u - 1])' = {} THEN bt[u] = bt[u - 1]
                   ELSE \A y \in Moves(u, bt[u - 1])' : bt[u] = y.edge.metadata
      BY DEF FollowsMoves
    <3>5. FollowsMoves(bt, now, new)'
      BY <3>2, <3>3, <3>4
    <3> QED
      BY <1>1, <1>2, <2>3, <3>1, <3>3, <3>5
  <2>4. ASSUME {"NOTIFY_CREATE", "NOTIFY_RENAME"} \subseteq types, NEW path \in DOMAIN files'
        PROVE  Found(path)
    <3>1. CASE path = new
      BY <2>2, <2>3, <2>4, <3>1
    <3>2. CASE path # new
      BY <1>3, <1>6, <1>7, <2>2, <2>4, <3>2
    <3> QED
      BY <3>1, <3>2
  <2>5. \A path \in DOMAIN files' : files'[path] \in 1 .. Len(ops')
    BY <1>1, <1>2, <2>2 DEF FilesInv
  <2> HIDE DEF Found
  <2> QED
    BY <1>3, <2>4, <2>5 DEF FilesInv, FilesCanBeFollowed, Found, Paths
<1>8. CASE m.type = "NOTIFY_RENAME"
  <2> DEFINE from == m.event.source.path
  <2>1. PICK dest \in Paths :
            /\ from \in DOMAIN files /\ dest # from
            /\ RenameDestPath(m.event.destination) = dest
            /\ files' = [f \in (DOMAIN files \ {from}) \cup {dest} |->
                             IF f = dest THEN files[from] ELSE files[f]]
    BY <1>8 DEF Deed, FilesMoved, Paths
  <2>2. ASSUME {"NOTIFY_CREATE", "NOTIFY_RENAME"} \subseteq types, NEW path \in DOMAIN files'
        PROVE  Found(path)
    <3>1. CASE path = dest
      BY <1>6, <1>8, <2>1, <2>2, <3>1
    <3>2. CASE path # dest
      <4>1. path \in DOMAIN files /\ path # from /\ files'[path] = files[path] /\ path \in Paths
        BY <1>3, <2>1, <2>2, <3>2
      <4> QED
        BY <1>6, <2>2, <4>1
    <3> QED
      BY <3>1, <3>2
  <2>3. \A path \in DOMAIN files' : files'[path] \in 1 .. Len(ops')
    BY <1>1, <2>1 DEF FilesInv
  <2> HIDE DEF Found
  <2> QED
    BY <1>3, <2>2, <2>3 DEF FilesInv, FilesCanBeFollowed, Found, Paths
<1>9. CASE m.type \notin {"NOTIFY_CREATE", "NOTIFY_RENAME"}
  <2>1. \A path \in DOMAIN files' : path \in DOMAIN files /\ files'[path] = files[path]
    BY <1>9 DEF Deed, FilesMoved
  <2>2. ASSUME {"NOTIFY_CREATE", "NOTIFY_RENAME"} \subseteq types, NEW path \in DOMAIN files'
        PROVE  Found(path)
    BY <1>3, <1>6, <1>9, <2>1, <2>2
  <2>3. \A path \in DOMAIN files' : files'[path] \in 1 .. Len(ops')
    BY <1>1, <2>1 DEF FilesInv
  <2> HIDE DEF Found
  <2> QED
    BY <1>3, <2>2, <2>3 DEF FilesInv, FilesCanBeFollowed, Found, Paths
<1> QED
  BY <1>7, <1>8, <1>9

-----------------------------------------------------------------------------
(* The theorems. *)

HistoryInv == LineageInv /\ FilesInv

\* The machine boots with one process and no file of which the graph could tell.
LEMMA HistoryInit == Init => HistoryInv
<1> SUFFICES ASSUME Init PROVE HistoryInv
  OBVIOUS
<1>1. PICK pid \in Pid, uid \in User : procs = [p \in {pid} |-> Process(pid, 0, uid, 0)]
  BY DEF Init
<1>2. ops = << >> /\ events = << >> /\ files = << >>
  BY DEF Init
<1>3. DOMAIN procs = {pid}
  BY <1>1
<1>4. Live = {procs[pid]}
  BY <1>3 DEF Live
<1>5. LineageInv
  BY <1>2, <1>4 DEF LineageInv, LineageIsConnected
<1>6. DOMAIN files = {}
  BY <1>2
<1>7. FilesInv
  BY <1>6 DEF FilesInv, FilesCanBeFollowed
<1> QED
  BY <1>5, <1>7 DEF HistoryInv

\* The setup tells nothing: while it lasts there are no events.
LEMMA HistoryOfSetup ==
    ASSUME IInv, HistoryInv, [SetupNext]_setupVars, UNCHANGED machineVars
    PROVE  HistoryInv'
<1>1. procs' = procs /\ files' = files /\ ops' = ops /\ events' = events
  BY DEF machineVars
<1>2. phase = "active" => types' = types
  BY DEF SetupNext, LoadConfig, ResolveName, CreateClient, ChooseMutes, MutePath, Subscribe,
         WriterOpensStore, setupVars
<1>3. EventEdges' = EventEdges /\ Live' = Live /\ Now' = Now
  BY <1>1 DEF EventEdges, Live, Now
<1>4. phase # "active" => ops = << >> /\ EventEdges = {}
  BY NoElements DEF IInv, EventsOfOperations, EventEdges
<1>5. Births' = Births
  BY <1>3 DEF Births
<1>6. \A t : Known(t)' = Known(t)
  BY <1>1, <1>5 DEF Known, NewUser, ProcessKey
<1>7. LineageInv'
  <2>1. ops' = << >> => \E p \in Live' : Live' = {p}
    BY <1>1, <1>3 DEF HistoryInv, LineageInv
  <2>2. LineageIsConnected'
    <3>1. LineageIsConnected' <=>
            ({"NOTIFY_FORK", "NOTIFY_EXEC"} \subseteq types' /\ ops' # << >> =>
                /\ \A x \in Births' : x.edge.src \in Known(x.time)'
                /\ \A p \in Live' : ProcessKey(p) \in Known(Now)')
      BY DEF LineageIsConnected, ProcessKey
    <3>2. Known(Now)' = Known(Now)
      BY <1>1, <1>3, <1>5 DEF Known, NewUser, ProcessKey
    <3>3. CASE phase # "active"
      BY <1>1, <1>4, <3>1, <3>3
    <3>4. CASE phase = "active"
      <4> HIDE DEF Known
      <4> QED
        BY <1>2, <1>1, <1>3, <1>5, <1>6, <3>1, <3>2, <3>4
           DEF HistoryInv, LineageInv, LineageIsConnected
    <3> QED
      BY <3>3, <3>4
  <2> QED
    BY <2>1, <2>2 DEF LineageInv
<1>8. FilesInv'
  <2>1. CASE phase # "active"
    BY <1>1, <1>3, <1>4, <2>1 DEF HistoryInv, FilesInv, FilesCanBeFollowed
  <2>2. CASE phase = "active"
    <3>1. \A u, path : Moves(u, path)' = Moves(u, path)
      BY <1>3 DEF Moves
    <3>2. \A at, t, path : FollowsMoves(at, t, path)' <=> FollowsMoves(at, t, path)
      BY <1>1, <3>1 DEF FollowsMoves
    <3> QED
      BY <1>1, <1>2, <1>3, <2>2, <3>2 DEF HistoryInv, FilesInv, FilesCanBeFollowed
  <2> QED
    BY <2>1, <2>2
<1> QED
  BY <1>7, <1>8 DEF HistoryInv

LEMMA HistoryNext ==
    ASSUME IInv, HistoryInv, [Next]_vars
    PROVE  HistoryInv'
<1>1. CASE MachineNext
  <2>1. (\E m : Deed(m)) /\ ProcsTypes' /\ FilesTypes'
    BY <1>1, MachineDeed DEF IInv
  <2>2. PICK m : Deed(m)
    BY <2>1
  <2>3. FilesInv'
    BY <2>1, <2>2, FilesNext DEF HistoryInv
  <2>4. types' = types
    BY <2>2 DEF Deed, Happens, setupVars
  <2>5. LineageIsConnected'
    <3>1. CASE {"NOTIFY_FORK", "NOTIFY_EXEC"} \subseteq types
      BY <2>2, <3>1, LineageNext DEF HistoryInv
    <3>2. CASE ~({"NOTIFY_FORK", "NOTIFY_EXEC"} \subseteq types)
      BY <2>4, <3>2 DEF LineageIsConnected
    <3> QED
      BY <3>1, <3>2
  <2>6. ops' # << >>
    <3>1. DOMAIN ops' # {}
      BY <2>2, OpsOfDeed DEF IInv
    <3> QED
      BY <3>1
  <2> QED
    BY <2>3, <2>5, <2>6 DEF HistoryInv, LineageInv
<1>2. CASE SetupNext /\ UNCHANGED machineVars
  BY <1>2, HistoryOfSetup
<1>3. CASE UNCHANGED vars
  <2>1. UNCHANGED setupVars /\ UNCHANGED machineVars
    BY <1>3 DEF vars
  <2> QED
    BY <2>1, HistoryOfSetup
<1> QED
  BY <1>1, <1>2, <1>3 DEF Next

\* The history is known in full, whatever processes do.
THEOREM History == Spec => []HistoryInv
<1>1. IInv /\ HistoryInv /\ [Next]_vars => HistoryInv'
  BY HistoryNext
<1> QED
  BY <1>1, HistoryInit, Invariant, PTL DEF Spec

\* Every process that lives descends, over edges of the graph in the order of
\* time, from the first one or from one that changed its user.
THEOREM Lineage == Spec => []LineageIsConnected
<1>1. HistoryInv => LineageIsConnected
  BY DEF HistoryInv, LineageInv
<1> QED
  BY <1>1, History, PTL

\* A file of which the graph has the creation is found where it is now, through
\* any number of renames.
THEOREM FilesFollowed == Spec => []FilesCanBeFollowed
<1>1. HistoryInv => FilesCanBeFollowed
  BY DEF HistoryInv, FilesInv
<1> QED
  BY <1>1, History, PTL
=============================================================================
