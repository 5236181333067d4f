----------------------------- MODULE GraphStore -----------------------------
(***************************************************************************)
(* The graph store (esgraph-store): a LadybugDB file that one command at a *)
(* time opens, and the batches "run" and "replay" ingest into it.          *)
(*                                                                         *)
(* A batch is one query string of many Cypher statements.  No transaction  *)
(* is opened around them, so each takes effect by itself and a failure or  *)
(* a kill in between leaves the ones before it in the file (LadybugDB is   *)
(* external; this is what the code asks of it).  The file survives; the    *)
(* handle with its id counter does not.                                    *)
(*                                                                         *)
(* Data: a node is known by its label and id, and of its properties the    *)
(* three with different rules are kept: the time it was last seen (always  *)
(* set), args_json and exit_status (set only by an event that has them).   *)
(***************************************************************************)
EXTENDS Integers, Sequences, FiniteSets

CONSTANTS
    Event,      \* the normalised events, see EventAssumption
    Role,       \* the commands that open the store
    None,       \* an Option that is None
    NoToken,    \* the empty audit_token_hex
    I64Max,     \* the largest id an IngestEvent row can have (i64::MAX)
    MaxBatch,   \* bound: events in a batch
    MaxId,      \* bound: ids handed out
    Faults      \* the failures the environment may cause

AllRoles == {"run", "replay", "query", "status"}
AllFaults == {"ddl", "query", "kill"}
Label == {"process", "file", "socket"}

\* An event: its time, its nodes, and its edges between (label, id) pairs.
IsEvent(e) ==
    /\ e.time \in Nat
    /\ \A i \in DOMAIN e.nodes : e.nodes[i].key[1] \in Label
    /\ \A i \in DOMAIN e.edges :
           e.edges[i].src[1] \in Label /\ e.edges[i].dst[1] \in Label

ASSUME EventAssumption ==
    \A e \in Event :
        /\ IsEvent(e)
        /\ Len(e.nodes) \in Nat /\ DOMAIN e.nodes = 1 .. Len(e.nodes)
        /\ Len(e.edges) \in Nat /\ DOMAIN e.edges = 1 .. Len(e.edges)

ASSUME StoreAssumption ==
    /\ Role \subseteq AllRoles
    /\ I64Max \in Nat \ {0}
    /\ MaxBatch \in Nat
    /\ MaxId \in Nat
    /\ Faults \subseteq AllFaults

VARIABLES
    tables,   \* durable: the tables that exist
    audit,    \* durable: the IngestEvent rows, id |-> event
    nodes,    \* durable: the nodes, key |-> properties
    edges,    \* durable: the relationships
    role,     \* the command that has the store open, or "none"
    nextId,   \* its next_ingest_id
    queue,    \* the events of the query in progress, with their ids
    at,       \* the statement of the first of them that is next
    stored    \* history: the events all of whose statements took effect

durable == <<tables, audit, nodes, edges>>
session == <<role, nextId, queue, at>>
vars == <<durable, session, stored>>

\* INIT_SCHEMA, by what the statements of a batch need.
Tables == {"IngestEvent", "nodes", "relationships"}

Init ==
    /\ tables = {}
    /\ audit = << >>
    /\ nodes = << >>
    /\ edges = {}
    /\ role = "none"
    /\ nextId = 1
    /\ queue = << >>
    /\ at = 1
    /\ stored = {}

-----------------------------------------------------------------------------
(* Opening and closing. *)

\* Slip: the counter continues at the largest id.
LargestIngestId ==
    IF DOMAIN audit = {} THEN 1
    ELSE CHOOSE n \in DOMAIN audit : \A m \in DOMAIN audit : m <= n

\* load_next_ingest_id: max(id) + 1, or 1 in an empty graph.
NextIngestId ==
    IF DOMAIN audit = {} THEN 1
    ELSE 1 + CHOOSE n \in DOMAIN audit : \A m \in DOMAIN audit : m <= n

\* GraphStore::open.  An error of a DDL statement is swallowed; the open fails
\* when the id query then finds no IngestEvent table.
Open(r) ==
    /\ role = "none"
    /\ \E made \in SUBSET (Tables \ tables) :
           /\ "ddl" \in Faults \/ made = Tables \ tables
           /\ tables' = tables \cup made
    /\ IF "IngestEvent" \in tables'
       THEN role' = r /\ nextId' = NextIngestId
       ELSE UNCHANGED <<role, nextId>>
    /\ UNCHANGED <<audit, nodes, edges, queue, at, stored>>

\* The handle is gone, and with it the counter and the query in progress.
HandleDropped ==
    /\ role' = "none"
    /\ nextId' = 1
    /\ queue' = << >>
    /\ at' = 1

\* The command is over and drops the store.
Close ==
    /\ role # "none"
    /\ queue = << >>
    /\ HandleDropped
    /\ UNCHANGED <<durable, stored>>

\* The process is killed.
Kill ==
    /\ "kill" \in Faults
    /\ role # "none"
    /\ HandleDropped
    /\ UNCHANGED <<durable, stored>>

-----------------------------------------------------------------------------
(* Ingest. *)

\* merge_process_stmt refuses a process without a token.
Valid(e) == \A i \in DOMAIN e.nodes : e.nodes[i].key # <<"process", NoToken>>

Batches == UNION {[1 .. n -> Event] : n \in 1 .. MaxBatch}

\* Slips: the id is taken after the increment; the counter stays where it is.
IngestStartsPreIncrement(b) ==
    /\ role \in {"run", "replay"}
    /\ queue = << >>
    /\ nextId + Len(b) <= MaxId + 1
    /\ \A i \in 1 .. Len(b) : Valid(b[i])
    /\ queue' = [i \in 1 .. Len(b) |-> [id |-> nextId + i, event |-> b[i]]]
    /\ at' = 1
    /\ nextId' = nextId + Len(b)
    /\ UNCHANGED <<durable, role, stored>>
IngestStartsSameIds(b) ==
    /\ role \in {"run", "replay"}
    /\ queue = << >>
    /\ nextId + Len(b) <= MaxId + 1
    /\ \A i \in 1 .. Len(b) : Valid(b[i])
    /\ queue' = [i \in 1 .. Len(b) |-> [id |-> nextId + i - 1, event |-> b[i]]]
    /\ at' = 1
    /\ UNCHANGED <<durable, role, nextId, stored>>

\* ingest_batch builds the statements of every event, each with the next id.
IngestStarts(b) ==
    /\ role \in {"run", "replay"}
    /\ queue = << >>
    /\ nextId + Len(b) <= MaxId + 1
    /\ \A i \in 1 .. Len(b) : Valid(b[i])
    /\ queue' = [i \in 1 .. Len(b) |-> [id |-> nextId + i - 1, event |-> b[i]]]
    /\ at' = 1
    /\ nextId' = nextId + Len(b)
    /\ UNCHANGED <<durable, role, stored>>

\* One invalid event refuses the batch before a statement runs.  Both callers
\* give up the store, and with it the ids that were spent.
IngestRefused(b) ==
    /\ role \in {"run", "replay"}
    /\ queue = << >>
    /\ nextId + Len(b) <= MaxId + 1
    /\ \E i \in 1 .. Len(b) : ~Valid(b[i])
    /\ HandleDropped
    /\ UNCHANGED <<durable, stored>>

\* Slip: ingest_id as i64.
RowIdCast(id) == IF id <= I64Max THEN id ELSE id - 2 * (I64Max + 1)

\* i64::try_from(ingest_id).unwrap_or(i64::MAX).
RowId(id) == IF id <= I64Max THEN id ELSE I64Max

\* The properties of a node before anything set them.
Stub == [seen |-> None, args |-> None, exit |-> None]

Props(key) == IF key \in DOMAIN nodes THEN nodes[key] ELSE Stub

\* The function f with x mapped to y.
Put(f, x, y) == [z \in DOMAIN f \cup {x} |-> IF z = x THEN y ELSE f[z]]

\* Slip: every property is assigned, NULL where the event has none.
MergeAssigningAll(node, time) ==
    nodes' = Put(nodes, node.key,
                 [seen |-> time, args |-> node.args, exit |-> node.exit])

\* MERGE of a node of the event: what it does not carry keeps its value.
MergeNode(node, time) ==
    nodes' = Put(nodes, node.key,
                 [seen |-> time,
                  args |-> IF node.args = None THEN Props(node.key).args ELSE node.args,
                  exit |-> IF node.exit = None THEN Props(node.key).exit ELSE node.exit])

\* Slip: the endpoints of an edge are taken to exist.
NoStub(key) == UNCHANGED nodes

\* MERGE of an endpoint of an edge, which sets nothing.
MergeStub(key) == nodes' = Put(nodes, key, Props(key))

\* MATCH of both endpoints, then CREATE: without a match nothing is created.
CreateEdge(edge, id) ==
    edges' = IF {edge.src, edge.dst} \subseteq DOMAIN nodes
             THEN edges \cup {[edge |-> edge, ingest |-> RowId(id)]}
             ELSE edges

\* The statements of an event: its IngestEvent row, its nodes, and for each
\* edge the two endpoints and the edge.
FirstOfEdges(e) == Len(e.nodes) + 2
EdgeOf(e, k) == e.edges[(k - FirstOfEdges(e)) \div 3 + 1]
EdgePart(e, k) == (k - FirstOfEdges(e)) % 3
Statements(e) == 1 + Len(e.nodes) + 3 * Len(e.edges)

TableOf(e, k) ==
    CASE k = 1 -> "IngestEvent"
      [] k >= FirstOfEdges(e) /\ EdgePart(e, k) = 2 -> "relationships"
      [] OTHER -> "nodes"

InsertRow(id, e) ==
    /\ at = 1
    /\ audit' = Put(audit, RowId(id), e)
    /\ UNCHANGED <<nodes, edges>>

MergeNodeOfEvent(e) ==
    /\ at \in 2 .. Len(e.nodes) + 1
    /\ MergeNode(e.nodes[at - 1], e.time)
    /\ UNCHANGED <<audit, edges>>

MergeEndpoint(e) ==
    /\ at \in FirstOfEdges(e) .. Statements(e)
    /\ EdgePart(e, at) < 2
    /\ MergeStub(IF EdgePart(e, at) = 0 THEN EdgeOf(e, at).src ELSE EdgeOf(e, at).dst)
    /\ UNCHANGED <<audit, edges>>

InsertEdge(id, e) ==
    /\ at \in FirstOfEdges(e) .. Statements(e)
    /\ EdgePart(e, at) = 2
    /\ CreateEdge(EdgeOf(e, at), id)
    /\ UNCHANGED <<audit, nodes>>

\* LadybugDB executes the next statement of the query; its table exists.
ExecuteStatement ==
    /\ queue # << >>
    /\ LET id == Head(queue).id
           e == Head(queue).event
       IN  /\ at <= Statements(e)
           /\ TableOf(e, at) \in tables
           /\ \/ InsertRow(id, e)
              \/ MergeNodeOfEvent(e)
              \/ MergeEndpoint(e)
              \/ InsertEdge(id, e)
    /\ at' = at + 1
    /\ UNCHANGED <<tables, role, nextId, queue, stored>>

\* The statements of an event are through; the next one is the following
\* event's.
NextEvent ==
    /\ Len(queue) > 1
    /\ at > Statements(Head(queue).event)
    /\ queue' = Tail(queue)
    /\ at' = 1
    /\ stored' = stored \cup {Head(queue)}
    /\ UNCHANGED <<durable, role, nextId>>

\* The last statement is through: ingest returns Ok.  "replay" is then over.
IngestReturns ==
    /\ Len(queue) = 1
    /\ at > Statements(Head(queue).event)
    /\ stored' = stored \cup {Head(queue)}
    /\ IF role = "replay"
       THEN HandleDropped
       ELSE queue' = << >> /\ at' = 1 /\ UNCHANGED <<role, nextId>>
    /\ UNCHANGED durable

\* A statement fails, as it must without its table: the query ends there,
\* ingest returns Err, and both callers give up the store.
StatementFails ==
    /\ queue # << >>
    /\ LET e == Head(queue).event
       IN  /\ at <= Statements(e)
           /\ "query" \in Faults \/ TableOf(e, at) \notin tables
    /\ HandleDropped
    /\ UNCHANGED <<durable, stored>>

Next ==
    \/ \E r \in Role : Open(r)
    \/ Close
    \/ Kill
    \/ \E b \in Batches : IngestStarts(b) \/ IngestRefused(b)
    \/ ExecuteStatement
    \/ NextEvent
    \/ IngestReturns
    \/ StatementFails

Spec == Init /\ [][Next]_vars

-----------------------------------------------------------------------------
TypeOK ==
    /\ tables \subseteq Tables
    /\ DOMAIN audit \subseteq 1 .. I64Max
    /\ \A id \in DOMAIN audit : audit[id] \in Event
    /\ \A k \in DOMAIN nodes : DOMAIN nodes[k] = {"seen", "args", "exit"}
    /\ \A x \in edges : x.ingest \in 1 .. I64Max
    /\ role \in Role \cup {"none"}
    /\ nextId \in Nat \ {0}
    /\ queue \in Seq([id : Nat \ {0}, event : Event])
    /\ at \in Nat \ {0}
    /\ \A s \in stored : s.id \in Nat \ {0} /\ s.event \in Event

(* Safety.  An id below I64Max belongs to one event for good; the row with the
   largest id is the only one that saturation of the counter can overwrite. *)

\* The ids of the rows have no gap and no row is overtaken: batches that were
\* refused, that failed or that a kill cut short leave no hole behind them.
IdsAreDense == DOMAIN audit = 1 .. Cardinality(DOMAIN audit)

Has(s, x) == \E i \in DOMAIN s : s[i] = x

\* Every relationship, even of a batch that was cut short, joins two nodes
\* that exist and belongs to the event its ingest_event_id names.
EdgesAreAudited ==
    \A x \in edges :
        /\ {x.edge.src, x.edge.dst} \subseteq DOMAIN nodes
        /\ x.ingest \in DOMAIN audit
        /\ x.ingest < I64Max => Has(audit[x.ingest].edges, x.edge)

\* Command lines and exit statuses are ones that an event in the graph
\* reported for that process.
PropertiesAreAudited ==
    I64Max \notin DOMAIN audit =>
        \A k \in DOMAIN nodes :
            /\ nodes[k].args = None \/
                   \E id \in DOMAIN audit : \E i \in DOMAIN audit[id].nodes :
                       /\ audit[id].nodes[i].key = k
                       /\ audit[id].nodes[i].args = nodes[k].args
            /\ nodes[k].exit = None \/
                   \E id \in DOMAIN audit : \E i \in DOMAIN audit[id].nodes :
                       /\ audit[id].nodes[i].key = k
                       /\ audit[id].nodes[i].exit = nodes[k].exit

\* An event counted as ingested is in the graph with everything it brought:
\* row, nodes, and each of its edges (no MATCH came back empty).
StoredIsComplete ==
    \A s \in stored :
        /\ RowId(s.id) \in DOMAIN audit
        /\ s.id < I64Max => audit[s.id] = s.event
        /\ \A i \in DOMAIN s.event.nodes : s.event.nodes[i].key \in DOMAIN nodes
        /\ \A i \in DOMAIN s.event.edges :
               [edge |-> s.event.edges[i], ingest |-> RowId(s.id)] \in edges

(* What a step may never do. *)

\* Nothing is ever removed: no row below the largest id changes, no node goes,
\* no property that was set becomes NULL, no relationship goes.
NothingForgotten ==
    [][/\ \A id \in DOMAIN audit :
              id < I64Max => id \in DOMAIN audit' /\ audit'[id] = audit[id]
       /\ \A k \in DOMAIN nodes :
              /\ k \in DOMAIN nodes'
              /\ nodes[k].args # None => nodes'[k].args # None
              /\ nodes[k].exit # None => nodes'[k].exit # None
       /\ edges \subseteq edges']_vars

=============================================================================
