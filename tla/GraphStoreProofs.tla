-------------------------- MODULE GraphStoreProofs --------------------------
(***************************************************************************)
(* Proofs about GraphStore, for every set of events, every largest id,     *)
(* batch size and number of ids, and every set of roles and faults.        *)
(*                                                                         *)
(* Between two statements the graph holds what the statements before gave  *)
(* it, and nothing says so but the position in the query: the inductive    *)
(* invariant ties the rows, the nodes and the edges of the event at the    *)
(* head of the queue to that position, and the ids still to come to the    *)
(* rows that are there.                                                    *)
(***************************************************************************)
EXTENDS GraphStore, SequenceTheorems, FiniteSetTheorems, TLAPS

\* The event whose statements are being executed, and its id.
HeadId == Head(queue).id
HeadEvent == Head(queue).event

\* The last id whose row was written by this command or an earlier one.
LastId ==
    IF queue = << >> THEN nextId - 1
    ELSE IF at = 1 THEN HeadId - 1
    ELSE HeadId

\* The rows are those of the ids up to some id, which a command that has the
\* store open knows.
RowsKnown ==
    /\ \E n \in 0 .. I64Max : DOMAIN audit = 1 .. n
    /\ role # "none" => DOMAIN audit = 1 .. RowId(LastId)

\* The queue holds the last ids that were handed out, in their order.
QueueIds ==
    /\ \A i \in 1 .. Len(queue) : queue[i].id = nextId - Len(queue) + i - 1
    /\ role = "none" => queue = << >>

\* What the statements of the event before the next one have done.
RowDone == at > 1 => audit[RowId(HeadId)] = HeadEvent

NodesDone ==
    \A i \in 1 .. Len(HeadEvent.nodes) :
        i + 1 < at => HeadEvent.nodes[i].key \in DOMAIN nodes

FirstOfEdge(e, i) == FirstOfEdges(e) + 3 * (i - 1)

EdgesDone ==
    \A i \in 1 .. Len(HeadEvent.edges) :
        /\ FirstOfEdge(HeadEvent, i) < at => HeadEvent.edges[i].src \in DOMAIN nodes
        /\ FirstOfEdge(HeadEvent, i) + 1 < at => HeadEvent.edges[i].dst \in DOMAIN nodes
        /\ FirstOfEdge(HeadEvent, i) + 2 < at =>
               [edge |-> HeadEvent.edges[i], ingest |-> RowId(HeadId)] \in edges

Executed ==
    queue # << >> =>
        /\ at <= Statements(HeadEvent) + 1
        /\ RowDone
        /\ NodesDone
        /\ EdgesDone

IInv ==
    /\ TypeOK
    /\ RowsKnown
    /\ QueueIds
    /\ Executed
    /\ EdgesAreAudited
    /\ PropertiesAreAudited
    /\ StoredIsComplete

-----------------------------------------------------------------------------
(* The operators of the model. *)

\* i64::try_from(id).unwrap_or(i64::MAX): a row id is never 0, never too large,
\* and the id itself unless that is.
LEMMA RowIdType ==
    ASSUME NEW id \in Nat
    PROVE  /\ RowId(id) \in 0 .. I64Max
           /\ id # 0 => RowId(id) \in 1 .. I64Max
           /\ RowId(id) < I64Max => RowId(id) = id
BY StoreAssumption DEF RowId

\* The rows up to an id, with the next one.
LEMMA RowIdNext ==
    ASSUME NEW id \in Nat \ {0}
    PROVE  /\ 1 .. RowId(id) = (1 .. RowId(id - 1)) \cup {RowId(id)}
           /\ \A r \in 1 .. RowId(id - 1) : r < I64Max => r # RowId(id)
BY StoreAssumption DEF RowId

\* The statements of an event.
LEMMA StatementNumbers ==
    ASSUME NEW e \in Event
    PROVE  /\ Len(e.nodes) \in Nat /\ DOMAIN e.nodes = 1 .. Len(e.nodes)
           /\ Len(e.edges) \in Nat /\ DOMAIN e.edges = 1 .. Len(e.edges)
           /\ FirstOfEdges(e) = Len(e.nodes) + 2
           /\ Statements(e) = FirstOfEdges(e) + 3 * Len(e.edges) - 1
           /\ FirstOfEdges(e) \in Nat /\ Statements(e) \in Nat
<1>1. /\ Len(e.nodes) \in Nat /\ DOMAIN e.nodes = 1 .. Len(e.nodes)
      /\ Len(e.edges) \in Nat /\ DOMAIN e.edges = 1 .. Len(e.edges)
  BY EventAssumption
<1>2. \A n, m \in Nat : /\ 1 + n + 3 * m = (n + 2) + 3 * m - 1
                        /\ n + 2 \in Nat /\ 1 + n + 3 * m \in Nat
  OBVIOUS
<1> QED
  BY <1>1, <1>2 DEF FirstOfEdges, Statements

\* They all come before the end of the event.
LEMMA StatementOrder ==
    ASSUME NEW e \in Event
    PROVE  /\ 1 <= Statements(e)
           /\ \A i \in 1 .. Len(e.nodes) : i + 1 <= Statements(e)
           /\ \A i \in 1 .. Len(e.edges) : FirstOfEdge(e, i) + 2 <= Statements(e)
<1>1. \A n, m \in Nat :
          /\ 1 <= (n + 2) + 3 * m - 1
          /\ \A i \in 1 .. n : i + 1 <= (n + 2) + 3 * m - 1
          /\ \A i \in 1 .. m : (n + 2) + 3 * (i - 1) + 2 <= (n + 2) + 3 * m - 1
  OBVIOUS
<1> QED
  BY <1>1, StatementNumbers DEF FirstOfEdge

LEMMA FirstOfEdgeType ==
    ASSUME NEW e \in Event, NEW i \in 1 .. Len(e.edges)
    PROVE  /\ FirstOfEdge(e, i) \in Nat
           /\ FirstOfEdge(e, i) >= FirstOfEdges(e)
<1>1. FirstOfEdges(e) \in Nat /\ i \in Nat /\ i >= 1
  BY StatementNumbers
<1> QED
  BY <1>1 DEF FirstOfEdge

\* Dividing by three finds the edge of a statement and its part.
LEMMA EdgeOfStatement ==
    ASSUME NEW e \in Event, NEW k \in FirstOfEdges(e) .. Statements(e)
    PROVE  \E i \in 1 .. Len(e.edges) :
               /\ EdgeOf(e, k) = e.edges[i]
               /\ EdgePart(e, k) \in 0 .. 2
               /\ k = FirstOfEdge(e, i) + EdgePart(e, k)
               /\ \A j \in 1 .. Len(e.edges) : \A p \in 0 .. 2 :
                      k = FirstOfEdge(e, j) + p => j = i /\ p = EdgePart(e, k)
<1> DEFINE f == FirstOfEdges(e)
           n == Len(e.edges)
           i == (k - f) \div 3 + 1
           p == (k - f) % 3
<1>1. f \in Nat /\ n \in Nat /\ k \in Nat /\ k >= f /\ k < f + 3 * n
  BY StatementNumbers
<1>2. /\ i \in 1 .. n /\ p \in 0 .. 2
      /\ k = (f + 3 * (i - 1)) + p
  <2> HIDE DEF f, n
  <2> QED
    BY <1>1
<1>3. \A j \in 1 .. n : \A q \in 0 .. 2 : k = (f + 3 * (j - 1)) + q => j = i /\ q = p
  <2> HIDE DEF f, n, i, p
  <2> QED
    BY <1>1, <1>2
<1> QED
  BY <1>2, <1>3 DEF EdgeOf, EdgePart, FirstOfEdge

-----------------------------------------------------------------------------
(* The queue. *)

LEMMA HeadFacts ==
    ASSUME TypeOK, queue # << >>
    PROVE  /\ Len(queue) \in Nat /\ Len(queue) >= 1
           /\ Head(queue) = queue[1]
           /\ Head(queue) \in [id : Nat \ {0}, event : Event]
           /\ HeadId \in Nat \ {0}
           /\ HeadEvent \in Event
<1>1. queue \in Seq([id : Nat \ {0}, event : Event])
  BY DEF TypeOK
<1>2. /\ Len(queue) \in Nat
      /\ queue = << >> <=> Len(queue) = 0
  BY <1>1, EmptySeq, LenProperties
<1>3. Head(queue) = queue[1] /\ Head(queue) \in [id : Nat \ {0}, event : Event]
  <2>1. queue[1] \in [id : Nat \ {0}, event : Event]
    <3>1. 1 \in 1 .. Len(queue)
      BY <1>2
    <3> QED
      BY <1>1, <3>1, ElementOfSeq
  <2> QED
    BY <1>1, <2>1, HeadTailProperties
<1> QED
  BY <1>2, <1>3 DEF HeadId, HeadEvent

\* The last id is a number, and the id of the head is the one after the last
\* row or the one of the last row.
LEMMA LastIdType ==
    ASSUME IInv
    PROVE  /\ LastId \in Nat
           /\ queue # << >> /\ at = 1 => HeadId = LastId + 1
           /\ queue # << >> /\ at # 1 => HeadId = LastId
BY HeadFacts DEF IInv, TypeOK, LastId

\* The row that an event gets is a new one, or the saturated one.
LEMMA RowIsNew ==
    ASSUME IInv, queue # << >>, at = 1
    PROVE  /\ RowId(HeadId) \in 1 .. I64Max
           /\ \A r \in DOMAIN audit : r < I64Max => r # RowId(HeadId)
           /\ DOMAIN audit \cup {RowId(HeadId)} = 1 .. RowId(HeadId)
<1>1. HeadId \in Nat \ {0} /\ LastId = HeadId - 1
  BY HeadFacts, LastIdType DEF IInv
<1>2. role # "none"
  BY DEF IInv, QueueIds
<1>3. DOMAIN audit = 1 .. RowId(HeadId - 1)
  BY <1>1, <1>2 DEF IInv, RowsKnown
<1> QED
  BY <1>1, <1>3, RowIdNext, RowIdType

\* Its row written, the head has it.
LEMMA RowIsThere ==
    ASSUME IInv, queue # << >>, at > 1
    PROVE  /\ RowId(HeadId) \in DOMAIN audit
           /\ RowId(HeadId) \in 1 .. I64Max
           /\ audit[RowId(HeadId)] = HeadEvent
           /\ RowId(HeadId) < I64Max => RowId(HeadId) = HeadId
<1>1. HeadId \in Nat \ {0} /\ LastId = HeadId
  BY HeadFacts, LastIdType DEF IInv, TypeOK
<1>2. role # "none"
  BY DEF IInv, QueueIds
<1>3. DOMAIN audit = 1 .. RowId(HeadId)
  BY <1>1, <1>2 DEF IInv, RowsKnown
<1>4. RowId(HeadId) \in 1 .. I64Max /\ (RowId(HeadId) < I64Max => RowId(HeadId) = HeadId)
  BY <1>1, RowIdType
<1> QED
  BY <1>3, <1>4 DEF IInv, Executed, RowDone

-----------------------------------------------------------------------------
(* The graph is not touched. *)

\* The parts of the invariant that speak of the graph alone.
Graph == EdgesAreAudited /\ PropertiesAreAudited

LEMMA GraphUnchanged ==
    ASSUME IInv, UNCHANGED <<audit, nodes, edges>>
    PROVE  Graph'
BY DEF IInv, Graph, EdgesAreAudited, PropertiesAreAudited, Has

\* What was stored stays complete, and the head joins it when its statements
\* are through.
LEMMA StoredUnchanged ==
    ASSUME IInv, UNCHANGED <<audit, nodes, edges, stored>>
    PROVE  StoredIsComplete'
BY DEF IInv, StoredIsComplete, RowId

LEMMA HeadIsComplete ==
    ASSUME IInv, queue # << >>, at > Statements(HeadEvent)
    PROVE  /\ RowId(HeadId) \in DOMAIN audit
           /\ HeadId < I64Max => audit[HeadId] = HeadEvent
           /\ \A i \in DOMAIN HeadEvent.nodes : HeadEvent.nodes[i].key \in DOMAIN nodes
           /\ \A i \in DOMAIN HeadEvent.edges :
                  [edge |-> HeadEvent.edges[i], ingest |-> RowId(HeadId)] \in edges
<1>1. /\ HeadId \in Nat \ {0} /\ HeadEvent \in Event
      /\ at \in Nat
  BY HeadFacts DEF IInv, TypeOK
<1>2. /\ Statements(HeadEvent) \in Nat
      /\ DOMAIN HeadEvent.nodes = 1 .. Len(HeadEvent.nodes)
      /\ DOMAIN HeadEvent.edges = 1 .. Len(HeadEvent.edges)
  BY <1>1, StatementNumbers
<1>3. at > 1
  BY <1>1, <1>2, StatementOrder
<1>4. NodesDone /\ EdgesDone
  BY DEF IInv, Executed
<1>5. /\ \A i \in 1 .. Len(HeadEvent.nodes) : i + 1 < at
      /\ \A i \in 1 .. Len(HeadEvent.edges) : FirstOfEdge(HeadEvent, i) + 2 < at
  <2>1. \A i \in 1 .. Len(HeadEvent.nodes) : i + 1 \in Int
    OBVIOUS
  <2>2. \A i \in 1 .. Len(HeadEvent.edges) : FirstOfEdge(HeadEvent, i) + 2 \in Int
    BY <1>1, StatementNumbers DEF FirstOfEdge
  <2> QED
    BY <1>1, <1>2, <2>1, <2>2, StatementOrder
<1>6. HeadId < I64Max => RowId(HeadId) = HeadId
  BY <1>1, StoreAssumption DEF RowId
<1> QED
  BY <1>1, <1>2, <1>3, <1>4, <1>5, <1>6, RowIsThere DEF NodesDone, EdgesDone

LEMMA HeadStored ==
    ASSUME IInv, queue # << >>, at > Statements(HeadEvent),
           UNCHANGED <<audit, nodes, edges>>, stored' = stored \cup {Head(queue)}
    PROVE  StoredIsComplete'
BY HeadIsComplete DEF IInv, StoredIsComplete, RowId, HeadId, HeadEvent
\* The steps of the history: nothing, or the head whose statements are through.
StoredStep ==
    \/ stored' = stored
    \/ /\ queue # << >>
       /\ at > Statements(HeadEvent)
       /\ stored' = stored \cup {Head(queue)}

LEMMA StoredStepFacts ==
    ASSUME IInv, StoredStep, UNCHANGED <<audit, nodes, edges>>
    PROVE  /\ StoredIsComplete'
           /\ \A s \in stored' : s.id \in Nat \ {0} /\ s.event \in Event
<1>1. StoredIsComplete'
  BY StoredUnchanged, HeadStored DEF StoredStep
<1>2. CASE stored' = stored
  BY <1>1, <1>2 DEF IInv, TypeOK
<1>3. CASE queue # << >> /\ stored' = stored \cup {Head(queue)}
  BY <1>1, <1>3, HeadFacts DEF IInv, TypeOK
<1> QED
  BY <1>1, <1>2, <1>3 DEF StoredStep

-----------------------------------------------------------------------------
(* Init, and the steps between queries. *)

LEMMA InitIInv == Init => IInv
<1> SUFFICES ASSUME Init PROVE IInv
  OBVIOUS
<1> USE DEF Init
<1>1. queue \in Seq([id : Nat \ {0}, event : Event]) /\ Len(queue) = 0
  BY EmptySeq
<1>2. DOMAIN audit = {} /\ DOMAIN nodes = {} /\ edges = {}
  OBVIOUS
<1>3. TypeOK
  BY <1>1, <1>2 DEF TypeOK
<1>4. RowsKnown
  <2>1. DOMAIN audit = 1 .. 0 /\ 0 \in 0 .. I64Max
    BY <1>2, StoreAssumption
  <2> QED
    BY <2>1 DEF RowsKnown
<1>5. QueueIds /\ Executed
  BY <1>1 DEF QueueIds, Executed
<1>6. EdgesAreAudited /\ PropertiesAreAudited /\ StoredIsComplete
  BY <1>2 DEF EdgesAreAudited, PropertiesAreAudited, StoredIsComplete
<1> QED
  BY <1>3, <1>4, <1>5, <1>6 DEF IInv

\* load_next_ingest_id continues after the last row.
LEMMA NextIngestIdIs ==
    ASSUME NEW n \in 0 .. I64Max, DOMAIN audit = 1 .. n
    PROVE  NextIngestId = n + 1
<1>1. n \in Nat
  BY StoreAssumption
<1>2. CASE n = 0
  BY <1>2 DEF NextIngestId
<1>3. CASE n # 0
  <2> DEFINE c == CHOOSE x \in DOMAIN audit : \A m \in DOMAIN audit : m <= x
  <2>1. n \in DOMAIN audit /\ \A m \in DOMAIN audit : m <= n
    BY <1>1, <1>3
  <2>2. c \in DOMAIN audit /\ \A m \in DOMAIN audit : m <= c
    BY <2>1
  <2>3. NextIngestId = 1 + c
    BY <1>3, <2>1 DEF NextIngestId
  <2> HIDE DEF c
  <2>4. c \in 1 .. n /\ n <= c
    BY <2>1, <2>2
  <2>5. c = n
    BY <1>1, <2>4
  <2> QED
    BY <1>1, <2>3, <2>5
<1> QED
  BY <1>2, <1>3

\* A command that opens the store knows the rows that are there.
LEMMA OpenStep ==
    ASSUME IInv, NEW r \in Role, Open(r)
    PROVE  IInv'
<1> USE DEF Open
<1>1. PICK n \in 0 .. I64Max : DOMAIN audit = 1 .. n
  BY DEF IInv, RowsKnown
<1>2. n \in Nat /\ NextIngestId = n + 1 /\ RowId(n) = n
  BY <1>1, NextIngestIdIs, StoreAssumption DEF RowId
<1>3. queue = << >> /\ queue' = << >> /\ Len(queue') = 0
  BY DEF IInv, QueueIds
<1>4. r # "none"
  BY StoreAssumption DEF AllRoles
<1>5. TypeOK'
  <2>1. tables' \subseteq Tables
    BY DEF IInv, TypeOK
  <2>2. role' \in Role \cup {"none"} /\ nextId' \in Nat \ {0}
    BY <1>2 DEF IInv, TypeOK
  <2> QED
    BY <2>1, <2>2 DEF IInv, TypeOK
<1>6. RowsKnown'
  <2>1. role' # "none" => LastId' = n
    BY <1>2, <1>3 DEF LastId
  <2>2. audit' = audit /\ (role' # "none" => RowId(LastId)' = RowId(n))
    BY <2>1 DEF RowId
  <2> QED
    BY <1>1, <1>2, <2>2 DEF RowsKnown
<1>7. QueueIds' /\ Executed'
  BY <1>3 DEF QueueIds, Executed
<1>8. Graph' /\ StoredIsComplete'
  BY GraphUnchanged, StoredUnchanged
<1> QED
  BY <1>5, <1>6, <1>7, <1>8 DEF IInv, Graph

\* However a command ends, what it leaves are rows up to some id.
LEMMA HandleDroppedStep ==
    ASSUME IInv, HandleDropped, UNCHANGED durable, StoredStep
    PROVE  IInv'
<1> USE DEF HandleDropped, durable
<1>1. queue' = << >> /\ Len(queue') = 0 /\ queue' \in Seq([id : Nat \ {0}, event : Event])
  BY EmptySeq
<1>2. TypeOK'
  BY <1>1, StoredStepFacts DEF IInv, TypeOK
<1>3. RowsKnown' /\ QueueIds' /\ Executed'
  BY <1>1 DEF IInv, RowsKnown, QueueIds, Executed
<1> QED
  BY <1>2, <1>3, GraphUnchanged, StoredStepFacts DEF IInv, Graph

\* Before its first statement an event has nothing in the graph.
LEMMA FirstStatement ==
    ASSUME at' = 1, HeadEvent' \in Event
    PROVE  Executed'
<1> DEFINE e == HeadEvent'
<1> HIDE DEF e
<1>1. e \in Event
  BY DEF e
<1>2. \A i \in 1 .. Len(e.nodes) : ~(i + 1 < 1)
  OBVIOUS
<1>3. \A i \in 1 .. Len(e.edges) :
          FirstOfEdge(e, i) >= 1 /\ FirstOfEdge(e, i) \in Nat
  <2>1. FirstOfEdges(e) \in Nat /\ FirstOfEdges(e) >= 2
    BY <1>1, StatementNumbers
  <2> QED
    BY <2>1 DEF FirstOfEdge
<1>4. 1 <= Statements(e) + 1
  BY <1>1, StatementNumbers, StatementOrder
<1> QED
  BY <1>2, <1>3, <1>4 DEF e, Executed, RowDone, NodesDone, EdgesDone

\* A batch: its ids follow the last row.
LEMMA IngestStartsStep ==
    ASSUME IInv, NEW b \in Batches, IngestStarts(b)
    PROVE  IInv'
<1> USE DEF IngestStarts, durable
<1>1. PICK n \in 1 .. MaxBatch : b \in [1 .. n -> Event]
  BY DEF Batches
<1>2. n \in Nat /\ n >= 1 /\ Len(b) = n /\ nextId \in Nat \ {0}
  BY <1>1, StoreAssumption DEF IInv, TypeOK
<1>3. /\ queue' \in Seq([id : Nat \ {0}, event : Event])
      /\ Len(queue') = n
      /\ \A i \in 1 .. n : queue'[i] = [id |-> nextId + i - 1, event |-> b[i]]
  <2>1. queue' = [i \in 1 .. n |-> [id |-> nextId + i - 1, event |-> b[i]]]
    BY <1>2
  <2>2. \A i \in 1 .. n : [id |-> nextId + i - 1, event |-> b[i]] \in [id : Nat \ {0}, event : Event]
    BY <1>1, <1>2
  <2>3. queue' \in [1 .. n -> [id : Nat \ {0}, event : Event]]
    BY <2>1, <2>2
  <2> QED
    BY <1>2, <2>1, <2>3, SeqDef, LenProperties
<1>4. queue' # << >> /\ Head(queue') = queue'[1]
  BY <1>2, <1>3, EmptySeq, HeadTailProperties
<1>5. HeadId' = nextId /\ HeadEvent' = b[1] /\ b[1] \in Event
  BY <1>1, <1>2, <1>3, <1>4 DEF HeadId, HeadEvent
<1>6. TypeOK'
  BY <1>2, <1>3 DEF IInv, TypeOK
<1>7. RowsKnown'
  <2>1. LastId = nextId - 1 /\ LastId' = nextId - 1
    BY <1>4, <1>5 DEF LastId
  <2>2. role # "none" /\ RowId(LastId)' = RowId(LastId)
    BY <2>1, StoreAssumption DEF RowId, AllRoles
  <2> QED
    BY <2>2 DEF IInv, RowsKnown
<1>8. QueueIds'
  BY <1>2, <1>3 DEF QueueIds, IInv
<1>9. Executed'
  BY <1>5, FirstStatement
<1> QED
  BY <1>6, <1>7, <1>8, <1>9, GraphUnchanged, StoredUnchanged DEF IInv, Graph
-----------------------------------------------------------------------------
(* The ends of an event and of a query. *)

\* The head whose statements are through has the last row.
LEMMA ThroughFacts ==
    ASSUME IInv, queue # << >>, at > Statements(HeadEvent)
    PROVE  /\ at # 1
           /\ LastId = HeadId
           /\ HeadId = nextId - Len(queue)
           /\ role # "none"
<1>1. at \in Nat /\ HeadEvent \in Event /\ Len(queue) \in Nat /\ Len(queue) >= 1
  BY HeadFacts DEF IInv, TypeOK
<1>2. at # 1
  BY <1>1, StatementNumbers, StatementOrder
<1>3. HeadId = nextId - Len(queue)
  <2>1. Head(queue) = queue[1] /\ 1 \in 1 .. Len(queue)
    BY <1>1, HeadFacts DEF IInv
  <2>2. queue[1].id = nextId - Len(queue) + 1 - 1
    BY <2>1 DEF IInv, QueueIds
  <2> QED
    BY <1>1, <2>1, <2>2 DEF IInv, TypeOK, HeadId
<1> QED
  BY <1>2, <1>3 DEF LastId, IInv, QueueIds

\* The next event of the batch: its id follows.
LEMMA NextEventStep ==
    ASSUME IInv, NextEvent
    PROVE  IInv'
<1> USE DEF NextEvent, durable
<1> DEFINE Q == [id : Nat \ {0}, event : Event]
           n == Len(queue)
<1>1. /\ queue \in Seq(Q) /\ n \in Nat /\ n > 1 /\ queue # << >>
      /\ nextId \in Nat \ {0}
  <2>1. queue \in Seq(Q) /\ nextId \in Nat \ {0}
    BY DEF IInv, TypeOK
  <2> QED
    BY <2>1, EmptySeq, LenProperties
<1>2. at > Statements(HeadEvent)
  BY DEF HeadEvent
<1>3. /\ queue' \in Seq(Q) /\ Len(queue') = n - 1
      /\ \A i \in 1 .. n - 1 : queue'[i] = queue[i + 1]
  BY <1>1, HeadTailProperties
<1>4. queue' # << >> /\ Head(queue') = queue[2] /\ queue[2] \in Q
  <2>1. Head(queue') = queue'[1] /\ queue' # << >>
    <3>1. Len(queue') # 0
      BY <1>1, <1>3
    <3>2. queue' # << >>
      BY <3>1, EmptySeq
    <3> QED
      BY <1>3, <3>2, HeadTailProperties
  <2>2. 1 \in 1 .. n - 1 /\ 1 + 1 = 2
    BY <1>1
  <2>3. queue'[1] = queue[2]
    BY <1>3, <2>2
  <2>4. queue'[1] \in Q
    BY <1>3, <2>2, ElementOfSeq
  <2> QED
    BY <2>1, <2>3, <2>4
<1>5. HeadId' = HeadId + 1 /\ HeadEvent' \in Event
  <2>1. HeadId' = queue[2].id /\ queue[2].id = nextId - n + 2 - 1
    <3>1. 2 \in 1 .. n
      BY <1>1
    <3> QED
      BY <1>4, <3>1 DEF HeadId, IInv, QueueIds
  <2>2. HeadId = nextId - n
    BY <1>1, <1>2, ThroughFacts
  <2> QED
    BY <1>1, <1>4, <2>1, <2>2 DEF HeadEvent
<1>6. StoredStep
  BY <1>1, <1>2 DEF StoredStep
<1>7. TypeOK'
  BY <1>3, <1>6, StoredStepFacts DEF IInv, TypeOK
<1>8. RowsKnown'
  <2>1. LastId' = HeadId /\ LastId = HeadId
    <3>1. HeadId \in Nat
      BY <1>1, HeadFacts DEF IInv
    <3> QED
      BY <1>1, <1>2, <1>4, <1>5, <3>1, ThroughFacts DEF LastId
  <2>2. RowId(LastId)' = RowId(LastId)
    BY <2>1 DEF RowId
  <2> QED
    BY <2>2 DEF IInv, RowsKnown
<1>9. QueueIds'
  <2>1. \A i \in 1 .. Len(queue') : queue'[i].id = nextId' - Len(queue') + i - 1
    <3> SUFFICES ASSUME NEW i \in 1 .. n - 1
                 PROVE  queue'[i].id = nextId' - (n - 1) + i - 1
      BY <1>3
    <3>1. i + 1 \in 1 .. n /\ i \in Int
      BY <1>1
    <3>2. queue[i + 1].id = nextId - n + (i + 1) - 1
      BY <3>1 DEF IInv, QueueIds
    <3> QED
      BY <1>1, <1>3, <3>1, <3>2
  <2>2. role # "none"
    BY <1>1, <1>2, ThroughFacts
  <2> QED
    BY <2>1, <2>2 DEF QueueIds
<1>10. Executed'
  BY <1>5, FirstStatement
<1> QED
  BY <1>6, <1>7, <1>8, <1>9, <1>10, GraphUnchanged, StoredStepFacts DEF IInv, Graph

\* The batch is through: the counter is one beyond the last row.
LEMMA IngestReturnsStep ==
    ASSUME IInv, IngestReturns
    PROVE  IInv'
<1> USE DEF IngestReturns
<1>1. queue # << >> /\ at > Statements(HeadEvent)
  BY EmptySeq DEF HeadEvent
<1>2. StoredStep
  BY <1>1 DEF StoredStep
<1>3. CASE HandleDropped
  BY <1>2, <1>3, HandleDroppedStep
<1>4. CASE queue' = << >> /\ at' = 1 /\ UNCHANGED <<role, nextId>>
  <2> USE <1>4 DEF durable
  <2>1. queue' \in Seq([id : Nat \ {0}, event : Event]) /\ Len(queue') = 0
    BY EmptySeq
  <2>2. TypeOK'
    BY <1>2, <2>1, StoredStepFacts DEF IInv, TypeOK
  <2>3. RowsKnown'
    <3>1. nextId \in Nat /\ HeadId = nextId - 1 /\ LastId = HeadId
      BY <1>1, ThroughFacts DEF IInv, TypeOK
    <3>2. LastId' = LastId
      BY <3>1 DEF LastId
    <3>3. RowId(LastId)' = RowId(LastId)
      BY <3>2 DEF RowId
    <3> QED
      BY <3>3 DEF IInv, RowsKnown
  <2>4. QueueIds' /\ Executed'
    BY <2>1 DEF QueueIds, Executed
  <2> QED
    BY <1>2, <2>2, <2>3, <2>4, GraphUnchanged, StoredStepFacts DEF IInv, Graph
<1> QED
  BY <1>3, <1>4
-----------------------------------------------------------------------------
(* The statements of an event. *)

\* What all of them have in common.
LEMMA StatementFacts ==
    ASSUME IInv, ExecuteStatement
    PROVE  /\ queue # << >> /\ queue' = queue
           /\ HeadId \in Nat \ {0} /\ HeadEvent \in Event
           /\ HeadId' = HeadId /\ HeadEvent' = HeadEvent
           /\ at \in Nat \ {0} /\ at <= Statements(HeadEvent) /\ at' = at + 1
           /\ LastId' = HeadId
           /\ stored' = stored
           /\ QueueIds'
           /\ \/ InsertRow(HeadId, HeadEvent)
              \/ MergeNodeOfEvent(HeadEvent)
              \/ MergeEndpoint(HeadEvent)
              \/ InsertEdge(HeadId, HeadEvent)
<1> USE DEF ExecuteStatement
<1>1. queue # << >> /\ queue' = queue /\ stored' = stored /\ at' = at + 1
  OBVIOUS
<1>2. HeadId' = HeadId /\ HeadEvent' = HeadEvent
  BY DEF HeadId, HeadEvent
<1>3. HeadId \in Nat \ {0} /\ HeadEvent \in Event
  BY <1>1, HeadFacts DEF IInv
<1>4. at \in Nat \ {0}
  BY DEF IInv, TypeOK
<1>5. LastId' = HeadId
  BY <1>1, <1>2, <1>4 DEF LastId
<1>6. QueueIds'
  BY <1>1 DEF IInv, QueueIds
<1>7. /\ at <= Statements(HeadEvent)
      /\ \/ InsertRow(HeadId, HeadEvent)
         \/ MergeNodeOfEvent(HeadEvent)
         \/ MergeEndpoint(HeadEvent)
         \/ InsertEdge(HeadId, HeadEvent)
  BY DEF HeadId, HeadEvent
<1> QED
  BY <1>1, <1>2, <1>3, <1>4, <1>5, <1>6, <1>7

\* After the row its last id is the head's, and stays so.
LEMMA RowsStayKnown ==
    ASSUME IInv, ExecuteStatement, at # 1, audit' = audit
    PROVE  RowsKnown' /\ RowDone'
<1>1. LastId' = LastId /\ HeadId' = HeadId /\ HeadEvent' = HeadEvent /\ queue # << >>
  BY StatementFacts, LastIdType
<1>2. at > 1
  BY StatementFacts
<1>3. role' = role
  BY DEF ExecuteStatement
<1>4. RowId(LastId)' = RowId(LastId) /\ RowId(HeadId)' = RowId(HeadId)
  BY <1>1 DEF RowId
<1> QED
  BY <1>1, <1>2, <1>3, <1>4 DEF IInv, RowsKnown, Executed, RowDone

\* More nodes do not disturb what is known of the edges and what was stored.
LEMMA NodesGrow ==
    ASSUME IInv, UNCHANGED <<audit, edges, stored>>, DOMAIN nodes \subseteq DOMAIN nodes'
    PROVE  EdgesAreAudited' /\ StoredIsComplete'
BY DEF IInv, EdgesAreAudited, StoredIsComplete, Has, RowId

\* The IngestEvent row: no row that is known is overwritten.
LEMMA InsertRowStep ==
    ASSUME IInv, ExecuteStatement, InsertRow(HeadId, HeadEvent)
    PROVE  IInv'
<1> DEFINE row == RowId(HeadId)
<1> USE DEF InsertRow
<1>1. /\ row \in 1 .. I64Max
      /\ \A r \in DOMAIN audit : r < I64Max => r # row
      /\ DOMAIN audit \cup {row} = 1 .. row
  BY StatementFacts, RowIsNew
<1>2. /\ DOMAIN audit' = 1 .. row
      /\ audit'[row] = HeadEvent
      /\ \A r \in DOMAIN audit : r # row => audit'[r] = audit[r]
      /\ DOMAIN audit \subseteq DOMAIN audit'
  <2>1. audit' = Put(audit, row, HeadEvent)
    OBVIOUS
  <2> HIDE DEF row, InsertRow
  <2>2. /\ DOMAIN audit' = DOMAIN audit \cup {row}
        /\ audit'[row] = HeadEvent
        /\ \A r \in DOMAIN audit : r # row => audit'[r] = audit[r]
    BY <2>1 DEF Put
  <2> QED
    BY <1>1, <2>2
<1>3. RowId(HeadId)' = row
  BY StatementFacts DEF RowId
<1> HIDE DEF row
<1>4. TypeOK'
  <2>1. DOMAIN audit' \subseteq 1 .. I64Max
    BY <1>1, <1>2, StoreAssumption
  <2>2. \A r \in DOMAIN audit' : audit'[r] \in Event
    BY <1>1, <1>2, StatementFacts DEF IInv, TypeOK
  <2> QED
    BY <2>1, <2>2, StatementFacts DEF IInv, TypeOK, ExecuteStatement
<1>5. RowsKnown'
  <2>1. RowId(LastId)' = row
    BY <1>3, StatementFacts DEF RowId
  <2>2. row \in 0 .. I64Max
    BY <1>1
  <2> QED
    BY <1>2, <2>1, <2>2 DEF RowsKnown
<1>6. Executed'
  <2>1. at' = 2 /\ HeadEvent' = HeadEvent /\ HeadEvent \in Event
    BY StatementFacts
  <2>2. RowDone'
    BY <1>2, <1>3, <2>1 DEF RowDone
  <2>3. NodesDone'
    <3>1. \A i \in 1 .. Len(HeadEvent.nodes) : ~(i + 1 < 2)
      OBVIOUS
    <3> QED
      BY <2>1, <3>1 DEF NodesDone
  <2>4. EdgesDone'
    <3>1. FirstOfEdges(HeadEvent) \in Nat /\ FirstOfEdges(HeadEvent) >= 2
      BY <2>1, StatementNumbers
    <3>2. \A i \in 1 .. Len(HeadEvent.edges) :
              FirstOfEdge(HeadEvent, i) \in Nat /\ FirstOfEdge(HeadEvent, i) >= 2
      BY <3>1 DEF FirstOfEdge
    <3> QED
      BY <2>1, <3>2 DEF EdgesDone
  <2>5. 2 <= Statements(HeadEvent) + 1
    BY <2>1, StatementNumbers, StatementOrder
  <2> QED
    BY <2>1, <2>2, <2>3, <2>4, <2>5 DEF Executed
<1>7. EdgesAreAudited'
  BY <1>1, <1>2 DEF IInv, EdgesAreAudited, Has
<1>8. PropertiesAreAudited'
  <2> SUFFICES ASSUME I64Max \notin DOMAIN audit'
               PROVE  PropertiesAreAudited'
    BY DEF PropertiesAreAudited
  <2>1. I64Max \notin DOMAIN audit
    BY <1>2
  <2>2. \A r \in DOMAIN audit : r \in DOMAIN audit' /\ audit'[r] = audit[r]
    <3>1. \A r \in DOMAIN audit : r < I64Max
      BY <2>1, StoreAssumption DEF IInv, TypeOK
    <3> QED
      BY <1>1, <1>2, <3>1
  <2> QED
    BY <2>1, <2>2 DEF IInv, PropertiesAreAudited
<1>9. StoredIsComplete'
  <2> SUFFICES ASSUME NEW s \in stored
               PROVE  /\ RowId(s.id) \in DOMAIN audit'
                      /\ s.id < I64Max => audit'[s.id] = s.event
    BY StatementFacts DEF IInv, StoredIsComplete, RowId
  <2>1. /\ RowId(s.id) \in DOMAIN audit /\ s.id \in Nat
        /\ s.id < I64Max => audit[s.id] = s.event
    BY DEF IInv, StoredIsComplete, TypeOK
  <2>2. s.id < I64Max => RowId(s.id) = s.id
    BY <2>1, StoreAssumption DEF RowId
  <2> QED
    BY <1>1, <1>2, <2>1, <2>2
<1> QED
  BY <1>4, <1>5, <1>6, <1>7, <1>8, <1>9, StatementFacts DEF IInv

\* MERGE of a node: its properties come from the event, whose row is there,
\* or from an earlier one.
LEMMA MergeNodeStep ==
    ASSUME IInv, ExecuteStatement, MergeNodeOfEvent(HeadEvent)
    PROVE  IInv'
<1> DEFINE e == HeadEvent
           node == e.nodes[at - 1]
           props == [seen |-> e.time,
                     args |-> IF node.args = None THEN Props(node.key).args ELSE node.args,
                     exit |-> IF node.exit = None THEN Props(node.key).exit ELSE node.exit]
           row == RowId(HeadId)
<1> USE DEF MergeNodeOfEvent
<1>1. /\ e \in Event /\ HeadEvent' = e /\ at' = at + 1 /\ queue # << >>
      /\ at \in Nat /\ at > 1 /\ at <= Len(e.nodes) + 1 /\ at <= Statements(e)
      /\ Len(e.nodes) \in Nat /\ DOMAIN e.nodes = 1 .. Len(e.nodes)
      /\ FirstOfEdges(e) = Len(e.nodes) + 2
  BY StatementFacts, StatementNumbers
<1>2. /\ DOMAIN nodes' = DOMAIN nodes \cup {node.key}
      /\ \A k \in DOMAIN nodes : k # node.key => nodes'[k] = nodes[k]
      /\ nodes'[node.key] = props
  <2>1. nodes' = Put(nodes, node.key, props)
    BY DEF MergeNode
  <2> HIDE DEF e, node, props
  <2> QED
    BY <2>1 DEF Put
<1>3. at - 1 \in 1 .. Len(e.nodes)
  BY <1>1
<1>4. row \in DOMAIN audit /\ audit[row] = e
  BY <1>1, RowIsThere
<1> HIDE DEF e, row
<1>5. TypeOK'
  <2>1. \A k \in DOMAIN nodes' : DOMAIN nodes'[k] = {"seen", "args", "exit"}
    BY <1>2 DEF IInv, TypeOK
  <2> QED
    BY <2>1, StatementFacts DEF IInv, TypeOK, ExecuteStatement
<1>6. RowsKnown' /\ RowDone'
  BY <1>1, RowsStayKnown
<1>7. Executed'
  <2>1. NodesDone'
    <3>1. \A i \in 1 .. Len(e.nodes) : i + 1 < at + 1 => i + 1 < at \/ i = at - 1
      BY <1>1
    <3> QED
      BY <1>1, <1>2, <3>1 DEF IInv, Executed, NodesDone, e
  <2>2. EdgesDone'
    <3>1. \A i \in 1 .. Len(e.edges) : FirstOfEdge(e, i) \in Nat /\ FirstOfEdge(e, i) >= at + 1
      BY <1>1, FirstOfEdgeType
    <3> QED
      BY <1>1, <3>1 DEF EdgesDone
  <2>3. at' <= Statements(e) + 1
    BY <1>1, StatementNumbers
  <2> QED
    BY <1>1, <1>6, <2>1, <2>2, <2>3 DEF Executed
<1>8. EdgesAreAudited' /\ StoredIsComplete'
  BY <1>2, NodesGrow, StatementFacts
<1>9. PropertiesAreAudited'
  <2> SUFFICES ASSUME I64Max \notin DOMAIN audit, NEW k \in DOMAIN nodes'
               PROVE  /\ nodes'[k].args = None \/
                             \E id \in DOMAIN audit : \E i \in DOMAIN audit[id].nodes :
                                 /\ audit[id].nodes[i].key = k
                                 /\ audit[id].nodes[i].args = nodes'[k].args
                      /\ nodes'[k].exit = None \/
                             \E id \in DOMAIN audit : \E i \in DOMAIN audit[id].nodes :
                                 /\ audit[id].nodes[i].key = k
                                 /\ audit[id].nodes[i].exit = nodes'[k].exit
    BY DEF PropertiesAreAudited
  <2>1. CASE k # node.key
    BY <1>2, <2>1 DEF IInv, PropertiesAreAudited
  <2>2. CASE k = node.key
    <3>1. k \notin DOMAIN nodes => Props(k).args = None /\ Props(k).exit = None
      BY DEF Props, Stub
    <3>2. k \in DOMAIN nodes => Props(k) = nodes[k]
      BY DEF Props
    <3>3. /\ node.args # None => nodes'[k].args = node.args
          /\ node.args = None => nodes'[k].args = Props(k).args
          /\ node.exit # None => nodes'[k].exit = node.exit
          /\ node.exit = None => nodes'[k].exit = Props(k).exit
      BY <1>2, <2>2
    <3>4. at - 1 \in DOMAIN audit[row].nodes /\ audit[row].nodes[at - 1] = node
      BY <1>1, <1>3, <1>4
    <3> HIDE DEF node
    <3> QED
      BY <1>4, <2>2, <3>1, <3>2, <3>3, <3>4 DEF IInv, PropertiesAreAudited
  <2> QED
    BY <2>1, <2>2
<1> QED
  BY <1>5, <1>6, <1>7, <1>8, <1>9, StatementFacts DEF IInv

\* MERGE of an endpoint: the node is there, and has what it had.
LEMMA MergeEndpointStep ==
    ASSUME IInv, ExecuteStatement, MergeEndpoint(HeadEvent)
    PROVE  IInv'
<1> DEFINE e == HeadEvent
           part == EdgePart(e, at)
           key == IF part = 0 THEN EdgeOf(e, at).src ELSE EdgeOf(e, at).dst
<1> USE DEF MergeEndpoint
<1>1. /\ e \in Event /\ HeadEvent' = e /\ at' = at + 1 /\ queue # << >>
      /\ at \in FirstOfEdges(e) .. Statements(e) /\ at \in Nat
      /\ Len(e.nodes) \in Nat /\ FirstOfEdges(e) = Len(e.nodes) + 2
      /\ Statements(e) \in Nat
  BY StatementFacts, StatementNumbers
<1>2. /\ DOMAIN nodes' = DOMAIN nodes \cup {key}
      /\ \A k \in DOMAIN nodes : k # key => nodes'[k] = nodes[k]
      /\ nodes'[key] = Props(key)
      /\ part < 2
  <2>1. nodes' = Put(nodes, key, Props(key)) /\ part < 2
    BY DEF MergeStub
  <2> HIDE DEF e, part, key
  <2> QED
    BY <2>1 DEF Put
<1>3. PICK i \in 1 .. Len(e.edges) :
          /\ EdgeOf(e, at) = e.edges[i]
          /\ part \in 0 .. 2
          /\ at = FirstOfEdge(e, i) + part
          /\ \A j \in 1 .. Len(e.edges) : \A p \in 0 .. 2 :
                 at = FirstOfEdge(e, j) + p => j = i /\ p = part
  <2> HIDE DEF e, MergeEndpoint
  <2> QED
    BY <1>1, EdgeOfStatement
<1>4. \A j \in 1 .. Len(e.edges) : FirstOfEdge(e, j) \in Nat
  BY <1>1, FirstOfEdgeType
<1>5. /\ part = 0 => key = e.edges[i].src
      /\ part = 1 => key = e.edges[i].dst
  BY <1>3
<1> HIDE DEF e, part, key
<1>6. TypeOK'
  <2>1. DOMAIN Props(key) = {"seen", "args", "exit"}
    BY DEF Props, Stub, IInv, TypeOK
  <2>2. \A k \in DOMAIN nodes' : DOMAIN nodes'[k] = {"seen", "args", "exit"}
    BY <1>2, <2>1 DEF IInv, TypeOK
  <2> QED
    BY <2>2, StatementFacts DEF IInv, TypeOK, ExecuteStatement
<1>7. RowsKnown' /\ RowDone'
  BY <1>1, RowsStayKnown
<1>8. Executed'
  <2>1. NodesDone'
    <3>1. \A n \in 1 .. Len(e.nodes) : n + 1 < at
      BY <1>1
    <3> QED
      BY <1>1, <1>2, <3>1 DEF IInv, Executed, NodesDone, e
  <2>2. EdgesDone'
    <3> SUFFICES ASSUME NEW j \in 1 .. Len(e.edges)
                 PROVE  /\ FirstOfEdge(e, j) < at + 1 => e.edges[j].src \in DOMAIN nodes'
                        /\ FirstOfEdge(e, j) + 1 < at + 1 => e.edges[j].dst \in DOMAIN nodes'
                        /\ FirstOfEdge(e, j) + 2 < at + 1 =>
                               [edge |-> e.edges[j], ingest |-> RowId(HeadId)'] \in edges'
      BY <1>1 DEF EdgesDone
    <3>1. FirstOfEdge(e, j) < at + 1 => FirstOfEdge(e, j) < at \/ (j = i /\ part = 0)
      <4>1. at = FirstOfEdge(e, j) + 0 => j = i /\ part = 0
        BY <1>3
      <4> QED
        BY <1>1, <1>4, <4>1
    <3>2. FirstOfEdge(e, j) + 1 < at + 1 => FirstOfEdge(e, j) + 1 < at \/ (j = i /\ part = 1)
      <4>1. at = FirstOfEdge(e, j) + 1 => j = i /\ part = 1
        BY <1>3
      <4> QED
        BY <1>1, <1>4, <4>1
    <3>3. FirstOfEdge(e, j) + 2 < at + 1 => FirstOfEdge(e, j) + 2 < at
      BY <1>1, <1>2, <1>3, <1>4
    <3>4. /\ FirstOfEdge(e, j) < at => e.edges[j].src \in DOMAIN nodes
          /\ FirstOfEdge(e, j) + 1 < at => e.edges[j].dst \in DOMAIN nodes
          /\ FirstOfEdge(e, j) + 2 < at =>
                 [edge |-> e.edges[j], ingest |-> RowId(HeadId)] \in edges
      BY <1>1 DEF IInv, Executed, EdgesDone, e
    <3>5. RowId(HeadId)' = RowId(HeadId)
      BY StatementFacts DEF RowId
    <3> QED
      BY <1>2, <1>5, <3>1, <3>2, <3>3, <3>4, <3>5
  <2>3. at' <= Statements(e) + 1
    BY <1>1
  <2> QED
    BY <1>1, <1>7, <2>1, <2>2, <2>3 DEF Executed
<1>9. EdgesAreAudited' /\ StoredIsComplete'
  BY <1>2, NodesGrow, StatementFacts
<1>10. PropertiesAreAudited'
  <2>1. key \notin DOMAIN nodes => nodes'[key].args = None /\ nodes'[key].exit = None
    BY <1>2 DEF Props, Stub
  <2>2. key \in DOMAIN nodes => nodes'[key] = nodes[key]
    BY <1>2 DEF Props
  <2> QED
    BY <1>2, <2>1, <2>2 DEF IInv, PropertiesAreAudited
<1> QED
  BY <1>6, <1>7, <1>8, <1>9, <1>10, StatementFacts DEF IInv

\* CREATE of an edge: both endpoints were merged just before, so that the
\* MATCH finds them.
LEMMA InsertEdgeStep ==
    ASSUME IInv, ExecuteStatement, InsertEdge(HeadId, HeadEvent)
    PROVE  IInv'
<1> DEFINE e == HeadEvent
           part == EdgePart(e, at)
           row == RowId(HeadId)
<1> USE DEF InsertEdge
<1>1. /\ e \in Event /\ HeadEvent' = e /\ at' = at + 1 /\ queue # << >>
      /\ at \in FirstOfEdges(e) .. Statements(e) /\ at \in Nat
      /\ Len(e.nodes) \in Nat /\ FirstOfEdges(e) = Len(e.nodes) + 2
      /\ Statements(e) \in Nat
  BY StatementFacts, StatementNumbers
<1>2. PICK i \in 1 .. Len(e.edges) :
          /\ EdgeOf(e, at) = e.edges[i]
          /\ part \in 0 .. 2
          /\ at = FirstOfEdge(e, i) + part
          /\ \A j \in 1 .. Len(e.edges) : \A p \in 0 .. 2 :
                 at = FirstOfEdge(e, j) + p => j = i /\ p = part
  <2> HIDE DEF e, InsertEdge
  <2> QED
    BY <1>1, EdgeOfStatement
<1>3. part = 2
  OBVIOUS
<1>4. /\ row \in DOMAIN audit /\ row \in 1 .. I64Max /\ audit[row] = e
  BY <1>1, RowIsThere
<1>5. RowId(HeadId)' = row
  BY StatementFacts DEF RowId
<1>6. EdgesDone
  BY <1>1 DEF IInv, Executed
<1>7. \A j \in 1 .. Len(e.edges) : FirstOfEdge(e, j) \in Nat
  BY <1>1, FirstOfEdgeType
<1>8. FirstOfEdge(e, i) < at /\ FirstOfEdge(e, i) + 1 < at
  BY <1>2, <1>3, <1>7
<1>9. e.edges[i].src \in DOMAIN nodes /\ e.edges[i].dst \in DOMAIN nodes
  BY <1>6, <1>8 DEF EdgesDone
<1>10. edges' = edges \cup {[edge |-> e.edges[i], ingest |-> row]}
  BY <1>2, <1>9 DEF CreateEdge
<1> HIDE DEF e, part, row
<1>11. TypeOK'
  <2>1. \A x \in edges' : x.ingest \in 1 .. I64Max
    BY <1>4, <1>10 DEF IInv, TypeOK
  <2> QED
    BY <2>1, StatementFacts DEF IInv, TypeOK, ExecuteStatement
<1>12. RowsKnown' /\ RowDone'
  BY <1>1, RowsStayKnown
<1>13. Executed'
  <2>1. NodesDone'
    <3>1. \A n \in 1 .. Len(e.nodes) : n + 1 < at
      BY <1>1
    <3> QED
      BY <1>1, <3>1 DEF IInv, Executed, NodesDone, e
  <2>2. EdgesDone'
    <3> SUFFICES ASSUME NEW j \in 1 .. Len(e.edges)
                 PROVE  /\ FirstOfEdge(e, j) < at + 1 => e.edges[j].src \in DOMAIN nodes
                        /\ FirstOfEdge(e, j) + 1 < at + 1 => e.edges[j].dst \in DOMAIN nodes
                        /\ FirstOfEdge(e, j) + 2 < at + 1 =>
                               [edge |-> e.edges[j], ingest |-> row] \in edges'
      BY <1>1, <1>5 DEF EdgesDone
    <3>1. FirstOfEdge(e, j) < at + 1 => FirstOfEdge(e, j) < at
      BY <1>1, <1>2, <1>3, <1>7
    <3>2. FirstOfEdge(e, j) + 1 < at + 1 => FirstOfEdge(e, j) + 1 < at
      BY <1>1, <1>2, <1>3, <1>7
    <3>3. FirstOfEdge(e, j) + 2 < at + 1 => FirstOfEdge(e, j) + 2 < at \/ j = i
      BY <1>1, <1>2, <1>3, <1>7
    <3>4. /\ FirstOfEdge(e, j) < at => e.edges[j].src \in DOMAIN nodes
          /\ FirstOfEdge(e, j) + 1 < at => e.edges[j].dst \in DOMAIN nodes
          /\ FirstOfEdge(e, j) + 2 < at => [edge |-> e.edges[j], ingest |-> row] \in edges
      BY <1>6 DEF EdgesDone, e, row
    <3> QED
      BY <1>10, <3>1, <3>2, <3>3, <3>4
  <2>3. at' <= Statements(e) + 1
    BY <1>1
  <2> QED
    BY <1>1, <1>12, <2>1, <2>2, <2>3 DEF Executed
<1>14. EdgesAreAudited'
  <2> DEFINE new == [edge |-> e.edges[i], ingest |-> row]
  <2>1. Has(audit[new.ingest].edges, new.edge)
    <3>1. i \in DOMAIN e.edges
      BY <1>1, StatementNumbers
    <3> QED
      BY <1>4, <3>1 DEF Has
  <2>2. {new.edge.src, new.edge.dst} \subseteq DOMAIN nodes /\ new.ingest \in DOMAIN audit
    BY <1>4, <1>9
  <2>3. edges' = edges \cup {new}
    BY <1>10
  <2> HIDE DEF new
  <2> QED
    BY <2>1, <2>2, <2>3 DEF IInv, EdgesAreAudited, Has
<1>15. PropertiesAreAudited'
  BY DEF IInv, PropertiesAreAudited
<1>16. StoredIsComplete'
  BY <1>10, StatementFacts DEF IInv, StoredIsComplete, RowId
<1> QED
  BY <1>11, <1>12, <1>13, <1>14, <1>15, <1>16, StatementFacts DEF IInv
-----------------------------------------------------------------------------
(* The invariant. *)

LEMMA StepIInv == IInv /\ [Next]_vars => IInv'
<1> SUFFICES ASSUME IInv, [Next]_vars PROVE IInv'
  OBVIOUS
<1>1. ASSUME NEW r \in Role, Open(r) PROVE IInv'
  BY <1>1, OpenStep
<1>2. CASE Close
  BY <1>2, HandleDroppedStep DEF Close, StoredStep
<1>3. CASE Kill
  BY <1>3, HandleDroppedStep DEF Kill, StoredStep
<1>4. ASSUME NEW b \in Batches, IngestStarts(b) PROVE IInv'
  BY <1>4, IngestStartsStep
<1>5. ASSUME NEW b \in Batches, IngestRefused(b) PROVE IInv'
  BY <1>5, HandleDroppedStep DEF IngestRefused, StoredStep
<1>6. CASE ExecuteStatement
  BY <1>6, StatementFacts, InsertRowStep, MergeNodeStep, MergeEndpointStep, InsertEdgeStep
<1>7. CASE NextEvent
  BY <1>7, NextEventStep
<1>8. CASE IngestReturns
  BY <1>8, IngestReturnsStep
<1>9. CASE StatementFails
  BY <1>9, HandleDroppedStep DEF StatementFails, StoredStep
<1>10. CASE UNCHANGED vars
  <2> USE <1>10 DEF vars, durable, session
  <2>1. TypeOK' /\ QueueIds'
    BY DEF IInv, TypeOK, QueueIds
  <2>2. RowsKnown'
    BY DEF IInv, RowsKnown, RowId, LastId, HeadId
  <2>3. Executed'
    BY DEF IInv, Executed, RowDone, NodesDone, EdgesDone, RowId, HeadId, HeadEvent
  <2> QED
    BY <2>1, <2>2, <2>3, GraphUnchanged, StoredUnchanged DEF IInv, Graph
<1> QED
  BY <1>1, <1>2, <1>3, <1>4, <1>5, <1>6, <1>7, <1>8, <1>9, <1>10 DEF Next

\* The inductive invariant.
THEOREM Invariant == Spec => []IInv
BY InitIInv, StepIInv, PTL DEF Spec

-----------------------------------------------------------------------------
(* The properties of GraphStore. *)

\* Every variable keeps its type: above all, no row has an id that an i64
\* cannot hold.
THEOREM TypeCorrect == Spec => []TypeOK
<1>1. IInv => TypeOK
  BY DEF IInv
<1> QED
  BY Invariant, <1>1, PTL

\* The IngestEvent ids have no gap, whatever was refused, failed or was killed
\* and however often the store was opened again.
THEOREM DenseIds == Spec => []IdsAreDense
<1>1. IInv => IdsAreDense
  <2> SUFFICES ASSUME IInv PROVE IdsAreDense
    OBVIOUS
  <2>1. PICK n \in 0 .. I64Max : DOMAIN audit = 1 .. n
    BY DEF IInv, RowsKnown
  <2>2. n \in Nat
    BY StoreAssumption
  <2>3. Cardinality(1 .. n) = n
    BY <2>2, FS_Interval
  <2> QED
    BY <2>1, <2>3 DEF IdsAreDense
<1> QED
  BY Invariant, <1>1, PTL

\* Every relationship joins nodes that exist and belongs to the event that its
\* ingest_event_id names.
THEOREM EdgesAudited == Spec => []EdgesAreAudited
<1>1. IInv => EdgesAreAudited
  BY DEF IInv
<1> QED
  BY Invariant, <1>1, PTL

\* Command lines and exit statuses come from events in the graph.
THEOREM PropertiesAudited == Spec => []PropertiesAreAudited
<1>1. IInv => PropertiesAreAudited
  BY DEF IInv
<1> QED
  BY Invariant, <1>1, PTL

\* An event that ingest counted is in the graph with all it brought.
THEOREM StoredComplete == Spec => []StoredIsComplete
<1>1. IInv => StoredIsComplete
  BY DEF IInv
<1> QED
  BY Invariant, <1>1, PTL

\* The parts of NothingForgotten.
Remembered ==
    /\ \A id \in DOMAIN audit :
           id < I64Max => id \in DOMAIN audit' /\ audit'[id] = audit[id]
    /\ \A k \in DOMAIN nodes :
           /\ k \in DOMAIN nodes'
           /\ nodes[k].args # None => nodes'[k].args # None
           /\ nodes[k].exit # None => nodes'[k].exit # None
    /\ edges \subseteq edges'

\* A statement adds, or sets what the event has a value for.
LEMMA StatementForgetsNothing ==
    ASSUME IInv, ExecuteStatement
    PROVE  Remembered
<1>1. CASE InsertRow(HeadId, HeadEvent)
  <2> USE <1>1 DEF InsertRow
  <2>1. \A r \in DOMAIN audit : r < I64Max => r # RowId(HeadId)
    BY RowIsNew, StatementFacts
  <2>2. \A r \in DOMAIN audit :
            r # RowId(HeadId) => r \in DOMAIN audit' /\ audit'[r] = audit[r]
    BY DEF Put
  <2> QED
    BY <2>1, <2>2 DEF Remembered
<1>2. CASE MergeNodeOfEvent(HeadEvent)
  <2> DEFINE node == HeadEvent.nodes[at - 1]
             props == [seen |-> HeadEvent.time,
                       args |-> IF node.args = None THEN Props(node.key).args ELSE node.args,
                       exit |-> IF node.exit = None THEN Props(node.key).exit ELSE node.exit]
  <2>1. nodes' = Put(nodes, node.key, props) /\ UNCHANGED <<audit, edges>>
    BY <1>2 DEF MergeNodeOfEvent, MergeNode
  <2>2. node.key \in DOMAIN nodes =>
            /\ nodes[node.key].args # None => props.args # None
            /\ nodes[node.key].exit # None => props.exit # None
    BY DEF Props
  <2> HIDE DEF node, props
  <2>3. /\ DOMAIN nodes' = DOMAIN nodes \cup {node.key}
        /\ nodes'[node.key] = props
        /\ \A k \in DOMAIN nodes : k # node.key => nodes'[k] = nodes[k]
    BY <2>1 DEF Put
  <2> QED
    BY <2>1, <2>2, <2>3 DEF Remembered
<1>3. CASE MergeEndpoint(HeadEvent)
  <2> DEFINE key == IF EdgePart(HeadEvent, at) = 0
                    THEN EdgeOf(HeadEvent, at).src ELSE EdgeOf(HeadEvent, at).dst
  <2>1. nodes' = Put(nodes, key, Props(key)) /\ UNCHANGED <<audit, edges>>
    BY <1>3 DEF MergeEndpoint, MergeStub
  <2> HIDE DEF key
  <2>2. \A k \in DOMAIN nodes : k \in DOMAIN nodes' /\ nodes'[k] = nodes[k]
    BY <2>1 DEF Put, Props
  <2> QED
    BY <2>1, <2>2 DEF Remembered
<1>4. CASE InsertEdge(HeadId, HeadEvent)
  BY <1>4 DEF InsertEdge, CreateEdge, Remembered
<1> QED
  BY <1>1, <1>2, <1>3, <1>4, StatementFacts

\* No step removes a row, a node, a property or a relationship.
THEOREM GraphOnlyGrows == Spec => NothingForgotten
<1>1. IInv /\ [Next]_vars => [Remembered]_vars
  <2> SUFFICES ASSUME IInv, Next PROVE Remembered
    OBVIOUS
  <2>1. CASE ExecuteStatement
    BY <2>1, StatementForgetsNothing
  <2>2. CASE UNCHANGED <<audit, nodes, edges>>
    BY <2>2 DEF Remembered
  <2>3. ExecuteStatement \/ UNCHANGED <<audit, nodes, edges>>
    BY DEF Next, Open, Close, Kill, IngestStarts, IngestRefused, NextEvent, IngestReturns,
           StatementFails, durable
  <2> QED
    BY <2>1, <2>2, <2>3
<1>2. [Remembered]_vars =>
          [/\ \A id \in DOMAIN audit :
                  id < I64Max => id \in DOMAIN audit' /\ audit'[id] = audit[id]
           /\ \A k \in DOMAIN nodes :
                  /\ k \in DOMAIN nodes'
                  /\ nodes[k].args # None => nodes'[k].args # None
                  /\ nodes[k].exit # None => nodes'[k].exit # None
           /\ edges \subseteq edges']_vars
  BY DEF Remembered
<1> QED
  BY Invariant, <1>1, <1>2, PTL DEF Spec, NothingForgotten
=============================================================================
