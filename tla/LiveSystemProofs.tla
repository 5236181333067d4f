-------------------------- MODULE LiveSystemProofs --------------------------
(***************************************************************************)
(* Proofs about LiveSystem, for every number of messages and runs, every   *)
(* batch size, capacity and set of faults, and every normaliser that keeps *)
(* the assumptions.                                                        *)
(*                                                                         *)
(* The invariants of the two parts are used as they are proved: a step of  *)
(* the system is a step of LivePipeline and a step of GraphStore.  What is *)
(* proved here is what holds them together: the query in the store is the  *)
(* tail of the writer's batch, and the rows are the log.                   *)
(***************************************************************************)
EXTENDS LiveSystem, SequenceTheorems, FiniteSetTheorems, TLAPS

PP == INSTANCE LivePipelineProofs
SP == INSTANCE GraphStoreProofs WITH
          Event <- {EventOf(r, n) : r \in 1 .. MaxRuns, n \in 1 .. MaxMessages},
          Role <- {"run"}, I64Max <- MaxRuns * MaxMessages + 1,
          MaxBatch <- MaxRuns * MaxMessages, MaxId <- MaxRuns * MaxMessages,
          Faults <- StoreFaults

LEMMA Product == MaxRuns * MaxMessages \in Nat
<1>1. \A a, b \in Nat : a * b \in Nat
  OBVIOUS
<1> QED
  BY <1>1, RunsAssumption, LimitsAssumption

LEMMA PartsAssumptions ==
    /\ PP!ConstantsAssumption
    /\ SP!EventAssumption
    /\ SP!StoreAssumption
<1>1. PP!ConstantsAssumption
  BY LimitsAssumption DEF PP!ConstantsAssumption, P!AllFaults, PP!AllFaults
<1>2. SP!EventAssumption
  BY EventOfAssumption DEF SP!EventAssumption, S!IsEvent, SP!IsEvent, S!Label, SP!Label
<1>3. SP!StoreAssumption
  BY Product, LimitsAssumption
     DEF SP!StoreAssumption, S!AllFaults, SP!AllFaults, SP!AllRoles
<1> QED
  BY <1>1, <1>2, <1>3

(* What holds the parts together. *)

AllEvents == {EventOf(r, n) : r \in 1 .. MaxRuns, n \in 1 .. MaxMessages}

\* The store is open while writer_loop is between its first step and its last,
\* and a query runs only inside flush_batch, which is never called on nothing.
StoreFollowsWriter ==
    /\ role \in {"none", "run"}
    /\ role = "run" <=> writer \notin {"opening"} \cup P!WriterEnded
    /\ writer \in P!FlushSites => batch # << >>
    /\ queue # << >> => writer \in P!FlushSites
    /\ P!RxOpen => P!Running

\* The query consists of the events of the last messages of the batch.
QueueIsTail ==
    queue # << >> =>
        /\ Len(queue) <= Len(batch)
        /\ \A i \in 1 .. Len(queue) :
               queue[i].event = EventOf(run, batch[Len(batch) - Len(queue) + i])

\* No id is saturated.
IdsInBounds ==
    /\ DOMAIN audit \subseteq 1 .. MaxRuns * MaxMessages
    /\ nextId <= MaxRuns * MaxMessages + 1

\* The rows: those of earlier runs, those of this run's flushes, and those of
\* the flush under way.
RowsAreTheLog ==
    /\ DOMAIN audit = 1 .. Len(past) + Len(committed) + Inserted
    /\ \A i \in 1 .. Len(past) : audit[i] = past[i]
    /\ \A i \in 1 .. Len(committed) : audit[Len(past) + i] = EventOf(run, committed[i])
    /\ \A i \in 1 .. Inserted :
           audit[Len(past) + Len(committed) + i] = EventOf(run, batch[i])

\* A row is one of an event that was stored whole, or the last one of a flush
\* that was cut short, or the one the flush under way is at.
RowsAccountedFor ==
    \A id \in DOMAIN audit :
        \/ \E s \in stored : s.id = id
        \/ id \in cuts
        \/ queue # << >> /\ at > 1 /\ id = Rows

\* The statements of an event set the command lines it has.
HasArgs(node) == node.args # None => nodes[node.key].args # None

CommandLinesSet ==
    /\ \A s \in stored : \A i \in DOMAIN s.event.nodes : HasArgs(s.event.nodes[i])
    /\ queue # << >> =>
           \A i \in 1 .. Len(Head(queue).event.nodes) :
               i + 1 < at => HasArgs(Head(queue).event.nodes[i])

\* A cut leaves a row behind, or the one before, and ends the run.
CutsInPast ==
    /\ cuts \subseteq 0 .. Rows
    /\ writer \notin {"failed", "killed"} => cuts \subseteq 0 .. Len(past)

IInv ==
    /\ PP!IInv
    /\ SP!IInv
    /\ run \in 1 .. MaxRuns
    /\ past \in Seq(AllEvents)
    /\ StoreFollowsWriter
    /\ QueueIsTail
    /\ IdsInBounds
    /\ RowsAreTheLog
    /\ RowsAccountedFor
    /\ CommandLinesSet
    /\ CutsInPast

-----------------------------------------------------------------------------
(* The actions of LiveSystem are those of the parts, and the proofs about the
   parts are about actions of the same definitions. *)

LEMMA PipelineActions ==
    /\ P!Emit => PP!Emit
    /\ P!CtrlC => PP!CtrlC
    /\ P!IntervalElapses => PP!IntervalElapses
    /\ P!HandlerStep => PP!HandlerStep
    /\ P!MainStep => PP!MainStep
    /\ P!ReadShutdown => PP!ReadShutdown
    /\ P!DrainOne => PP!DrainOne
    /\ P!DrainDone => PP!DrainDone
    /\ P!RecvEvent => PP!RecvEvent
    /\ P!RecvTimeout => PP!RecvTimeout
    /\ P!RecvDisconnected => PP!RecvDisconnected
    /\ P!CheckFull => PP!CheckFull
    /\ P!FinalFlush => PP!FinalFlush
    /\ P!OpenStore => PP!OpenStore
    /\ P!OpenStoreFails => PP!OpenStoreFails
    /\ P!FlushOk => PP!FlushOk
    /\ P!FlushFails => PP!FlushFails
    /\ P!FinalReturn => PP!FinalReturn
    /\ P!Kill => PP!Kill
<1> USE DEF P!vars, PP!vars,
           P!kernelVars, PP!kernelVars,
           P!handlerVars, PP!handlerVars,
           P!mainVars, PP!mainVars,
           P!signalVars, PP!signalVars,
           P!writerVars, PP!writerVars,
           P!WriterGoesTo, PP!WriterGoesTo, P!WriterEnds, PP!WriterEnds,
           P!TakeFromChannel, PP!TakeFromChannel, P!Running, PP!Running, P!RxOpen, PP!RxOpen,
           P!SenderAlive, PP!SenderAlive, P!WriterEnded, PP!WriterEnded,
           P!FlushSites, PP!FlushSites, P!PartOfBatch, PP!PartOfBatch
<1>1. P!Emit => PP!Emit
  BY DEF P!Emit, PP!Emit
<1>2. P!CtrlC => PP!CtrlC
  BY DEF P!CtrlC, PP!CtrlC
<1>3. P!IntervalElapses => PP!IntervalElapses
  BY DEF P!IntervalElapses, PP!IntervalElapses
<1>4. P!HandlerStep => PP!HandlerStep
  <2>1. P!HandleNothing => PP!HandleNothing
    BY DEF P!HandleNothing, PP!HandleNothing
  <2>2. P!HandleEvent => PP!HandleEvent
    BY DEF P!HandleEvent, PP!HandleEvent
  <2>3. P!SendOk => PP!SendOk
    BY DEF P!SendOk, PP!SendOk, P!Capacity, PP!Capacity
  <2>4. P!SendErr => PP!SendErr
    BY DEF P!SendErr, PP!SendErr
  <2> QED
    BY <2>1, <2>2, <2>3, <2>4 DEF P!HandlerStep, PP!HandlerStep
<1>5. P!MainStep => PP!MainStep
  <2>1. P!CollectorStarts => PP!CollectorStarts
    BY DEF P!CollectorStarts, PP!CollectorStarts
  <2>2. P!CollectorFails => PP!CollectorFails
    BY DEF P!CollectorFails, PP!CollectorFails
  <2>3. P!PollSeesShutdown => PP!PollSeesShutdown
    BY DEF P!PollSeesShutdown, PP!PollSeesShutdown
  <2>4. P!JoinWriter => PP!JoinWriter
    BY DEF P!JoinWriter, PP!JoinWriter
  <2> QED
    BY <2>1, <2>2, <2>3, <2>4 DEF P!MainStep, PP!MainStep
<1>6. P!ReadShutdown => PP!ReadShutdown
  BY DEF P!ReadShutdown, PP!ReadShutdown
<1>7. P!DrainOne => PP!DrainOne
  BY DEF P!DrainOne, PP!DrainOne
<1>8. P!DrainDone => PP!DrainDone
  BY DEF P!DrainDone, PP!DrainDone
<1>9. P!RecvEvent => PP!RecvEvent
  BY DEF P!RecvEvent, PP!RecvEvent
<1>10. P!RecvTimeout => PP!RecvTimeout
  BY DEF P!RecvTimeout, PP!RecvTimeout
<1>11. P!RecvDisconnected => PP!RecvDisconnected
  BY DEF P!RecvDisconnected, PP!RecvDisconnected
<1>12. P!CheckFull => PP!CheckFull
  BY DEF P!CheckFull, PP!CheckFull, P!BatchLimit, PP!BatchLimit
<1>13. P!FinalFlush => PP!FinalFlush
  BY DEF P!FinalFlush, PP!FinalFlush
<1>14. P!OpenStore => PP!OpenStore
  BY DEF P!OpenStore, PP!OpenStore
<1>15. P!OpenStoreFails => PP!OpenStoreFails
  BY DEF P!OpenStoreFails, PP!OpenStoreFails
<1>16. P!FlushOk => PP!FlushOk
  BY DEF P!FlushOk, PP!FlushOk, P!AfterFlush, PP!AfterFlush
<1>17. P!FlushFails => PP!FlushFails
  BY DEF P!FlushFails, PP!FlushFails
<1>18. P!FinalReturn => PP!FinalReturn
  BY DEF P!FinalReturn, PP!FinalReturn
<1>19. P!Kill => PP!Kill
  BY DEF P!Kill, PP!Kill
<1> QED
  BY <1>1, <1>2, <1>3, <1>4, <1>5, <1>6, <1>7, <1>8, <1>9, <1>10, <1>11, <1>12, <1>13, <1>14, <1>15, <1>16, <1>17, <1>18, <1>19

LEMMA StoreActions ==
    /\ \A r : S!Open(r) => SP!Open(r)
    /\ \A b : S!IngestStarts(b) => SP!IngestStarts(b)
    /\ S!Close => SP!Close
    /\ S!Kill => SP!Kill
    /\ S!ExecuteStatement => SP!ExecuteStatement
    /\ S!NextEvent => SP!NextEvent
    /\ S!IngestReturns => SP!IngestReturns
    /\ S!StatementFails => SP!StatementFails
<1> USE DEF S!durable, SP!durable, S!HandleDropped, SP!HandleDropped
<1>1. \A r : S!Open(r) => SP!Open(r)
  BY DEF S!Open, SP!Open, S!Tables, SP!Tables, S!NextIngestId, SP!NextIngestId
<1>2. \A b : S!IngestStarts(b) => SP!IngestStarts(b)
  BY DEF S!IngestStarts, SP!IngestStarts, S!Valid, SP!Valid
<1>3. S!Close => SP!Close
  BY DEF S!Close, SP!Close
<1>4. S!Kill => SP!Kill
  BY DEF S!Kill, SP!Kill
<1>5. \A e : /\ S!FirstOfEdges(e) = SP!FirstOfEdges(e)
             /\ S!Statements(e) = SP!Statements(e)
             /\ \A k : /\ S!EdgeOf(e, k) = SP!EdgeOf(e, k)
                       /\ S!EdgePart(e, k) = SP!EdgePart(e, k)
                       /\ S!TableOf(e, k) = SP!TableOf(e, k)
  BY DEF S!FirstOfEdges, SP!FirstOfEdges, S!Statements, SP!Statements,
         S!EdgeOf, SP!EdgeOf, S!EdgePart, SP!EdgePart, S!TableOf, SP!TableOf
<1>6. \A e : /\ S!MergeNodeOfEvent(e) => SP!MergeNodeOfEvent(e)
             /\ S!MergeEndpoint(e) => SP!MergeEndpoint(e)
             /\ \A id : S!InsertRow(id, e) => SP!InsertRow(id, e)
             /\ \A id : S!InsertEdge(id, e) => SP!InsertEdge(id, e)
  <2> TAKE e
  <2>1. S!MergeNodeOfEvent(e) => SP!MergeNodeOfEvent(e)
    BY DEF S!MergeNodeOfEvent, SP!MergeNodeOfEvent, S!MergeNode, SP!MergeNode,
           S!Put, SP!Put, S!Props, SP!Props, S!Stub, SP!Stub
  <2>2. S!MergeEndpoint(e) => SP!MergeEndpoint(e)
    BY <1>5 DEF S!MergeEndpoint, SP!MergeEndpoint, S!MergeStub, SP!MergeStub,
           S!Put, SP!Put, S!Props, SP!Props, S!Stub, SP!Stub
  <2>3. \A id : S!InsertRow(id, e) => SP!InsertRow(id, e)
    BY DEF S!InsertRow, SP!InsertRow, S!Put, SP!Put, S!RowId, SP!RowId
  <2>4. \A id : S!InsertEdge(id, e) => SP!InsertEdge(id, e)
    BY <1>5 DEF S!InsertEdge, SP!InsertEdge, S!CreateEdge, SP!CreateEdge,
           S!RowId, SP!RowId
  <2> QED
    BY <2>1, <2>2, <2>3, <2>4
<1>7. S!ExecuteStatement => SP!ExecuteStatement
  BY <1>5, <1>6 DEF S!ExecuteStatement, SP!ExecuteStatement
<1>8. S!NextEvent => SP!NextEvent
  BY <1>5 DEF S!NextEvent, SP!NextEvent
<1>9. S!IngestReturns => SP!IngestReturns
  BY <1>5 DEF S!IngestReturns, SP!IngestReturns
<1>10. S!StatementFails => SP!StatementFails
  BY <1>5 DEF S!StatementFails, SP!StatementFails
<1> QED
  BY <1>1, <1>2, <1>3, <1>4, <1>7, <1>8, <1>9, <1>10

-----------------------------------------------------------------------------
(* Every step is a step of the parts. *)

LEMMA EventsOfBatch ==
    ASSUME PP!IInv, run \in 1 .. MaxRuns
    PROVE  /\ batch \in Seq(PP!Message) /\ Len(batch) \in Nat
           /\ Len(Events(batch)) = Len(batch)
           /\ \A i \in 1 .. Len(batch) : Events(batch)[i] = EventOf(run, batch[i])
           /\ Events(batch) \in [1 .. Len(batch) -> AllEvents]
<1>1. batch \in Seq(PP!Message)
  BY DEF PP!IInv, PP!TypeOK
<1>2. /\ Len(batch) \in Nat
      /\ DOMAIN batch = 1 .. Len(batch)
      /\ \A i \in 1 .. Len(batch) : batch[i] \in 1 .. MaxMessages
  BY <1>1, LenProperties, ElementOfSeq DEF PP!Message
<1>3. Events(batch) \in [1 .. Len(batch) -> AllEvents]
  BY <1>2 DEF Events, AllEvents
<1>4. Len(Events(batch)) = Len(batch)
  BY <1>2, <1>3
<1> QED
  BY <1>1, <1>2, <1>3, <1>4 DEF Events

LEMMA BatchIsABatch ==
    ASSUME IInv, FlushStarts
    PROVE  Events(batch) \in S!Batches /\ Events(batch) \in SP!Batches
<1> DEFINE n == Len(batch)
<1>1. n \in Nat /\ n # 0
  BY EventsOfBatch, EmptySeq DEF IInv, FlushStarts, StoreFollowsWriter
<1>2. nextId + n <= MaxRuns * MaxMessages + 1
  BY EventsOfBatch DEF IInv, FlushStarts, S!IngestStarts
<1>3. nextId \in Nat \ {0}
  BY DEF IInv, SP!IInv, SP!TypeOK
<1>4. n \in 1 .. MaxRuns * MaxMessages
  BY <1>1, <1>2, <1>3, Product
<1>5. Events(batch) \in [1 .. n -> AllEvents]
  BY EventsOfBatch DEF IInv
<1> HIDE DEF n
<1> QED
  BY <1>4, <1>5 DEF S!Batches, SP!Batches, AllEvents

LEMMA StoreStep ==
    ASSUME IInv, [Next]_vars
    PROVE  [S!Next]_(S!vars) /\ [SP!Next]_(SP!vars)
<1> USE DEF storeVars, S!vars, SP!vars, S!durable, SP!durable, S!session, SP!session
<1>1. CASE OpenStore
  BY <1>1, StoreActions DEF OpenStore, S!Next, SP!Next
<1>2. CASE FlushStarts
  BY <1>2, StoreActions, BatchIsABatch DEF FlushStarts, S!Next, SP!Next
<1>3. CASE FlushGoesOn
  BY <1>3, StoreActions DEF FlushGoesOn, S!Next, SP!Next
<1>4. CASE FlushOk
  BY <1>4, StoreActions DEF FlushOk, S!Next, SP!Next
<1>5. CASE FlushFails
  BY <1>5, StoreActions DEF FlushFails, S!Next, SP!Next
<1>6. CASE WriterReturns
  BY <1>6, StoreActions DEF WriterReturns, S!Next, SP!Next
<1>7. CASE Kill
  BY <1>7, StoreActions DEF Kill, S!Next, SP!Next
<1>8. CASE PipelineStep \/ RunAgain \/ Over \/ UNCHANGED vars
  BY <1>8 DEF PipelineStep, RunAgain, Over, vars
<1> QED
  BY <1>1, <1>2, <1>3, <1>4, <1>5, <1>6, <1>7, <1>8 DEF Next

LEMMA PipelineNext ==
    ASSUME [Next]_vars
    PROVE  [PP!Next]_(PP!vars) \/ RunAgain
<1> USE PipelineActions
        DEF PP!Next, PP!WriterStep, P!Running, PP!Running, pipelineVars, PP!vars,
            PP!kernelVars, PP!handlerVars, PP!mainVars, PP!signalVars, PP!writerVars
<1>1. CASE OpenStore
  BY <1>1 DEF OpenStore
<1>2. CASE FlushStarts \/ FlushGoesOn \/ Over \/ UNCHANGED vars
  BY <1>2 DEF FlushStarts, FlushGoesOn, Over, vars
<1>3. CASE FlushOk \/ FlushFails \/ WriterReturns \/ Kill
  BY <1>3 DEF FlushOk, FlushFails, WriterReturns, Kill
<1>4. CASE PipelineStep
  BY <1>4 DEF PipelineStep
<1> QED
  BY <1>1, <1>2, <1>3, <1>4 DEF Next

\* A new process starts from the pipeline's initial state.
LEMMA AnewIsInit ==
    ASSUME PipelineAnew
    PROVE  PP!IInv'
<1>1. PP!Init'
  BY DEF PipelineAnew, PP!Init
<1>2. (PP!Init => PP!IInv)'
  BY PartsAssumptions, PP!InvInit, PTL
<1> QED
  BY <1>1, <1>2

LEMMA PartsStep ==
    ASSUME IInv, [Next]_vars
    PROVE  PP!IInv' /\ SP!IInv'
<1>1. SP!IInv'
  BY PartsAssumptions, StoreStep, SP!StepIInv DEF IInv
<1>2. PP!IInv'
  BY PartsAssumptions, PipelineNext, PP!InvStep, AnewIsInit DEF IInv, RunAgain
<1> QED
  BY <1>1, <1>2

-----------------------------------------------------------------------------
(* Numbers: how many rows there are, and which the next one is. *)

\* A row id below the largest is the id itself.
LEMMA RowIdIs ==
    ASSUME NEW id \in Nat, id <= MaxRuns * MaxMessages + 1
    PROVE  SP!RowId(id) = id
BY Product DEF SP!RowId

LEMMA Lengths ==
    ASSUME IInv
    PROVE  /\ Len(past) \in Nat /\ Len(committed) \in Nat
           /\ Len(batch) \in Nat /\ Len(queue) \in Nat
           /\ queue = << >> <=> Len(queue) = 0
           /\ nextId \in Nat \ {0} /\ at \in Nat \ {0}
           /\ Inserted \in 0 .. Len(batch)
           /\ queue = << >> => Inserted = 0
<1>1. /\ past \in Seq(AllEvents)
      /\ committed \in Seq(PP!Message) /\ batch \in Seq(PP!Message)
      /\ queue \in Seq([id : Nat \ {0}, event : AllEvents])
      /\ nextId \in Nat \ {0} /\ at \in Nat \ {0}
  BY DEF IInv, PP!IInv, PP!TypeOK, SP!IInv, SP!TypeOK, AllEvents
<1>2. /\ Len(past) \in Nat /\ Len(committed) \in Nat
      /\ Len(batch) \in Nat /\ Len(queue) \in Nat
      /\ queue = << >> <=> Len(queue) = 0
  BY <1>1, LenProperties, EmptySeq
<1>3. queue # << >> => Len(queue) <= Len(batch)
  BY DEF IInv, QueueIsTail
<1> QED
  BY <1>1, <1>2, <1>3 DEF Inserted

LEMMA RowsAre ==
    ASSUME IInv
    PROVE  /\ Rows = Len(past) + Len(committed) + Inserted
           /\ Rows \in Nat
           /\ DOMAIN audit = 1 .. Rows
<1>1. DOMAIN audit = 1 .. Len(past) + Len(committed) + Inserted
  BY DEF IInv, RowsAreTheLog
<1>2. Len(past) + Len(committed) + Inserted \in Nat
  BY Lengths
<1> DEFINE n == Len(past) + Len(committed) + Inserted
<1> HIDE DEF n
<1>3. n \in Nat /\ Cardinality(1 .. n) = n
  BY <1>2, FS_Interval DEF n
<1>4. Rows = n
  BY <1>1, <1>3 DEF Rows, n
<1> QED
  BY <1>1, <1>3, <1>4 DEF n

LEMMA SameInterval ==
    ASSUME NEW m \in Nat, NEW n \in Nat, 1 .. m = 1 .. n
    PROVE  m = n
<1>1. m \in 1 .. m \/ m = 0
  OBVIOUS
<1>2. n \in 1 .. n \/ n = 0
  OBVIOUS
<1> QED
  BY <1>1, <1>2

LEMMA HeadRow ==
    ASSUME IInv, queue # << >>
    PROVE  /\ Head(queue) = queue[1]
           /\ Head(queue) \in [id : Nat \ {0}, event : AllEvents]
           /\ Head(queue).event = EventOf(run, batch[Len(batch) - Len(queue) + 1])
           /\ Len(queue) \in 1 .. Len(batch)
           /\ Head(queue).id \in 1 .. MaxRuns * MaxMessages
           /\ SP!RowId(Head(queue).id) = Head(queue).id
           /\ at = 1 => Head(queue).id = Rows + 1
           /\ at # 1 => Head(queue).id = Rows
<1>1. SP!IInv /\ SP!TypeOK
  BY DEF IInv, SP!IInv
<1>2. /\ Head(queue) = queue[1]
      /\ Head(queue) \in [id : Nat \ {0}, event : AllEvents]
  BY <1>1, PartsAssumptions, SP!HeadFacts DEF AllEvents
<1>3. Len(queue) \in 1 .. Len(batch)
  BY Lengths DEF IInv, QueueIsTail
<1>4. Head(queue).event = EventOf(run, batch[Len(batch) - Len(queue) + 1])
  BY <1>2, <1>3 DEF IInv, QueueIsTail
<1> DEFINE id == Head(queue).id
<1>5. id = nextId - Len(queue)
  <2>1. 1 \in 1 .. Len(queue)
    BY <1>3, Lengths
  <2>2. queue[1].id = nextId - Len(queue) + 1 - 1
    BY <1>1, <2>1 DEF SP!IInv, SP!QueueIds
  <2> QED
    BY <1>2, <2>2, Lengths
<1>6. id \in Nat \ {0} /\ id <= MaxRuns * MaxMessages
  BY <1>2, <1>3, <1>5, Lengths, Product DEF IInv, IdsInBounds
<1>7. DOMAIN audit = 1 .. SP!RowId(IF at = 1 THEN id - 1 ELSE id)
  BY <1>1, <1>6 DEF SP!IInv, SP!QueueIds, SP!RowsKnown, SP!LastId, SP!HeadId
<1> HIDE DEF id
<1>8. SP!RowId(id) = id /\ SP!RowId(id - 1) = id - 1
  BY <1>6, RowIdIs, Product
<1>9. Rows = IF at = 1 THEN id - 1 ELSE id
  BY <1>6, <1>7, <1>8, RowsAre, SameInterval
<1> QED
  BY <1>2, <1>3, <1>4, <1>6, <1>8, <1>9, RowsAre DEF id

-----------------------------------------------------------------------------
(* The steps of the store, and what they do to the log of rows. *)

\* Nothing happens to the graph, and the flush under way, if any, is where it
\* was.
LEMMA QuietStep ==
    ASSUME IInv, UNCHANGED <<audit, nodes, stored, queue, past, run, committed, cuts>>,
           queue = << >> \/ UNCHANGED <<at, batch>>
    PROVE  /\ Rows' = Rows
           /\ QueueIsTail' /\ RowsAreTheLog' /\ RowsAccountedFor' /\ CommandLinesSet'
<1>1. Rows' = Rows
  BY DEF Rows
<1>2. Inserted' = Inserted
  BY DEF Inserted
<1>3. \A i \in 1 .. Inserted : batch'[i] = batch[i]
  BY Lengths
<1>4. QueueIsTail'
  BY DEF IInv, QueueIsTail
<1>5. RowsAreTheLog'
  BY <1>2, <1>3 DEF IInv, RowsAreTheLog
<1>6. RowsAccountedFor' /\ CommandLinesSet'
  BY <1>1 DEF IInv, RowsAccountedFor, CommandLinesSet, HasArgs
<1> QED
  BY <1>1, <1>4, <1>5, <1>6

\* A cut is always in the past of a run that goes on.
LEMMA CutsStay ==
    ASSUME IInv, UNCHANGED <<cuts, past>>, Rows' \in Nat, Rows' >= Rows,
           writer \in {"failed", "killed"} => writer' \in {"failed", "killed"}
    PROVE  CutsInPast'
BY RowsAre DEF IInv, CutsInPast

\* The IngestEvent row of the next message of the batch.
LEMMA RowStep ==
    ASSUME IInv, SP!ExecuteStatement, SP!InsertRow(Head(queue).id, Head(queue).event),
           UNCHANGED <<batch, committed, run, past, cuts>>
    PROVE  /\ Rows' = Rows + 1
           /\ DOMAIN audit' \subseteq 1 .. MaxRuns * MaxMessages
           /\ RowsAreTheLog' /\ RowsAccountedFor'
<1>1. queue # << >> /\ queue' = queue /\ at = 1 /\ at' = 2 /\ stored' = stored
  BY DEF SP!ExecuteStatement, SP!InsertRow
<1> DEFINE id == Head(queue).id
           e == Head(queue).event
           k == Len(batch) - Len(queue)
<1>2. /\ id = Rows + 1 /\ SP!RowId(id) = id
      /\ id \in 1 .. MaxRuns * MaxMessages
      /\ e = EventOf(run, batch[k + 1])
      /\ Len(queue) \in 1 .. Len(batch)
  BY <1>1, HeadRow
<1>3. audit' = [r \in DOMAIN audit \cup {id} |-> IF r = id THEN e ELSE audit[r]]
  BY <1>2 DEF SP!InsertRow, SP!Put
<1>4. Inserted = k /\ Inserted' = k + 1 /\ k \in Nat
  BY <1>1, <1>2, Lengths DEF Inserted
<1> HIDE DEF id, e, k
<1>5. /\ Len(past) \in Nat /\ Len(committed) \in Nat
      /\ Rows = Len(past) + Len(committed) + k /\ DOMAIN audit = 1 .. Rows
  BY <1>4, Lengths, RowsAre
<1>6. DOMAIN audit' = 1 .. Rows + 1
  BY <1>2, <1>3, <1>5
<1>7. Rows' = Rows + 1
  <2>1. Rows + 1 \in Nat /\ Cardinality(1 .. Rows + 1) = Rows + 1
    <3> DEFINE m == Rows + 1
    <3>1. m \in Nat
      BY RowsAre
    <3> HIDE DEF m
    <3>2. Cardinality(1 .. m) = m
      BY <3>1, FS_Interval
    <3> QED
      BY <3>1, <3>2 DEF m
  <2>2. Rows' = Cardinality(DOMAIN audit')
    BY DEF Rows
  <2> QED
    BY <1>6, <2>1, <2>2
<1>8. /\ \A r \in 1 .. Rows : audit'[r] = audit[r]
      /\ audit'[Rows + 1] = e
  BY <1>2, <1>3, <1>5
<1>9. RowsAreTheLog'
  <2>1. /\ \A i \in 1 .. Len(past) : audit[i] = past[i]
        /\ \A i \in 1 .. Len(committed) : audit[Len(past) + i] = EventOf(run, committed[i])
        /\ \A i \in 1 .. k : audit[Len(past) + Len(committed) + i] = EventOf(run, batch[i])
    BY <1>4 DEF IInv, RowsAreTheLog
  <2>2. DOMAIN audit' = 1 .. Len(past) + Len(committed) + Inserted'
    BY <1>4, <1>5, <1>6
  <2>3. \A i \in 1 .. Len(past) : audit'[i] = past[i]
    BY <1>4, <1>5, <1>8, <2>1
  <2>4. ASSUME NEW i \in 1 .. Len(committed)
        PROVE  audit'[Len(past) + i] = EventOf(run, committed[i])
    <3>1. Len(past) + i \in 1 .. Rows
      BY <1>4, <1>5
    <3> QED
      BY <1>8, <2>1, <3>1
  <2>5. ASSUME NEW i \in 1 .. k + 1
        PROVE  audit'[Len(past) + Len(committed) + i] = EventOf(run, batch[i])
    <3>1. CASE i = k + 1
      BY <1>2, <1>4, <1>5, <1>8, <3>1
    <3>2. CASE i # k + 1
      <4>1. i \in 1 .. k /\ Len(past) + Len(committed) + i \in 1 .. Rows
        BY <1>4, <1>5, <3>2
      <4> QED
        BY <1>8, <2>1, <4>1
    <3> QED
      BY <3>1, <3>2
  <2> QED
    BY <1>4, <2>2, <2>3, <2>4, <2>5 DEF RowsAreTheLog
<1>10. RowsAccountedFor'
  BY <1>1, <1>5, <1>6, <1>7 DEF IInv, RowsAccountedFor
<1>11. DOMAIN audit' \subseteq 1 .. MaxRuns * MaxMessages
  BY <1>2, <1>3 DEF IInv, IdsInBounds
<1> QED
  BY <1>7, <1>9, <1>10, <1>11

\* The other statements leave the rows alone.
LEMMA OtherStatementRows ==
    ASSUME IInv, SP!ExecuteStatement, at # 1, audit' = audit,
           UNCHANGED <<batch, committed, run, past, cuts>>
    PROVE  Rows' = Rows /\ RowsAreTheLog' /\ RowsAccountedFor'
<1>1. queue # << >> /\ queue' = queue /\ at' = at + 1 /\ stored' = stored /\ at \in Nat \ {0}
  BY Lengths DEF SP!ExecuteStatement
<1>2. Rows' = Rows /\ Inserted' = Inserted
  BY <1>1 DEF Rows, Inserted
<1>3. RowsAreTheLog'
  BY <1>2 DEF IInv, RowsAreTheLog
<1>4. RowsAccountedFor'
  BY <1>1, <1>2 DEF IInv, RowsAccountedFor
<1> QED
  BY <1>2, <1>3, <1>4

\* A command line stays set, and the node that a statement merges has its own.
LEMMA StatementSetsArgs ==
    ASSUME IInv, SP!ExecuteStatement
    PROVE  CommandLinesSet'
<1> DEFINE e == Head(queue).event
<1>1. SP!IInv /\ SP!Remembered
  BY PartsAssumptions, SP!StatementForgetsNothing DEF IInv
<1>2. /\ queue # << >> /\ queue' = queue /\ at' = at + 1 /\ stored' = stored
      /\ at \in Nat \ {0}
  BY Lengths DEF SP!ExecuteStatement
<1>3. \A n : n.key \in DOMAIN nodes /\ HasArgs(n) => HasArgs(n)'
  BY <1>1 DEF HasArgs, SP!Remembered
<1>4. \A s \in stored : \A i \in DOMAIN s.event.nodes : HasArgs(s.event.nodes[i])'
  BY <1>1, <1>3 DEF IInv, CommandLinesSet, SP!IInv, SP!StoredIsComplete
<1>5. ASSUME NEW i \in 1 .. Len(e.nodes), i + 1 < at
      PROVE  HasArgs(e.nodes[i])'
  BY <1>1, <1>2, <1>3, <1>5
     DEF IInv, CommandLinesSet, SP!IInv, SP!Executed, SP!NodesDone, SP!HeadEvent
<1>6. ASSUME NEW i \in 1 .. Len(e.nodes), i + 1 = at
      PROVE  HasArgs(e.nodes[i])'
  <2>1. e \in AllEvents
    BY <1>2, HeadRow
  <2>2. Len(e.nodes) \in Nat
    BY <2>1, EventOfAssumption DEF AllEvents
  <2>3. SP!MergeNodeOfEvent(e)
    <3>1. SP!FirstOfEdges(e) = Len(e.nodes) + 2
      BY DEF SP!FirstOfEdges
    <3>2. at # 1 /\ at < SP!FirstOfEdges(e)
      BY <1>2, <1>6, <2>2, <3>1
    <3>3. /\ ~SP!InsertRow(Head(queue).id, e)
          /\ ~(at \in SP!FirstOfEdges(e) .. SP!Statements(e))
      BY <1>2, <2>2, <3>1, <3>2 DEF SP!InsertRow
    <3> QED
      BY <3>3 DEF SP!ExecuteStatement, SP!MergeEndpoint, SP!InsertEdge
  <2> DEFINE n == e.nodes[i]
  <2>4. SP!MergeNode(n, e.time)
    <3>1. at - 1 = i
      BY <1>2, <1>6, <2>2
    <3> QED
      BY <2>3, <3>1 DEF SP!MergeNodeOfEvent
  <2> HIDE DEF n
  <2>5. n.args # None => nodes'[n.key].args = n.args
    BY <2>4 DEF SP!MergeNode, SP!Put
  <2> QED
    BY <1>2, <2>5 DEF HasArgs, n
<1>7. ASSUME NEW i \in 1 .. Len(e.nodes), i + 1 < at'
      PROVE  HasArgs(e.nodes[i])'
  <2>1. i \in Int
    OBVIOUS
  <2>2. i + 1 < at \/ i + 1 = at
    BY <1>2, <1>7, <2>1
  <2> QED
    BY <1>5, <1>6, <2>2
<1> QED
  BY <1>2, <1>4, <1>7 DEF CommandLinesSet, HasArgs

LEMMA StatementStep ==
    ASSUME IInv, SP!ExecuteStatement, UNCHANGED <<batch, committed, run, past, cuts>>
    PROVE  /\ Rows' \in Nat /\ Rows' >= Rows
           /\ QueueIsTail' /\ IdsInBounds' /\ RowsAreTheLog' /\ RowsAccountedFor'
           /\ CommandLinesSet'
<1>1. CASE SP!InsertRow(Head(queue).id, Head(queue).event)
  BY <1>1, RowStep, RowsAre, StatementSetsArgs
     DEF SP!ExecuteStatement, IInv, QueueIsTail, IdsInBounds
<1>2. CASE ~SP!InsertRow(Head(queue).id, Head(queue).event)
  <2> DEFINE e == Head(queue).event
  <2>1. /\ \/ SP!MergeNodeOfEvent(e) \/ SP!MergeEndpoint(e)
           \/ SP!InsertEdge(Head(queue).id, e)
        /\ queue # << >> /\ queue' = queue /\ nextId' = nextId
    BY <1>2 DEF SP!ExecuteStatement
  <2>2. e \in AllEvents
    BY <2>1, HeadRow
  <2>3. Len(e.nodes) \in Nat /\ SP!FirstOfEdges(e) = Len(e.nodes) + 2
    BY <2>2, EventOfAssumption DEF AllEvents, SP!FirstOfEdges
  <2> HIDE DEF e
  <2>4. \A b : 1 \notin Len(e.nodes) + 2 .. b
    BY <2>3
  <2>5. at # 1 /\ audit' = audit
    BY <2>1, <2>3, <2>4 DEF SP!MergeNodeOfEvent, SP!MergeEndpoint, SP!InsertEdge
  <2> QED
    BY <2>1, <2>5, OtherStatementRows, RowsAre, StatementSetsArgs
       DEF IInv, QueueIsTail, IdsInBounds
<1> QED
  BY <1>1, <1>2

\* An event is through: the row of its message is complete.
LEMMA HeadThrough ==
    ASSUME IInv, queue # << >>, at > SP!Statements(Head(queue).event)
    PROVE  /\ at # 1 /\ Head(queue).id = Rows
           /\ \A i \in DOMAIN Head(queue).event.nodes : HasArgs(Head(queue).event.nodes[i])
<1> DEFINE e == Head(queue).event
<1>1. e \in AllEvents /\ (at # 1 => Head(queue).id = Rows)
  BY HeadRow
<1>2. /\ Len(e.nodes) \in Nat /\ DOMAIN e.nodes = 1 .. Len(e.nodes)
      /\ Len(e.edges) \in Nat
      /\ SP!Statements(e) = 1 + Len(e.nodes) + 3 * Len(e.edges)
  BY <1>1, EventOfAssumption DEF AllEvents, SP!Statements
<1>3. at > 1 + Len(e.nodes) /\ at \in Nat
  <2> HIDE DEF e
  <2>1. at > SP!Statements(e)
    BY DEF e
  <2>2. \A a, l, m \in Nat : a > 1 + l + 3 * m => a > 1 + l
    OBVIOUS
  <2> QED
    BY <1>2, <2>1, <2>2, Lengths
<1>4. \A i \in 1 .. Len(e.nodes) : HasArgs(e.nodes[i])
  <2>1. \A i \in 1 .. Len(e.nodes) : i + 1 < at
    <3> HIDE DEF e
    <3> QED
      BY <1>2, <1>3
  <2> QED
    BY <2>1 DEF IInv, CommandLinesSet
<1>5. at # 1
  <2> HIDE DEF e
  <2> QED
    BY <1>2, <1>3
<1> QED
  BY <1>1, <1>2, <1>4, <1>5

\* The row of an event that joins the stored ones is accounted for by that.
LEMMA StoredAccounts ==
    ASSUME IInv, queue # << >>, at > SP!Statements(Head(queue).event),
           UNCHANGED <<audit, nodes, cuts>>, stored' = stored \cup {Head(queue)}
    PROVE  /\ \A id \in DOMAIN audit : (\E s \in stored' : s.id = id) \/ id \in cuts
           /\ \A s \in stored' : \A i \in DOMAIN s.event.nodes : HasArgs(s.event.nodes[i])'
<1>1. \A id \in DOMAIN audit :
          (\E s \in stored : s.id = id) \/ id \in cuts \/ id = Head(queue).id
  BY HeadThrough DEF IInv, RowsAccountedFor
<1>2. \A n : HasArgs(n) => HasArgs(n)'
  BY DEF HasArgs
<1>3. \A s \in stored' : \A i \in DOMAIN s.event.nodes : HasArgs(s.event.nodes[i])
  BY HeadThrough DEF IInv, CommandLinesSet
<1> QED
  BY <1>1, <1>2, <1>3

LEMMA NextEventStep ==
    ASSUME IInv, SP!NextEvent, UNCHANGED <<batch, committed, run, past, cuts>>
    PROVE  /\ Rows' = Rows
           /\ QueueIsTail' /\ IdsInBounds' /\ RowsAreTheLog' /\ RowsAccountedFor'
           /\ CommandLinesSet'
<1> USE DEF SP!NextEvent, SP!durable
<1> DEFINE Q == [id : Nat \ {0}, event : AllEvents]
           n == Len(queue)
<1>1. queue \in Seq(Q) /\ queue # << >> /\ n \in Nat /\ n > 1 /\ Len(batch) \in Nat
  BY Lengths DEF IInv, SP!IInv, SP!TypeOK, AllEvents
<1>2. /\ queue' \in Seq(Q) /\ Len(queue') = n - 1
      /\ \A i \in 1 .. n - 1 : queue'[i] = queue[i + 1]
  BY <1>1, HeadTailProperties
<1>3. at # 1 /\ at' = 1
  BY <1>1, HeadThrough
<1>4. queue' # << >>
  <2>1. Len(queue') # 0
    BY <1>1, <1>2
  <2> QED
    BY <2>1, EmptySeq
<1>5. n <= Len(batch) /\ Inserted' = Inserted
  <2>1. n <= Len(batch)
    BY <1>1 DEF IInv, QueueIsTail
  <2>2. Inserted = Len(batch) - n + 1
    BY <1>1, <1>3, Lengths DEF Inserted
  <2>3. Inserted' = Len(batch) - (n - 1)
    BY <1>1, <1>2, <1>3, <1>4, <2>1 DEF Inserted
  <2> QED
    BY <1>1, <2>1, <2>2, <2>3
<1>6. QueueIsTail'
  <2>1. ASSUME NEW i \in 1 .. n - 1
        PROVE  queue'[i].event = EventOf(run, batch[Len(batch) - (n - 1) + i])
    <3>1. i + 1 \in 1 .. n /\ Len(batch) - n + (i + 1) = Len(batch) - (n - 1) + i
      BY <1>1
    <3>2. queue[i + 1].event = EventOf(run, batch[Len(batch) - n + (i + 1)])
      BY <1>1, <3>1 DEF IInv, QueueIsTail
    <3> QED
      BY <1>2, <3>1, <3>2
  <2> QED
    BY <1>1, <1>2, <1>5, <2>1 DEF QueueIsTail
<1>7. Rows' = Rows /\ RowsAreTheLog' /\ IdsInBounds'
  BY <1>5 DEF IInv, RowsAreTheLog, IdsInBounds, Rows
<1>8. RowsAccountedFor'
  BY <1>1, StoredAccounts DEF RowsAccountedFor
<1>9. CommandLinesSet'
  <2>1. \A s \in stored' : \A i \in DOMAIN s.event.nodes : HasArgs(s.event.nodes[i])'
    BY <1>1, StoredAccounts
  <2>2. \A i \in 1 .. Len(Head(queue').event.nodes) : ~(i + 1 < at')
    <3>1. \A b : \A i \in 1 .. b : ~(i + 1 < 1)
      OBVIOUS
    <3> QED
      BY <1>3, <3>1
  <2> QED
    BY <2>1, <2>2 DEF CommandLinesSet, HasArgs
<1> QED
  BY <1>6, <1>7, <1>8, <1>9

-----------------------------------------------------------------------------
(* The steps that begin and end a flush. *)

\* The rows that the flush inserted become rows of the log.
LEMMA LogGrows ==
    ASSUME IInv, UNCHANGED <<audit, past, run>>, queue' = << >>,
           committed' = committed \o SubSeq(batch, 1, Inserted)
    PROVE  Rows' = Rows /\ RowsAreTheLog'
<1> DEFINE k == Inserted
           done == SubSeq(batch, 1, k)
<1>1. /\ committed \in Seq(PP!Message) /\ batch \in Seq(PP!Message)
      /\ k \in 0 .. Len(batch) /\ Len(batch) \in Nat
      /\ Len(past) \in Nat /\ Len(committed) \in Nat
  BY Lengths DEF IInv, PP!IInv, PP!TypeOK
<1>2. done \in Seq(PP!Message) /\ Len(done) = k /\ \A i \in 1 .. k : done[i] = batch[i]
  <2> HIDE DEF k
  <2>1. \A i \in 1 .. k : batch[i] \in PP!Message
    BY <1>1, ElementOfSeq
  <2>2. /\ SubSeq(batch, 1, k) \in Seq(PP!Message)
        /\ Len(SubSeq(batch, 1, k)) = IF 1 <= k THEN k - 1 + 1 ELSE 0
        /\ \A i \in 1 .. k - 1 + 1 : SubSeq(batch, 1, k)[i] = batch[1 + i - 1]
    BY <1>1, <2>1, SubSeqProperties
  <2> QED
    BY <1>1, <2>2
<1> HIDE DEF done
<1>3. /\ Len(committed') = Len(committed) + k
      /\ \A i \in 1 .. Len(committed) + k :
             committed'[i] = IF i <= Len(committed) THEN committed[i]
                             ELSE done[i - Len(committed)]
  BY <1>1, <1>2, ConcatProperties DEF done
<1>4. Inserted' = 0
  BY DEF Inserted
<1> HIDE DEF k
<1>5. DOMAIN audit' = 1 .. Len(past) + Len(committed') + Inserted'
  BY <1>1, <1>3, <1>4 DEF IInv, RowsAreTheLog, k
<1>6. ASSUME NEW i \in 1 .. Len(committed')
      PROVE  audit'[Len(past) + i] = EventOf(run, committed'[i])
  <2> DEFINE m == Len(committed)
  <2>1. m \in Nat /\ k \in Nat /\ i \in 1 .. m + k /\ Len(past) \in Nat
    <3>1. m \in Nat /\ k \in Nat /\ Len(past) \in Nat
      BY <1>1
    <3>2. Len(committed') = m + k
      BY <1>3
    <3> QED
      BY <3>1, <3>2
  <2>2. /\ i <= m => committed'[i] = committed[i]
        /\ ~(i <= m) => committed'[i] = done[i - m]
    BY <1>3, <2>1
  <2>3. /\ \A j \in 1 .. m : audit[Len(past) + j] = EventOf(run, committed[j])
        /\ \A j \in 1 .. k : audit[Len(past) + m + j] = EventOf(run, batch[j])
    BY DEF IInv, RowsAreTheLog, k
  <2> HIDE DEF m
  <2>4. CASE i <= m
    <3>1. i \in 1 .. m
      BY <2>1, <2>4
    <3> QED
      BY <2>2, <2>3, <2>4, <3>1
  <2>5. CASE ~(i <= m)
    <3>1. i - m \in 1 .. k /\ Len(past) + m + (i - m) = Len(past) + i
      BY <2>1, <2>5
    <3>2. committed'[i] = batch[i - m]
      BY <1>2, <2>2, <2>5, <3>1
    <3>3. audit[Len(past) + m + (i - m)] = EventOf(run, batch[i - m])
      BY <2>3, <3>1
    <3> QED
      BY <3>1, <3>2, <3>3
  <2> QED
    BY <2>4, <2>5
<1>7. Rows' = Rows /\ \A i \in 1 .. Len(past) : audit'[i] = past[i]
  BY DEF IInv, RowsAreTheLog, Rows
<1>8. \A i \in 1 .. Inserted' : FALSE
  BY <1>4
<1>9. past' = past /\ run' = run
  OBVIOUS
<1> QED
  BY <1>5, <1>6, <1>7, <1>8, <1>9 DEF RowsAreTheLog

\* A failure or a kill in the middle of a flush.
LEMMA CutStep ==
    ASSUME IInv, queue # << >>, CutShort, queue' = << >>, nextId' = 1,
           UNCHANGED <<audit, nodes, stored, past, run>>
    PROVE  /\ Rows' = Rows
           /\ QueueIsTail' /\ IdsInBounds' /\ RowsAreTheLog' /\ RowsAccountedFor'
           /\ CommandLinesSet' /\ cuts' \subseteq 0 .. Rows'
<1>1. Rows' = Rows /\ RowsAreTheLog'
  BY LogGrows DEF CutShort
<1>2. QueueIsTail' /\ CommandLinesSet'
  BY DEF IInv, QueueIsTail, CommandLinesSet, HasArgs
<1>3. IdsInBounds'
  BY Product DEF IInv, IdsInBounds
<1>4. RowsAccountedFor'
  BY <1>1 DEF IInv, RowsAccountedFor, CutShort
<1>5. cuts' \subseteq 0 .. Rows'
  <2>1. cuts \subseteq 0 .. Rows /\ Rows \in Nat
    BY RowsAre DEF IInv, CutsInPast
  <2>2. cuts' = cuts \cup {Rows}
    BY DEF CutShort
  <2> QED
    BY <1>1, <2>1, <2>2
<1> QED
  BY <1>1, <1>2, <1>3, <1>4, <1>5

\* The last event of the batch is through, and the flush returns.
LEMMA FlushOkStep ==
    ASSUME IInv, FlushOk
    PROVE  /\ Rows' = Rows
           /\ QueueIsTail' /\ IdsInBounds' /\ RowsAreTheLog' /\ RowsAccountedFor'
           /\ CommandLinesSet'
<1>1. /\ SP!IngestReturns /\ committed' = committed \o batch
      /\ UNCHANGED <<run, past, cuts>>
  BY StoreActions DEF FlushOk, P!FlushOk, runVars
<1>2. /\ Len(queue) = 1 /\ queue # << >>
      /\ at > SP!Statements(Head(queue).event)
      /\ stored' = stored \cup {Head(queue)}
      /\ UNCHANGED <<audit, nodes>>
  BY <1>1, EmptySeq DEF SP!IngestReturns, SP!durable
<1>3. role = "run"
  BY <1>2 DEF IInv, SP!IInv, SP!QueueIds, StoreFollowsWriter
<1>4. queue' = << >> /\ nextId' = nextId
  BY <1>1, <1>3 DEF SP!IngestReturns
<1>5. Inserted = Len(batch)
  BY <1>2, HeadThrough, Lengths DEF Inserted
<1>6. SubSeq(batch, 1, Inserted) = batch
  BY <1>5, SubSeqFull DEF IInv, PP!IInv, PP!TypeOK
<1>7. Rows' = Rows /\ RowsAreTheLog'
  BY <1>1, <1>2, <1>4, <1>6, LogGrows
<1>8. RowsAccountedFor'
  BY <1>1, <1>2, StoredAccounts DEF RowsAccountedFor
<1>9. CommandLinesSet'
  BY <1>1, <1>2, <1>4, StoredAccounts DEF CommandLinesSet, HasArgs
<1>10. QueueIsTail' /\ IdsInBounds'
  BY <1>2, <1>4 DEF IInv, QueueIsTail, IdsInBounds
<1> QED
  BY <1>7, <1>8, <1>9, <1>10

\* ingest takes the whole batch.
LEMMA FlushStartsStep ==
    ASSUME IInv, FlushStarts
    PROVE  /\ Rows' = Rows
           /\ QueueIsTail' /\ IdsInBounds' /\ RowsAreTheLog' /\ RowsAccountedFor'
           /\ CommandLinesSet'
<1> DEFINE n == Len(batch)
<1>1. /\ queue = << >> /\ at' = 1
      /\ nextId' = nextId + Len(Events(batch))
      /\ nextId + Len(Events(batch)) <= MaxRuns * MaxMessages + 1
      /\ queue' = [i \in 1 .. Len(Events(batch)) |->
                      [id |-> nextId + i - 1, event |-> Events(batch)[i]]]
      /\ UNCHANGED <<audit, nodes, stored, batch, committed, past, run, cuts>>
  BY DEF FlushStarts, S!IngestStarts, S!durable, pipelineVars, runVars
<1>2. /\ n \in Nat /\ Len(Events(batch)) = n
      /\ \A i \in 1 .. n : Events(batch)[i] = EventOf(run, batch[i])
  BY EventsOfBatch DEF IInv
<1>3. Len(queue') = n /\ \A i \in 1 .. n : queue'[i].event = EventOf(run, batch[i])
  BY <1>1, <1>2
<1>4. QueueIsTail'
  BY <1>1, <1>2, <1>3 DEF QueueIsTail
<1>5. Rows' = Rows /\ Inserted = 0 /\ Inserted' = 0
  BY <1>1, <1>2, <1>3, Lengths DEF Rows, Inserted
<1>6. RowsAreTheLog' /\ RowsAccountedFor'
  BY <1>1, <1>5 DEF IInv, RowsAreTheLog, RowsAccountedFor
<1>7. CommandLinesSet'
  <2>1. \A b : \A i \in 1 .. b : ~(i + 1 < 1)
    OBVIOUS
  <2> QED
    BY <1>1, <2>1 DEF IInv, CommandLinesSet, HasArgs
<1>8. IdsInBounds'
  BY <1>1, <1>2 DEF IInv, IdsInBounds
<1> QED
  BY <1>4, <1>5, <1>6, <1>7, <1>8

\* The store continues behind the last row that is there.
LEMMA OpenStoreStep ==
    ASSUME IInv, OpenStore, SP!IInv'
    PROVE  /\ Rows' = Rows
           /\ QueueIsTail' /\ IdsInBounds' /\ RowsAreTheLog' /\ RowsAccountedFor'
           /\ CommandLinesSet'
<1>1. /\ S!Open("run") /\ role = "none"
      /\ UNCHANGED <<audit, nodes, stored, queue, past, run, committed, cuts>>
  BY DEF OpenStore, S!Open, P!OpenStore, P!OpenStoreFails, P!WriterGoesTo, P!WriterEnds,
         runVars
<1>2. queue = << >>
  BY <1>1 DEF IInv, SP!IInv, SP!QueueIds
<1>3. nextId' <= MaxRuns * MaxMessages + 1
  <2>1. CASE role' = "none"
    <3>1. nextId' = nextId
      BY <1>1, <2>1 DEF S!Open
    <3> QED
      BY <3>1 DEF IInv, IdsInBounds
  <2>2. CASE role' # "none"
    <3> DEFINE m == MaxRuns * MaxMessages
    <3>1. DOMAIN audit = 1 .. SP!RowId(nextId' - 1)
      BY <1>1, <1>2, <2>2 DEF SP!IInv, SP!RowsKnown, SP!LastId, SP!RowId
    <3>2. nextId' \in Nat \ {0} /\ DOMAIN audit \subseteq 1 .. m /\ m \in Nat
      BY Product DEF SP!IInv, SP!TypeOK, IInv, IdsInBounds
    <3>3. SP!RowId(nextId' - 1) = IF nextId' - 1 <= m + 1 THEN nextId' - 1 ELSE m + 1
      BY DEF SP!RowId
    <3>4. nextId' - 1 \in Nat /\ m + 1 \in Nat
      <4>1. nextId' - 1 \in Nat
        <5>1. \A x \in Nat \ {0} : x - 1 \in Nat
          OBVIOUS
        <5>2. nextId' \in Nat \ {0}
          BY <3>2
        <5> QED
          BY <5>1, <5>2
      <4>2. m + 1 \in Nat
        BY Product
      <4> QED
        BY <4>1, <4>2
    <3> HIDE DEF m
    <3>5. SP!RowId(nextId' - 1) <= m
      <4> DEFINE r == SP!RowId(nextId' - 1)
      <4>1. DOMAIN audit = 1 .. r
        BY <3>1
      <4>2. r \in Nat
        <5>1. r \in {nextId' - 1, m + 1}
          BY <3>3
        <5> QED
          BY <3>4, <5>1
      <4> HIDE DEF r
      <4>3. r = 0 \/ r \in 1 .. m
        BY <3>2, <4>1, <4>2
      <4> QED
        BY <3>2, <4>3 DEF r
    <3> QED
      BY <3>2, <3>3, <3>5 DEF m
  <2> QED
    BY <2>1, <2>2
<1> QED
  BY <1>1, <1>2, <1>3, QuietStep DEF IInv, IdsInBounds

-----------------------------------------------------------------------------
(* The writer and its store. *)

\* The pipeline's own steps keep the writer between OpenStore and WriterReturns
\* and give flush_batch something to flush.
LEMMA PipelineStepControl ==
    ASSUME IInv, PipelineStep
    PROVE  /\ StoreFollowsWriter'
           /\ writer \in {"failed", "killed"} => writer' = writer
           /\ queue # << >> => batch' = batch
           /\ UNCHANGED <<storeVars, past, run, committed, cuts>>
<1> USE DEF PipelineStep, StoreFollowsWriter, P!Running, P!RxOpen, P!WriterEnded,
            P!FlushSites, storeVars, runVars, P!kernelVars, P!handlerVars, P!mainVars,
            P!signalVars, P!writerVars
<1>1. StoreFollowsWriter
  BY DEF IInv
<1>2. CASE P!Emit \/ P!CtrlC \/ P!IntervalElapses
  BY <1>1, <1>2 DEF P!Emit, P!CtrlC, P!IntervalElapses
<1>3. CASE P!HandlerStep
  BY <1>1, <1>3 DEF P!HandlerStep, P!HandleNothing, P!HandleEvent, P!SendOk, P!SendErr
<1>4. CASE P!MainStep
  BY <1>1, <1>4 DEF P!MainStep, P!CollectorStarts, P!CollectorFails, P!PollSeesShutdown,
                    P!JoinWriter
<1>5. CASE P!ReadShutdown \/ P!DrainOne \/ P!RecvEvent \/ P!RecvDisconnected
  BY <1>1, <1>5 DEF P!ReadShutdown, P!DrainOne, P!RecvEvent, P!RecvDisconnected,
                    P!WriterGoesTo
<1>6. CASE P!DrainDone \/ P!RecvTimeout \/ P!FinalFlush
  BY <1>1, <1>6 DEF P!DrainDone, P!RecvTimeout, P!FinalFlush, P!WriterGoesTo
<1>7. CASE P!CheckFull
  <2>1. Len(batch) >= P!BatchLimit => batch # << >>
    <3>1. P!BatchLimit \in Nat /\ P!BatchLimit >= 1
      BY LimitsAssumption DEF P!BatchLimit
    <3>2. Len(<< >>) = 0
      BY EmptySeq
    <3> QED
      BY <3>1, <3>2
  <2> QED
    BY <1>1, <1>7, <2>1 DEF P!CheckFull, P!WriterGoesTo
<1> QED
  BY <1>2, <1>3, <1>4, <1>5, <1>6, <1>7

LEMMA ControlStep ==
    ASSUME IInv, [Next]_vars
    PROVE  /\ StoreFollowsWriter'
           /\ RunAgain \/ (writer \in {"failed", "killed"} => writer' = writer)
<1> USE DEF StoreFollowsWriter, P!Running, P!RxOpen, P!WriterEnded, P!FlushSites,
            storeVars, runVars, pipelineVars, P!kernelVars, P!handlerVars, P!mainVars,
            P!signalVars, P!writerVars
<1>1. StoreFollowsWriter /\ (role = "none" => queue = << >>)
  BY DEF IInv, SP!IInv, SP!QueueIds
<1>2. CASE OpenStore
  BY <1>1, <1>2 DEF OpenStore, S!Open, P!OpenStore, P!OpenStoreFails, P!WriterGoesTo,
                    P!WriterEnds
<1>3. CASE FlushStarts
  BY <1>1, <1>3 DEF FlushStarts, S!IngestStarts
<1>4. CASE FlushGoesOn
  BY <1>1, <1>4 DEF FlushGoesOn, S!ExecuteStatement, S!NextEvent
<1>5. CASE FlushOk
  <2>1. role = "run" /\ queue' = << >>
    <3>1. queue # << >>
      BY <1>5, EmptySeq DEF FlushOk, S!IngestReturns
    <3> QED
      BY <1>1, <1>5, <3>1 DEF FlushOk, S!IngestReturns
  <2>2. P!FlushOk /\ S!IngestReturns /\ P!Running
    BY <1>5 DEF FlushOk
  <2> QED
    BY <1>1, <2>1, <2>2 DEF P!FlushOk, P!AfterFlush, S!IngestReturns
<1>6. CASE FlushFails
  BY <1>1, <1>6 DEF FlushFails, S!StatementFails, S!HandleDropped, P!FlushFails, P!WriterEnds
<1>7. CASE WriterReturns
  BY <1>1, <1>7 DEF WriterReturns, S!Close, S!HandleDropped, P!FinalReturn, P!WriterEnds
<1>8. CASE Kill
  BY <1>1, <1>8 DEF Kill, P!Kill, S!Kill, S!HandleDropped
<1>9. CASE PipelineStep
  BY <1>9, PipelineStepControl
<1>10. CASE RunAgain
  BY <1>1, <1>10 DEF RunAgain, PipelineAnew
<1>11. CASE Over \/ UNCHANGED vars
  BY <1>1, <1>11 DEF Over, vars
<1> QED
  BY <1>2, <1>3, <1>4, <1>5, <1>6, <1>7, <1>8, <1>9, <1>10, <1>11 DEF Next

\* The rows of a run that is over are the rows of the past.
LEMMA RunAgainStep ==
    ASSUME IInv, RunAgain
    PROVE  /\ run' \in 1 .. MaxRuns /\ past' \in Seq(AllEvents)
           /\ QueueIsTail' /\ IdsInBounds' /\ RowsAreTheLog' /\ RowsAccountedFor'
           /\ CommandLinesSet' /\ CutsInPast'
<1> DEFINE m == Len(past)
           c == Len(committed)
<1>1. queue = << >> /\ Inserted = 0 /\ m \in Nat /\ c \in Nat
  <2>1. queue = << >>
    BY DEF IInv, RunAgain, StoreFollowsWriter, P!RxOpen, P!WriterEnded, P!FlushSites
  <2> QED
    BY <2>1, Lengths
<1>2. /\ committed' = << >> /\ batch' = << >>
      /\ run' = run + 1 /\ past' = past \o Events(committed)
      /\ UNCHANGED <<audit, nodes, stored, queue, at, nextId, cuts>>
  BY DEF RunAgain, PipelineAnew, storeVars
<1>3. run' \in 1 .. MaxRuns
  BY <1>2, RunsAssumption DEF IInv, RunAgain
<1>4. /\ past \in Seq(AllEvents) /\ Events(committed) \in Seq(AllEvents)
      /\ Len(Events(committed)) = c
      /\ \A i \in 1 .. c : Events(committed)[i] = EventOf(run, committed[i])
  <2>1. committed \in Seq(PP!Message) /\ past \in Seq(AllEvents) /\ run \in 1 .. MaxRuns
    BY DEF IInv, PP!IInv, PP!TypeOK
  <2>2. DOMAIN committed = 1 .. c /\ \A i \in 1 .. c : committed[i] \in 1 .. MaxMessages
    BY <2>1, LenProperties, ElementOfSeq DEF PP!Message
  <2>3. Events(committed) \in [1 .. c -> AllEvents]
    BY <2>1, <2>2 DEF Events, AllEvents
  <2> HIDE DEF c
  <2>4. Events(committed) \in Seq(AllEvents) /\ Len(Events(committed)) = c
    BY <1>1, <2>3, LenProperties
  <2> QED
    BY <2>1, <2>2, <2>4 DEF Events
<1>5. /\ past' \in Seq(AllEvents) /\ Len(past') = m + c
      /\ \A i \in 1 .. m + c :
             past'[i] = IF i <= m THEN past[i] ELSE Events(committed)[i - m]
  <2> DEFINE ev == Events(committed)
  <2>1. past' = past \o ev /\ ev \in Seq(AllEvents) /\ Len(ev) = c /\ past \in Seq(AllEvents)
    BY <1>2, <1>4
  <2> HIDE DEF ev
  <2>2. /\ past \o ev \in Seq(AllEvents)
        /\ Len(past \o ev) = Len(past) + Len(ev)
        /\ \A i \in 1 .. Len(past) + Len(ev) :
               (past \o ev)[i] = IF i <= Len(past) THEN past[i] ELSE ev[i - Len(past)]
    BY <2>1, ConcatProperties
  <2> QED
    BY <2>1, <2>2 DEF ev
<1>6. Len(committed') = 0 /\ Inserted' = 0 /\ Rows' = Rows
  BY <1>1, <1>2, EmptySeq DEF Inserted, Rows
<1>7. Rows = m + c /\ DOMAIN audit = 1 .. m + c
  BY <1>1, RowsAre
<1>8. /\ \A i \in 1 .. m : audit[i] = past[i]
      /\ \A i \in 1 .. c : audit[m + i] = EventOf(run, committed[i])
  BY DEF IInv, RowsAreTheLog
<1> HIDE DEF m, c
<1>9. ASSUME NEW i \in 1 .. m + c
      PROVE  audit[i] = past'[i]
  <2>1. CASE i <= m
    BY <1>1, <1>5, <1>8, <2>1
  <2>2. CASE ~(i <= m)
    <3>1. i - m \in 1 .. c /\ m + (i - m) = i
      BY <1>1, <2>2
    <3>2. audit[m + (i - m)] = EventOf(run, committed[i - m])
      BY <1>8, <3>1
    <3>3. past'[i] = EventOf(run, committed[i - m])
      BY <1>4, <1>5, <2>2, <3>1
    <3> QED
      BY <3>1, <3>2, <3>3
  <2> QED
    BY <2>1, <2>2
<1>10. RowsAreTheLog'
  <2>1. DOMAIN audit' = 1 .. Len(past') + Len(committed') + Inserted'
    BY <1>1, <1>2, <1>5, <1>6, <1>7
  <2>2. \A i \in 1 .. Len(past') : audit'[i] = past'[i]
    BY <1>2, <1>5, <1>9
  <2>3. \A i \in 1 .. 0 : FALSE
    OBVIOUS
  <2> QED
    BY <1>6, <2>1, <2>2, <2>3 DEF RowsAreTheLog
<1>11. QueueIsTail' /\ IdsInBounds' /\ RowsAccountedFor' /\ CommandLinesSet'
  BY <1>1, <1>2, <1>6
     DEF IInv, QueueIsTail, IdsInBounds, RowsAccountedFor, CommandLinesSet, HasArgs
<1>12. CutsInPast'
  BY <1>2, <1>5, <1>6, <1>7 DEF IInv, CutsInPast
<1> QED
  BY <1>3, <1>5, <1>10, <1>11, <1>12

-----------------------------------------------------------------------------
(* The inductive invariant. *)

LEMMA InitIInv == Init => IInv
<1> SUFFICES ASSUME Init PROVE IInv
  OBVIOUS
<1>1. PP!IInv
  <2>1. P!Init => PP!Init
    BY DEF P!Init, PP!Init
  <2> QED
    BY <2>1, PartsAssumptions, PP!InvInit DEF Init
<1>2. SP!IInv
  <2>1. S!Init => SP!Init
    BY DEF S!Init, SP!Init
  <2> QED
    BY <2>1, PartsAssumptions, SP!InitIInv DEF Init
<1>3. Len(<< >>) = 0 /\ << >> \in Seq(AllEvents)
  BY EmptySeq
<1>4. Rows = 0 /\ Inserted = 0
  BY FS_EmptySet DEF Init, S!Init, Rows, Inserted
<1>5. run \in 1 .. MaxRuns /\ past \in Seq(AllEvents)
  BY <1>3, RunsAssumption DEF Init
<1>6. StoreFollowsWriter
  BY DEF Init, P!Init, S!Init, StoreFollowsWriter, P!FlushSites, P!WriterEnded, P!Running,
         P!RxOpen
<1>7. RowsAreTheLog
  <2>1. 1 .. 0 + 0 + 0 = {} /\ \A i \in 1 .. 0 : FALSE
    OBVIOUS
  <2>2. past = << >> /\ committed = << >> /\ DOMAIN audit = {}
    BY DEF Init, P!Init, S!Init
  <2>3. Len(past) = 0 /\ Len(committed) = 0
    BY <1>3, <2>2
  <2> QED
    BY <1>4, <2>1, <2>2, <2>3 DEF RowsAreTheLog
<1>8. QueueIsTail /\ IdsInBounds /\ RowsAccountedFor /\ CommandLinesSet
  BY Product DEF Init, S!Init, QueueIsTail, IdsInBounds, RowsAccountedFor, CommandLinesSet
<1>9. CutsInPast
  BY DEF Init, CutsInPast
<1> QED
  BY <1>1, <1>2, <1>5, <1>6, <1>7, <1>8, <1>9 DEF IInv

LEMMA StepIInv == IInv /\ [Next]_vars => IInv'
<1> SUFFICES ASSUME IInv, [Next]_vars PROVE IInv'
  OBVIOUS
<1> DEFINE Graph == /\ QueueIsTail /\ IdsInBounds /\ RowsAreTheLog /\ RowsAccountedFor
                    /\ CommandLinesSet /\ CutsInPast
<1>1. PP!IInv' /\ SP!IInv' /\ StoreFollowsWriter'
  BY PartsStep, ControlStep
<1>2. Rows \in Nat /\ StoreFollowsWriter /\ (role = "none" => queue = << >>)
  BY RowsAre DEF IInv, SP!IInv, SP!QueueIds
<1>3. ASSUME ~RunAgain, Rows' \in Nat, Rows' >= Rows, UNCHANGED <<cuts, past>>
      PROVE  CutsInPast'
  BY <1>3, ControlStep, CutsStay
<1>4. CASE OpenStore
  <2>1. UNCHANGED <<cuts, past, run>> /\ ~RunAgain
    BY <1>4 DEF OpenStore, RunAgain, runVars
  <2> QED
    BY <1>1, <1>2, <1>3, <1>4, <2>1, OpenStoreStep DEF IInv
<1>5. CASE FlushStarts
  <2>1. UNCHANGED <<cuts, past, run>> /\ ~RunAgain
    BY <1>5 DEF FlushStarts, RunAgain, runVars
  <2> QED
    BY <1>1, <1>2, <1>3, <1>5, <2>1, FlushStartsStep DEF IInv
<1>6. CASE FlushGoesOn
  <2>1. /\ UNCHANGED <<batch, committed, cuts, past, run>> /\ ~RunAgain
        /\ SP!ExecuteStatement \/ SP!NextEvent
    BY <1>6, StoreActions DEF FlushGoesOn, RunAgain, runVars, pipelineVars
  <2> QED
    BY <1>1, <1>2, <1>3, <2>1, StatementStep, NextEventStep DEF IInv
<1>7. CASE FlushOk
  <2>1. UNCHANGED <<cuts, past, run>> /\ ~RunAgain
    BY <1>7 DEF FlushOk, RunAgain, runVars
  <2> QED
    BY <1>1, <1>2, <1>3, <1>7, <2>1, FlushOkStep DEF IInv
<1>8. CASE FlushFails
  <2>1. /\ queue # << >> /\ CutShort /\ queue' = << >> /\ nextId' = 1
        /\ UNCHANGED <<audit, nodes, stored, past, run>>
        /\ writer' = "failed"
    BY <1>8 DEF FlushFails, S!StatementFails, S!HandleDropped, S!durable, runVars,
                P!FlushFails, P!WriterEnds
  <2>2. CutsInPast'
    BY <2>1, CutStep DEF CutsInPast
  <2> QED
    BY <1>1, <2>1, <2>2, CutStep DEF IInv
<1>9. CASE WriterReturns
  <2>1. /\ queue = << >> /\ queue' = << >> /\ nextId' = 1 /\ ~RunAgain
        /\ UNCHANGED <<audit, nodes, stored, past, run, cuts, committed>>
    BY <1>9 DEF WriterReturns, S!Close, S!HandleDropped, S!durable, runVars,
                P!FinalReturn, P!WriterEnds, RunAgain
  <2>2. IdsInBounds'
    BY <2>1, Product DEF IInv, IdsInBounds
  <2> QED
    BY <1>1, <1>2, <1>3, <2>1, <2>2, QuietStep DEF IInv
<1>10. CASE Kill
  <2>1. /\ P!Kill /\ UNCHANGED <<past, run>> /\ ~RunAgain
        /\ UNCHANGED <<audit, nodes, stored>>
        /\ role = "run" => queue' = << >> /\ nextId' = 1
        /\ role # "run" => UNCHANGED <<queue, nextId>>
    BY <1>10 DEF Kill, S!Kill, S!HandleDropped, S!durable, runVars, storeVars, RunAgain,
                 P!Running, P!Kill
  <2>2. CASE queue # << >>
    <3>1. role = "run" /\ writer \in P!FlushSites
      BY <1>2, <2>2 DEF StoreFollowsWriter
    <3>2. writer' = "killed"
      BY <2>1, <3>1 DEF P!Kill, P!RxOpen, P!WriterEnded, P!FlushSites
    <3>3. CutShort
      BY <1>10, <2>2 DEF Kill
    <3>4. CutsInPast'
      BY <2>1, <2>2, <3>1, <3>2, <3>3, CutStep DEF CutsInPast
    <3> QED
      BY <1>1, <2>1, <2>2, <3>1, <3>3, <3>4, CutStep DEF IInv
  <2>3. CASE queue = << >>
    <3>1. queue' = << >> /\ UNCHANGED <<committed, cuts>>
      BY <1>10, <2>1, <2>3, <1>2 DEF Kill, StoreFollowsWriter
    <3>2. IdsInBounds'
      BY <1>2, <2>1, Product DEF IInv, IdsInBounds
    <3> QED
      BY <1>1, <1>2, <1>3, <2>1, <2>3, <3>1, <3>2, QuietStep DEF IInv
  <2> QED
    BY <2>2, <2>3
<1>11. CASE PipelineStep
  <2>1. ~RunAgain
    BY <1>11 DEF PipelineStep, RunAgain
  <2>2. UNCHANGED <<storeVars, past, run, committed, cuts>>
    BY <1>11, PipelineStepControl
  <2>3. queue = << >> \/ UNCHANGED <<at, batch>>
    BY <1>11, <2>2, PipelineStepControl DEF storeVars
  <2> QED
    BY <1>1, <1>2, <1>3, <2>1, <2>2, <2>3, QuietStep DEF IInv, IdsInBounds, storeVars
<1>12. CASE RunAgain
  BY <1>1, <1>12, RunAgainStep DEF IInv
<1>13. CASE Over \/ UNCHANGED vars
  <2>1. UNCHANGED vars /\ ~RunAgain
    BY <1>13, RunsAssumption DEF Over, RunAgain, vars, runVars, IInv
  <2> QED
    BY <1>1, <1>2, <1>3, <2>1, QuietStep
       DEF IInv, IdsInBounds, vars, storeVars, pipelineVars, runVars
<1> QED
  BY <1>4, <1>5, <1>6, <1>7, <1>8, <1>9, <1>10, <1>11, <1>12, <1>13 DEF Next

\* The pipeline's invariant, the store's, and what ties them together.
THEOREM Invariant == Spec => []IInv
BY InitIInv, StepIInv, PTL DEF Spec

-----------------------------------------------------------------------------
(* The properties of LiveSystem. *)

\* The variables keep their types, over the runs.
THEOREM TypeCorrect == Spec => []TypeOK
<1>1. IInv => TypeOK
  <2> SUFFICES ASSUME IInv PROVE TypeOK
    OBVIOUS
  <2>1. P!TypeOK
    BY DEF IInv, PP!IInv, PP!TypeOK, P!TypeOK, P!MainStates, PP!MainStates,
           P!WriterStates, PP!WriterStates, P!FlushSites, PP!FlushSites,
           P!WriterEnded, PP!WriterEnded, P!Message, PP!Message
  <2>2. S!TypeOK
    BY DEF IInv, SP!IInv, SP!TypeOK, S!TypeOK, S!Tables, SP!Tables
  <2>3. cuts \subseteq Nat
    BY RowsAre DEF IInv, CutsInPast
  <2> QED
    BY <2>1, <2>2, <2>3 DEF IInv, TypeOK, AllEvents
<1> QED
  BY Invariant, <1>1, PTL

\* The rows of the graph are the events the pipeline counts as durable, run
\* after run, and the beginning of the batch a flush has got through.
THEOREM GraphIsLog == Spec => []GraphIsTheLog
<1>1. IInv => GraphIsTheLog
  <2> SUFFICES ASSUME IInv PROVE GraphIsTheLog
    OBVIOUS
  <2> DEFINE m == Len(past)
             c == Len(committed)
             k == Inserted
             ec == Events(committed)
             done == SubSeq(batch, 1, k)
             ed == Events(done)
             rows == [id \in 1 .. Rows |-> audit[id]]
  <2>1. /\ past \in Seq(AllEvents) /\ run \in 1 .. MaxRuns
        /\ committed \in Seq(PP!Message) /\ batch \in Seq(PP!Message)
        /\ m \in Nat /\ c \in Nat /\ k \in 0 .. Len(batch) /\ Len(batch) \in Nat
        /\ Rows = m + c + k
    BY Lengths, RowsAre DEF IInv, PP!IInv, PP!TypeOK
  <2>2. ASSUME NEW s \in Seq(PP!Message)
        PROVE  /\ Events(s) \in Seq(AllEvents) /\ Len(Events(s)) = Len(s)
               /\ \A i \in 1 .. Len(s) : Events(s)[i] = EventOf(run, s[i])
    <3>1. /\ DOMAIN s = 1 .. Len(s) /\ Len(s) \in Nat
          /\ \A i \in 1 .. Len(s) : s[i] \in 1 .. MaxMessages
      BY LenProperties, ElementOfSeq DEF PP!Message
    <3>2. Events(s) \in [1 .. Len(s) -> AllEvents]
      BY <2>1, <3>1 DEF Events, AllEvents
    <3>3. Events(s) \in Seq(AllEvents) /\ Len(Events(s)) = Len(s)
      BY <3>1, <3>2, LenProperties
    <3> QED
      BY <3>1, <3>3 DEF Events
  <2>3. done \in Seq(PP!Message) /\ Len(done) = k /\ \A i \in 1 .. k : done[i] = batch[i]
    <3> HIDE DEF k
    <3>1. \A i \in 1 .. k : batch[i] \in PP!Message
      BY <2>1, ElementOfSeq
    <3>2. /\ SubSeq(batch, 1, k) \in Seq(PP!Message)
          /\ Len(SubSeq(batch, 1, k)) = IF 1 <= k THEN k - 1 + 1 ELSE 0
          /\ \A i \in 1 .. k - 1 + 1 : SubSeq(batch, 1, k)[i] = batch[1 + i - 1]
      BY <2>1, <3>1, SubSeqProperties
    <3> QED
      BY <2>1, <3>2
  <2>4. /\ ec \in Seq(AllEvents) /\ Len(ec) = c
        /\ \A i \in 1 .. c : ec[i] = EventOf(run, committed[i])
    BY <2>1, <2>2
  <2>5. /\ ed \in Seq(AllEvents) /\ Len(ed) = k
        /\ \A i \in 1 .. k : ed[i] = EventOf(run, batch[i])
    <3> HIDE DEF done
    <3> QED
      BY <2>2, <2>3
  <2>6. /\ \A i \in 1 .. m : audit[i] = past[i]
        /\ \A i \in 1 .. c : audit[m + i] = EventOf(run, committed[i])
        /\ \A i \in 1 .. k : audit[m + c + i] = EventOf(run, batch[i])
    BY DEF IInv, RowsAreTheLog
  <2> HIDE DEF m, c, k, ec, ed
  <2>7. /\ past \o ec \in Seq(AllEvents) /\ Len(past \o ec) = m + c
        /\ \A i \in 1 .. m : (past \o ec)[i] = past[i]
        /\ \A i \in 1 .. c : (past \o ec)[m + i] = ec[i]
    <3>1. /\ past \o ec \in Seq(AllEvents) /\ Len(past \o ec) = Len(past) + Len(ec)
          /\ \A i \in 1 .. Len(past) + Len(ec) :
                 (past \o ec)[i] = IF i <= Len(past) THEN past[i] ELSE ec[i - Len(past)]
      BY <2>1, <2>4, ConcatProperties
    <3>2. Len(past) = m
      BY DEF m
    <3> QED
      BY <2>1, <2>4, <3>1, <3>2
  <2>8. /\ (past \o ec) \o ed \in Seq(AllEvents)
        /\ Len((past \o ec) \o ed) = m + c + k
        /\ \A i \in 1 .. m + c : ((past \o ec) \o ed)[i] = (past \o ec)[i]
        /\ \A i \in 1 .. k : ((past \o ec) \o ed)[m + c + i] = ed[i]
    <3> DEFINE pe == past \o ec
    <3>1. pe \in Seq(AllEvents) /\ Len(pe) = m + c
      BY <2>7
    <3> HIDE DEF pe
    <3>2. /\ pe \o ed \in Seq(AllEvents) /\ Len(pe \o ed) = Len(pe) + Len(ed)
          /\ \A i \in 1 .. Len(pe) + Len(ed) :
                 (pe \o ed)[i] = IF i <= Len(pe) THEN pe[i] ELSE ed[i - Len(pe)]
      BY <2>5, <3>1, ConcatProperties
    <3>3. m \in Nat /\ c \in Nat /\ k \in Nat
      BY <2>1
    <3>4. /\ \A i \in 1 .. m + c : (pe \o ed)[i] = pe[i]
          /\ \A i \in 1 .. k : (pe \o ed)[m + c + i] = ed[i]
      BY <2>5, <3>1, <3>2, <3>3
    <3> QED
      BY <2>5, <3>1, <3>2, <3>4 DEF pe
  <2> DEFINE log == (past \o ec) \o ed
  <2>9. ASSUME NEW i \in 1 .. m + c + k
        PROVE  log[i] = audit[i]
    <3>0. m \in Nat /\ c \in Nat /\ k \in Nat
      BY <2>1
    <3>1. CASE i \in 1 .. m
      BY <2>6, <2>7, <2>8, <3>0, <3>1
    <3>2. CASE i \in m + 1 .. m + c
      <4>1. i - m \in 1 .. c /\ m + (i - m) = i /\ i \in 1 .. m + c
        BY <3>0, <3>2
      <4>2. audit[m + (i - m)] = ec[i - m] /\ (past \o ec)[m + (i - m)] = ec[i - m]
        BY <2>4, <2>6, <2>7, <4>1
      <4> QED
        BY <2>8, <4>1, <4>2
    <3>3. CASE i \in m + c + 1 .. m + c + k
      <4>1. i - (m + c) \in 1 .. k /\ m + c + (i - (m + c)) = i
        BY <3>0, <3>3
      <4>2. /\ audit[m + c + (i - (m + c))] = ed[i - (m + c)]
            /\ log[m + c + (i - (m + c))] = ed[i - (m + c)]
        BY <2>5, <2>6, <2>8, <4>1
      <4> QED
        BY <4>1, <4>2
    <3>4. \A a, b, d \in Nat : \A x \in 1 .. a + b + d :
              x \in 1 .. a \/ x \in a + 1 .. a + b \/ x \in a + b + 1 .. a + b + d
      OBVIOUS
    <3> QED
      BY <3>0, <3>1, <3>2, <3>3, <3>4
  <2>10. rows = log
    <3> HIDE DEF log
    <3>1. log \in Seq(AllEvents) /\ Len(log) = Rows
      BY <2>1, <2>8 DEF log
    <3>2. log \in [1 .. Rows -> AllEvents]
      BY <3>1, LenProperties
    <3>3. \A i \in 1 .. Rows : log[i] = audit[i]
      BY <2>1, <2>9
    <3>4. log = [i \in 1 .. Rows |-> log[i]]
      BY <3>2
    <3> QED
      BY <3>3, <3>4
  <2> QED
    BY <2>10 DEF GraphIsTheLog, Log, ec, ed, k
<1> QED
  BY Invariant, <1>1, PTL

\* A row whose event was stored has its nodes and edges for good.
LEMMA StoredRowIsComplete ==
    ASSUME IInv, NEW s \in stored, s.id \in DOMAIN audit
    PROVE  Complete(s.id)
<1> DEFINE id == s.id
           e == s.event
<1>1. SP!TypeOK /\ SP!StoredIsComplete /\ SP!PropertiesAreAudited
  BY DEF IInv, SP!IInv
<1>2. /\ id \in Nat /\ id <= MaxRuns * MaxMessages /\ SP!RowId(id) = id
      /\ MaxRuns * MaxMessages + 1 \notin DOMAIN audit
      /\ id < MaxRuns * MaxMessages + 1
  <2>1. DOMAIN audit \subseteq 1 .. MaxRuns * MaxMessages
    BY DEF IInv, IdsInBounds
  <2>2. id \in 1 .. MaxRuns * MaxMessages
    BY <2>1
  <2>3. MaxRuns * MaxMessages + 1 \notin 1 .. MaxRuns * MaxMessages
    BY Product
  <2> HIDE DEF id
  <2>4. id \in Nat /\ id <= MaxRuns * MaxMessages /\ id < MaxRuns * MaxMessages + 1
    BY <2>2, Product
  <2> QED
    BY <2>1, <2>3, <2>4, RowIdIs, Product
<1>3. /\ audit[id] = e
      /\ \A i \in DOMAIN e.nodes : e.nodes[i].key \in DOMAIN nodes
      /\ \A i \in DOMAIN e.edges : [edge |-> e.edges[i], ingest |-> id] \in edges
  BY <1>1, <1>2 DEF SP!StoredIsComplete
<1>4. \A r \in DOMAIN audit : audit[r] \in AllEvents
  BY <1>1 DEF SP!TypeOK, AllEvents
<1>5. ASSUME NEW i \in DOMAIN e.nodes
      PROVE  e.nodes[i].args \in {None, nodes[e.nodes[i].key].args}
  <2> DEFINE n == e.nodes[i]
             k == n.key
  <2>1. CASE n.args # None
    <3>1. nodes[k].args # None /\ k \in DOMAIN nodes
      BY <1>3, <2>1 DEF IInv, CommandLinesSet, HasArgs
    <3>2. PICK r \in DOMAIN audit : \E j \in DOMAIN audit[r].nodes :
              /\ audit[r].nodes[j].key = k
              /\ audit[r].nodes[j].args = nodes[k].args
      BY <1>1, <1>2, <3>1 DEF SP!PropertiesAreAudited
    <3>3. PICK j \in DOMAIN audit[r].nodes :
              /\ audit[r].nodes[j].key = k
              /\ audit[r].nodes[j].args = nodes[k].args
      BY <3>2
    <3>4. e \in AllEvents /\ audit[r] \in AllEvents
      BY <1>3, <1>4
    <3> DEFINE f == audit[r]
    <3> HIDE DEF e, f
    <3>5. \A x, y \in AllEvents : \A p \in DOMAIN x.nodes, q \in DOMAIN y.nodes :
              /\ x.nodes[p].key = y.nodes[q].key
              /\ x.nodes[p].args # None
              /\ y.nodes[q].args # None
              => x.nodes[p].args = y.nodes[q].args
      BY CommandLineAssumption DEF AllEvents
    <3>6. n.args = f.nodes[j].args
      BY <2>1, <3>1, <3>3, <3>4, <3>5 DEF f
    <3> QED
      BY <3>3, <3>6 DEF f
  <2> QED
    BY <2>1
<1> HIDE DEF e
<1> QED
  BY <1>3, <1>5 DEF Complete

LEMMA TornRows == IInv => OneTornRowPerCut
<1> SUFFICES ASSUME IInv, NEW id \in DOMAIN audit
             PROVE  Complete(id) \/ id \in cuts \/ (queue # << >> /\ id = Rows)
  BY DEF OneTornRowPerCut
<1>1. (\E s \in stored : s.id = id) \/ id \in cuts \/ (queue # << >> /\ id = Rows)
  BY DEF IInv, RowsAccountedFor
<1>2. ASSUME NEW s \in stored, s.id = id
      PROVE  Complete(id)
  BY <1>2, StoredRowIsComplete
<1> QED
  BY <1>1, <1>2

\* Without a transaction around a batch, a failure or a kill still leaves at
\* most one incomplete event behind, the last one.
THEOREM OneTornRow == Spec => []OneTornRowPerCut
BY Invariant, TornRows, PTL

\* After a normal exit the graph has every event accepted before Ctrl+C, with
\* its nodes and edges, and the count that is printed is right.
THEOREM ExitLeavesAll == Spec => []ExitLeavesAllInGraph
<1>1. IInv => ExitLeavesAllInGraph
  <2> SUFFICES ASSUME IInv, main = "done", writer = "returned"
               PROVE  /\ total = Rows - Len(past)
                      /\ total >= (IF shutdown THEN cutoff ELSE Len(accepted))
                      /\ \A id \in Len(past) + 1 .. Rows : Complete(id) /\ id \notin cuts
    BY DEF ExitLeavesAllInGraph
  <2>1. queue = << >>
    BY DEF IInv, StoreFollowsWriter, P!FlushSites
  <2>2. total = Len(committed)
    BY DEF IInv, PP!IInv, PP!StatsCountCommitted
  <2>3. Len(committed) >= (IF shutdown THEN cutoff ELSE Len(accepted))
    BY PartsAssumptions, PP!EnoughAtExit DEF IInv, PP!DurableAtExit
  <2>4. /\ Rows = Len(past) + Len(committed) /\ Rows \in Nat /\ Len(past) \in Nat
        /\ Len(committed) \in Nat /\ DOMAIN audit = 1 .. Rows
    BY <2>1, Lengths, RowsAre
  <2>5. cuts \subseteq 0 .. Len(past)
    BY DEF IInv, CutsInPast
  <2>6. ASSUME NEW id \in Len(past) + 1 .. Rows
        PROVE  Complete(id) /\ id \notin cuts
    <3>1. id \in DOMAIN audit /\ id \notin 0 .. Len(past)
      BY <2>4
    <3> QED
      BY <2>1, <2>5, <3>1, TornRows DEF OneTornRowPerCut
  <2> QED
    BY <2>2, <2>3, <2>4, <2>6
<1> QED
  BY Invariant, <1>1, PTL

-----------------------------------------------------------------------------
(* The system implements the store. *)

\* Seen by what it does to the database, "run" after "run" with the pipeline
\* in front is one of the behaviours of GraphStore.
THEOREM ImplementsGraphStore == Spec => S!Spec
<1>1. Init => S!Init
  BY DEF Init
<1>2. IInv /\ [Next]_vars => [S!Next]_(S!vars)
  BY StoreStep
<1> QED
  BY Invariant, <1>1, <1>2, PTL DEF Spec, S!Spec

\* So no step of the system, over all its runs, takes anything out of the graph.
THEOREM GraphOnlyGrows == Spec => S!NothingForgotten
<1>1. Init => SP!Init
  BY DEF Init, S!Init, SP!Init
<1>2. IInv /\ [Next]_vars => [SP!Next]_(SP!vars)
  BY StoreStep
<1>3. Spec => SP!Spec
  BY Invariant, <1>1, <1>2, PTL DEF Spec, SP!Spec
<1>4. SP!Spec => SP!NothingForgotten
  BY PartsAssumptions, SP!GraphOnlyGrows
<1>5. SP!NothingForgotten => S!NothingForgotten
  BY PTL DEF SP!NothingForgotten, S!NothingForgotten, SP!vars, S!vars, SP!durable, S!durable,
             SP!session, S!session
<1> QED
  BY <1>3, <1>4, <1>5, PTL
=============================================================================
