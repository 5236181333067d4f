----------------------------- MODULE LiveSystem -----------------------------
(***************************************************************************)
(* "esgraphd run" with its database: LivePipeline and GraphStore composed. *)
(*                                                                         *)
(* The pipeline takes the store for something that makes a beginning of a  *)
(* batch durable.  Here the writer opens a GraphStore, a flush is one      *)
(* ingest executed statement by statement, a failure or a kill comes       *)
(* between any two statements, and the command is run again on the         *)
(* database that the last run left behind.                                 *)
(***************************************************************************)
EXTENDS Naturals, Sequences, FiniteSets

CONSTANTS
    MaxMessages, BatchSize, MinCapacity, Faults,   \* of LivePipeline
    None, NoToken, StoreFaults,                    \* of GraphStore
    EventOf(_, _),   \* the event message n of a run normalises to
    MaxRuns          \* bound: times the command is run

ASSUME RunsAssumption == MaxRuns \in Nat \ {0}

VARIABLES
    shutdown, main, result, emitted, handled, handler, chan, writer, batch,
    due, total, committed, accepted, cutoff,                  \* LivePipeline
    tables, audit, nodes, edges, role, nextId, queue, at, stored,   \* GraphStore
    run,    \* the number of this run
    past,   \* history: the events that earlier runs made durable
    cuts    \* history: the number of rows after each flush that was cut short

P == INSTANCE LivePipeline
S == INSTANCE GraphStore WITH
         Event <- {EventOf(r, n) : r \in 1 .. MaxRuns, n \in 1 .. MaxMessages},
         Role <- {"run"}, I64Max <- MaxRuns * MaxMessages + 1,
         MaxBatch <- MaxRuns * MaxMessages, MaxId <- MaxRuns * MaxMessages,
         Faults <- StoreFaults

ASSUME LimitsAssumption ==
    /\ MaxMessages \in Nat
    /\ BatchSize \in Nat
    /\ MinCapacity \in Nat \ {0}
    /\ Faults \subseteq P!AllFaults
    /\ StoreFaults \subseteq S!AllFaults

\* What the normaliser makes of a message is an event that ingest accepts.
ASSUME EventOfAssumption ==
    \A r \in 1 .. MaxRuns, n \in 1 .. MaxMessages :
        LET e == EventOf(r, n)
        IN  /\ S!IsEvent(e) /\ S!Valid(e)
            /\ Len(e.nodes) \in Nat /\ DOMAIN e.nodes = 1 .. Len(e.nodes)
            /\ Len(e.edges) \in Nat /\ DOMAIN e.edges = 1 .. Len(e.edges)

\* A process has one command line: an exec gives it a token of its own, and
\* only the event of that exec has args for it.
ASSUME CommandLineAssumption ==
    \A r, q \in 1 .. MaxRuns, n, m \in 1 .. MaxMessages :
        \A i \in DOMAIN EventOf(r, n).nodes, j \in DOMAIN EventOf(q, m).nodes :
            LET x == EventOf(r, n).nodes[i]
                y == EventOf(q, m).nodes[j]
            IN  x.key = y.key /\ x.args # None /\ y.args # None => x.args = y.args

pipelineVars == <<shutdown, main, result, emitted, handled, handler, chan, writer,
                  batch, due, total, committed, accepted, cutoff>>
storeVars == <<tables, audit, nodes, edges, role, nextId, queue, at, stored>>
runVars == <<run, past>>
vars == <<pipelineVars, storeVars, runVars, cuts>>

Init ==
    /\ P!Init
    /\ S!Init
    /\ run = 1
    /\ past = << >>
    /\ cuts = {}

-----------------------------------------------------------------------------
Events(messages) == [i \in DOMAIN messages |-> EventOf(run, messages[i])]

Rows == Cardinality(DOMAIN audit)

\* The rows of the batch that a flush under way has inserted.
Inserted ==
    IF queue = << >> THEN 0
    ELSE Len(batch) - Len(queue) + (IF at > 1 THEN 1 ELSE 0)

\* A flush ends in the middle of the batch: these are the durable messages.
CutShort ==
    /\ committed' = committed \o SubSeq(batch, 1, Inserted)
    /\ cuts' = cuts \cup {Rows}

\* The writer opens the store, or cannot.
OpenStore ==
    /\ P!Running
    /\ S!Open("run")
    /\ IF role' = "run" THEN P!OpenStore ELSE P!OpenStoreFails
    /\ UNCHANGED <<runVars, cuts>>

\* flush_batch calls ingest.  No event is refused: the normaliser gives every
\* process a token.
FlushStarts ==
    /\ P!Running
    /\ writer \in P!FlushSites
    /\ S!IngestStarts(Events(batch))
    /\ UNCHANGED <<pipelineVars, runVars, cuts>>

FlushGoesOn ==
    /\ P!Running
    /\ S!ExecuteStatement \/ S!NextEvent
    /\ UNCHANGED <<pipelineVars, runVars, cuts>>

FlushOk ==
    /\ P!Running
    /\ S!IngestReturns
    /\ P!FlushOk
    /\ UNCHANGED <<runVars, cuts>>

FlushFails ==
    /\ P!Running
    /\ S!StatementFails
    /\ CutShort
    /\ P!FlushFails
    /\ UNCHANGED runVars

\* writer_loop returns and drops the store with its other locals.
WriterReturns ==
    /\ P!Running
    /\ P!FinalReturn
    /\ S!Close
    /\ UNCHANGED <<runVars, cuts>>

\* A kill takes both.  Halfway through the DDL it is an open that failed.
Kill ==
    /\ IF queue # << >> THEN CutShort ELSE UNCHANGED <<committed, cuts>>
    /\ P!Kill
    /\ IF role = "run" THEN S!Kill ELSE UNCHANGED storeVars
    /\ UNCHANGED runVars

\* What goes on in the pipeline without the store.
PipelineStep ==
    /\ P!Running
    /\ \/ P!Emit
       \/ P!CtrlC
       \/ P!IntervalElapses
       \/ P!HandlerStep
       \/ P!MainStep
       \/ P!ReadShutdown
       \/ P!DrainOne
       \/ P!DrainDone
       \/ P!RecvEvent
       \/ P!RecvTimeout
       \/ P!RecvDisconnected
       \/ P!CheckFull
       \/ P!FinalFlush
    /\ UNCHANGED <<storeVars, runVars, cuts>>

\* A new process: the initial state of LivePipeline.
PipelineAnew ==
    /\ shutdown' = FALSE /\ cutoff' = 0
    /\ main' = "starting" /\ result' = "none"
    /\ emitted' = 0 /\ handled' = 0 /\ handler' = "idle" /\ accepted' = << >>
    /\ chan' = << >>
    /\ writer' = "opening" /\ batch' = << >> /\ due' = FALSE
    /\ total' = 0 /\ committed' = << >>

\* The command is run again.
RunAgain ==
    /\ ~P!Running
    /\ run < MaxRuns
    /\ run' = run + 1
    /\ past' = past \o Events(committed)
    /\ PipelineAnew
    /\ UNCHANGED <<storeVars, cuts>>

Over == ~P!Running /\ run = MaxRuns /\ UNCHANGED vars

Next ==
    \/ OpenStore
    \/ FlushStarts
    \/ FlushGoesOn
    \/ FlushOk
    \/ FlushFails
    \/ WriterReturns
    \/ Kill
    \/ PipelineStep
    \/ RunAgain
    \/ Over

Spec == Init /\ [][Next]_vars

-----------------------------------------------------------------------------
TypeOK ==
    /\ P!TypeOK
    /\ S!TypeOK
    /\ run \in 1 .. MaxRuns
    /\ past \in Seq({EventOf(r, n) : r \in 1 .. MaxRuns, n \in 1 .. MaxMessages})
    /\ cuts \subseteq Nat

Log == past \o Events(committed)

\* The graph is exactly what the pipeline says is durable, run after run, and
\* during a flush a beginning of its batch: where the process died, which flush
\* failed and how often the command was run again make no difference to it.
GraphIsTheLog ==
    [id \in 1 .. Rows |-> audit[id]] = Log \o Events(SubSeq(batch, 1, Inserted))

\* Everything the event with this id brought is in the graph.
Complete(id) ==
    /\ \A i \in DOMAIN audit[id].nodes : LET n == audit[id].nodes[i] IN
           n.key \in DOMAIN nodes /\ n.args \in {None, nodes[n.key].args}
    /\ \A i \in DOMAIN audit[id].edges :
           [edge |-> audit[id].edges[i], ingest |-> id] \in edges

\* A batch has no transaction around it, and yet a flush that is cut short
\* costs no more than the rest of one event: only the last row it inserted may
\* lack nodes or edges, and it lacks them for good.
OneTornRowPerCut ==
    \A id \in DOMAIN audit :
        Complete(id) \/ id \in cuts \/ (queue # << >> /\ id = Rows)

\* What a normal exit promises, to the last edge: every event accepted before
\* Ctrl+C is in the graph with its nodes and edges, and the number of events
\* printed is the number of rows this run added.
ExitLeavesAllInGraph ==
    main = "done" /\ writer = "returned" =>
        /\ total = Rows - Len(past)
        /\ total >= (IF shutdown THEN cutoff ELSE Len(accepted))
        /\ \A id \in Len(past) + 1 .. Rows : Complete(id) /\ id \notin cuts
=============================================================================
