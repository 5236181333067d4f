---------------------------- MODULE LivePipeline ----------------------------
(***************************************************************************)
(* The live pipeline of "esgraphd run".                                    *)
(*                                                                         *)
(* Four actors share a bounded channel and a shutdown flag:                *)
(*   - macOS, which queues ES messages for the client and runs the handler *)
(*     on them one at a time (endpoint_sec, external);                     *)
(*   - the handler, which answers AUTH, normalises, and sends to the       *)
(*     channel, blocking while it is full (collector.rs handle_message);   *)
(*   - the main thread, which starts the collector, polls the flag, drops  *)
(*     the client and joins the writer (main.rs cmd_run, collector.rs      *)
(*     run_collector);                                                     *)
(*   - the writer thread, which batches and flushes (writer.rs).           *)
(* Ctrl+C, the passing of the flush interval, failures of the collector    *)
(* or of the store, and a kill of the process come from the environment.   *)
(*                                                                         *)
(* Data: a message is its number in the order macOS queued it.  What the   *)
(* store does with an event is left to it; here a flush makes the events   *)
(* of the batch durable in order, and one that fails or is cut short by a  *)
(* kill leaves any beginning of the batch durable.                         *)
(***************************************************************************)
EXTENDS Naturals, Sequences

CONSTANTS
    MaxMessages,   \* bound: how many ES messages macOS queues in a behaviour
    BatchSize,     \* store.batch_size
    MinCapacity,   \* the least channel capacity (64 in cmd_run)
    Faults         \* the failures the environment may cause

AllFaults == {"collector", "open", "flush", "kill"}

ASSUME ConstantsAssumption ==
    /\ MaxMessages \in Nat
    /\ BatchSize \in Nat
    /\ MinCapacity \in Nat \ {0}
    /\ Faults \subseteq AllFaults

\* sync_channel(batch_size.max(64)).
Capacity == IF BatchSize > MinCapacity THEN BatchSize ELSE MinCapacity

\* batch_size.max(1); Config::validate refuses a batch_size of 0 before that.
BatchLimit == IF BatchSize > 1 THEN BatchSize ELSE 1

Message == 1 .. MaxMessages

VARIABLES
    shutdown,    \* the AtomicBool set by Ctrl+C
    main,        \* the main thread: where it is in cmd_run / run_collector
    result,      \* what run_collector returned, the exit status of the run
    emitted,     \* number of messages macOS has queued for the client
    handled,     \* number of messages the handler was called on
    handler,     \* "idle", or "sending" message number `handled'
    chan,        \* the bounded channel
    writer,      \* the writer thread: where it is in writer_loop
    batch,       \* its Vec of events not flushed yet
    due,         \* last_flush.elapsed() >= flush_interval
    total,       \* IngestStats.events
    committed,   \* the events durable in the store
    accepted,    \* history: the events whose tx.send returned Ok
    cutoff       \* history: how many of them when Ctrl+C arrived

kernelVars == <<emitted>>
handlerVars == <<handled, handler, accepted>>
mainVars == <<main, result>>
signalVars == <<shutdown, cutoff>>
writerVars == <<writer, batch, due, total, committed>>
vars == <<kernelVars, handlerVars, mainVars, signalVars, writerVars, chan>>

\* The four calls of flush_batch in writer_loop.
FlushSites == {"flush_drain", "flush_timeout", "flush_full", "flush_last"}

\* How the writer thread ends: Ok(total), Err(e), or with the process.
WriterEnded == {"returned", "failed", "killed"}

WriterStates ==
    {"opening", "top", "draining", "recv", "check", "final"}
        \cup FlushSites \cup WriterEnded

MainStates == {"starting", "collecting", "joining", "done", "killed"}

Running == main \notin {"done", "killed"}

\* Slip: the Receiver outlives writer_loop, say in an Arc main also holds.
RxOpenLeaked == writer # "killed"

\* The Receiver is a local of writer_loop: it is dropped when that returns.
RxOpen == writer \notin WriterEnded

\* Slip: cmd_run keeps a clone of the sender of its own.
SenderAliveInMain == Running

\* The SyncSender is owned by the handler closure, and that by the client;
\* a call in progress keeps it alive when the client is dropped.
SenderAlive == main \in {"starting", "collecting"} \/ handler = "sending"

-----------------------------------------------------------------------------
TypeOK ==
    /\ shutdown \in BOOLEAN
    /\ main \in MainStates
    /\ result \in {"none", "ok", "error"}
    /\ emitted \in 0 .. MaxMessages
    /\ handled \in 0 .. emitted
    /\ handler \in {"idle", "sending"}
    /\ handler = "sending" => handled > 0
    /\ chan \in Seq(Message)
    /\ writer \in WriterStates
    /\ batch \in Seq(Message)
    /\ due \in BOOLEAN
    /\ total \in Nat
    /\ committed \in Seq(Message)
    /\ accepted \in Seq(Message)
    /\ cutoff \in Nat

Init ==
    /\ shutdown = FALSE
    /\ main = "starting"
    /\ result = "none"
    /\ emitted = 0
    /\ handled = 0
    /\ handler = "idle"
    /\ chan = << >>
    /\ writer = "opening"
    /\ batch = << >>
    /\ due = FALSE
    /\ total = 0
    /\ committed = << >>
    /\ accepted = << >>
    /\ cutoff = 0

-----------------------------------------------------------------------------
(* The environment. *)

\* macOS queues a message for the subscribed client.
Emit ==
    /\ main = "collecting"
    /\ emitted < MaxMessages
    /\ emitted' = emitted + 1
    /\ UNCHANGED <<handlerVars, mainVars, signalVars, writerVars, chan>>

\* The Ctrl+C handler.  A second Ctrl+C stores TRUE again.
CtrlC ==
    /\ Running
    /\ ~shutdown
    /\ shutdown' = TRUE
    /\ cutoff' = Len(accepted)
    /\ UNCHANGED <<kernelVars, handlerVars, mainVars, writerVars, chan>>

\* The flush interval has passed since last_flush.
IntervalElapses ==
    /\ Running
    /\ RxOpen
    /\ ~due
    /\ due' = TRUE
    /\ UNCHANGED <<kernelVars, handlerVars, mainVars, signalVars, chan,
                   writer, batch, total, committed>>

\* Slips: all flushes of a run share one transaction; the statements before
\* the failing one are the ones undone.
PartOfBatchOneTransaction ==
    {SubSeq(committed \o batch, 1, n) : n \in 0 .. Len(committed) + Len(batch)}
PartOfBatchTail ==
    {committed \o SubSeq(batch, n, Len(batch)) : n \in 1 .. Len(batch) + 1}

\* What is durable after a flush that stopped anywhere in the batch.
PartOfBatch == {committed \o SubSeq(batch, 1, n) : n \in 0 .. Len(batch)}

\* SIGTERM or SIGKILL: neither is caught.  A flush under way is cut short.
Kill ==
    /\ "kill" \in Faults
    /\ Running
    /\ main' = "killed"
    /\ writer' = IF RxOpen THEN "killed" ELSE writer
    /\ committed' \in IF writer \in FlushSites THEN PartOfBatch ELSE {committed}
    /\ batch' = << >>
    /\ chan' = << >>
    /\ UNCHANGED <<kernelVars, handlerVars, signalVars, result, due, total>>

-----------------------------------------------------------------------------
(* The handler, called by macOS on one message at a time. *)

\* The call on a message the handler sends nothing for: an AUTH message
\* (answered ALLOW before anything else, and normalised to None), an event
\* outside the graph model, or a normalisation error.
HandleNothing ==
    /\ main = "collecting"
    /\ handler = "idle"
    /\ handled < emitted
    /\ handled' = handled + 1
    /\ UNCHANGED <<kernelVars, mainVars, signalVars, writerVars, chan,
                   handler, accepted>>

\* Slip: the handler runs without a message queued.
HandleEventUnprompted ==
    /\ main = "collecting"
    /\ handler = "idle"
    /\ handled < MaxMessages
    /\ handled' = handled + 1
    /\ handler' = "sending"
    /\ UNCHANGED <<kernelVars, mainVars, signalVars, writerVars, chan,
                   accepted>>

\* The call on a message that normalises to an event, up to tx.send(ev).
HandleEvent ==
    /\ main = "collecting"
    /\ handler = "idle"
    /\ handled < emitted
    /\ handled' = handled + 1
    /\ handler' = "sending"
    /\ UNCHANGED <<kernelVars, mainVars, signalVars, writerVars, chan,
                   accepted>>

\* tx.send(ev) returns Ok: it blocks until the channel has room.
SendOk ==
    /\ Running
    /\ handler = "sending"
    /\ RxOpen
    /\ Len(chan) < Capacity
    /\ chan' = Append(chan, handled)
    /\ accepted' = Append(accepted, handled)
    /\ handler' = "idle"
    /\ UNCHANGED <<kernelVars, mainVars, signalVars, writerVars, handled>>

\* Slip: the handler retries a send whose Receiver is gone.
SendErrRetried ==
    /\ Running
    /\ handler = "sending"
    /\ ~RxOpen
    /\ UNCHANGED vars

\* tx.send(ev) returns Err, at once or out of a blocked send: the Receiver is
\* gone, the event is dropped with a warning.
SendErr ==
    /\ Running
    /\ handler = "sending"
    /\ ~RxOpen
    /\ handler' = "idle"
    /\ UNCHANGED <<kernelVars, mainVars, signalVars, writerVars, chan,
                   handled, accepted>>

HandlerStep == HandleNothing \/ HandleEvent \/ SendOk \/ SendErr

-----------------------------------------------------------------------------
(* The main thread. *)

\* Client::new, the path mutes and subscribe succeed.
CollectorStarts ==
    /\ main = "starting"
    /\ main' = "collecting"
    /\ UNCHANGED <<kernelVars, handlerVars, signalVars, writerVars, chan,
                   result>>

\* Slip: the paths are muted only after the subscription.
CollectorFailsSubscribed ==
    /\ "collector" \in Faults
    /\ main \in {"starting", "collecting"}
    /\ main' = "joining"
    /\ result' = "error"
    /\ UNCHANGED <<kernelVars, handlerVars, signalVars, writerVars, chan>>

\* One of the steps before the poll loop fails, or the platform is not
\* macOS: run_collector returns the error, and drops client and sender.
CollectorFails ==
    /\ "collector" \in Faults
    /\ main = "starting"
    /\ main' = "joining"
    /\ result' = "error"
    /\ UNCHANGED <<kernelVars, handlerVars, signalVars, writerVars, chan>>

\* The 200 ms poll sees the flag: run_collector returns and drops the client.
\* Messages macOS still had queued for it are never delivered.
PollSeesShutdown ==
    /\ main = "collecting"
    /\ shutdown
    /\ main' = "joining"
    /\ result' = "ok"
    /\ UNCHANGED <<kernelVars, handlerVars, signalVars, writerVars, chan>>

\* writer_handle.join() returns; an Err of the writer is only logged, and the
\* exit status is that of the collector.
JoinWriter ==
    /\ main = "joining"
    /\ ~RxOpen
    /\ main' = "done"
    /\ UNCHANGED <<kernelVars, handlerVars, signalVars, writerVars, chan,
                   result>>

MainStep == CollectorStarts \/ CollectorFails \/ PollSeesShutdown \/ JoinWriter

-----------------------------------------------------------------------------
(* The writer thread. *)

\* The writer goes on at pc with everything but its own place unchanged.
WriterGoesTo(pc) ==
    /\ writer' = pc
    /\ UNCHANGED <<kernelVars, handlerVars, mainVars, signalVars, due, total,
                   committed>>

\* writer_loop returns, which drops the Receiver with what it still buffers.
WriterEnds(how) ==
    /\ writer' = how
    /\ chan' = << >>
    /\ UNCHANGED <<kernelVars, handlerVars, mainVars, signalVars, due>>

OpenStore ==
    /\ writer = "opening"
    /\ WriterGoesTo("top")
    /\ UNCHANGED <<batch, chan>>

OpenStoreFails ==
    /\ "open" \in Faults
    /\ writer = "opening"
    /\ WriterEnds("failed")
    /\ UNCHANGED <<batch, total, committed>>

\* Slip: the loop is left on shutdown without the drain.
ReadShutdownNoDrain ==
    /\ writer = "top"
    /\ WriterGoesTo(IF shutdown THEN "final" ELSE "recv")
    /\ UNCHANGED <<batch, chan>>

\* shutdown.load at the head of the loop.
ReadShutdown ==
    /\ writer = "top"
    /\ WriterGoesTo(IF shutdown THEN "draining" ELSE "recv")
    /\ UNCHANGED <<batch, chan>>

TakeFromChannel ==
    /\ chan # << >>
    /\ batch' = Append(batch, Head(chan))
    /\ chan' = Tail(chan)

\* One try_recv of the drain that finds an event.
DrainOne ==
    /\ writer = "draining"
    /\ TakeFromChannel
    /\ WriterGoesTo("draining")

\* The try_recv that ends the drain.
DrainDone ==
    /\ writer = "draining"
    /\ chan = << >>
    /\ WriterGoesTo(IF batch = << >> THEN "final" ELSE "flush_drain")
    /\ UNCHANGED <<batch, chan>>

RecvEvent ==
    /\ writer = "recv"
    /\ TakeFromChannel
    /\ WriterGoesTo("check")

\* Slip: a partial batch is left alone when the interval has passed.
RecvTimeoutNoFlush ==
    /\ writer = "recv"
    /\ chan = << >>
    /\ SenderAlive
    /\ due
    /\ WriterGoesTo("check")
    /\ UNCHANGED <<batch, chan>>

\* recv_timeout gives up: the rest of the interval passed without an event.
\* A disconnected channel is reported as that, even with no time left.
RecvTimeout ==
    /\ writer = "recv"
    /\ chan = << >>
    /\ SenderAlive
    /\ due
    /\ WriterGoesTo(IF batch = << >> THEN "check" ELSE "flush_timeout")
    /\ UNCHANGED <<batch, chan>>

\* Slip: a disconnect ends the loop with events still in the channel.
RecvDisconnectedUnread ==
    /\ writer = "recv"
    /\ ~SenderAlive
    /\ WriterGoesTo("final")
    /\ UNCHANGED <<batch, chan>>

RecvDisconnected ==
    /\ writer = "recv"
    /\ chan = << >>
    /\ ~SenderAlive
    /\ WriterGoesTo("final")
    /\ UNCHANGED <<batch, chan>>

\* Slip: > for >=.
CheckFullOffByOne ==
    /\ writer = "check"
    /\ WriterGoesTo(IF Len(batch) > BatchLimit THEN "flush_full" ELSE "top")
    /\ UNCHANGED <<batch, chan>>

CheckFull ==
    /\ writer = "check"
    /\ WriterGoesTo(IF Len(batch) >= BatchLimit THEN "flush_full" ELSE "top")
    /\ UNCHANGED <<batch, chan>>

\* Behind the loop: what the disconnect left in the batch is flushed.
FinalFlush ==
    /\ writer = "final"
    /\ batch # << >>
    /\ WriterGoesTo("flush_last")
    /\ UNCHANGED <<batch, chan>>

FinalReturn ==
    /\ writer = "final"
    /\ batch = << >>
    /\ WriterEnds("returned")
    /\ UNCHANGED <<batch, total, committed>>

\* Where the loop goes on after each of the calls of flush_batch.
AfterFlush ==
    [flush_drain |-> "final", flush_timeout |-> "check",
     flush_full |-> "top", flush_last |-> "final"]

\* Slips: batch.clear() is forgotten; the totals are assigned, not added to.
FlushOkNotCleared ==
    /\ writer \in FlushSites
    /\ committed' = committed \o batch
    /\ total' = total + Len(batch)
    /\ due' = IF writer \in {"flush_timeout", "flush_full"} THEN FALSE ELSE due
    /\ writer' = AfterFlush[writer]
    /\ UNCHANGED <<kernelVars, handlerVars, mainVars, signalVars, chan, batch>>
FlushOkAssigned ==
    /\ writer \in FlushSites
    /\ committed' = committed \o batch
    /\ total' = Len(batch)
    /\ batch' = << >>
    /\ due' = IF writer \in {"flush_timeout", "flush_full"} THEN FALSE ELSE due
    /\ writer' = AfterFlush[writer]
    /\ UNCHANGED <<kernelVars, handlerVars, mainVars, signalVars, chan>>

\* flush_batch: store.ingest succeeds, the batch is cleared and counted.
FlushOk ==
    /\ writer \in FlushSites
    /\ committed' = committed \o batch
    /\ total' = total + Len(batch)
    /\ batch' = << >>
    /\ due' = IF writer \in {"flush_timeout", "flush_full"} THEN FALSE ELSE due
    /\ writer' = AfterFlush[writer]
    /\ UNCHANGED <<kernelVars, handlerVars, mainVars, signalVars, chan>>

\* Slip: the error is logged and the loop goes on.
FlushFailsIgnored ==
    /\ "flush" \in Faults
    /\ writer \in FlushSites
    /\ committed' \in PartOfBatch
    /\ batch' = << >>
    /\ writer' = AfterFlush[writer]
    /\ UNCHANGED <<kernelVars, handlerVars, mainVars, signalVars, chan, due,
                   total>>

\* store.ingest fails: writer_loop returns the error at once.
FlushFails ==
    /\ "flush" \in Faults
    /\ writer \in FlushSites
    /\ committed' \in PartOfBatch
    /\ batch' = << >>
    /\ WriterEnds("failed")
    /\ UNCHANGED total

WriterStep ==
    /\ Running
    /\ \/ OpenStore
       \/ OpenStoreFails
       \/ ReadShutdown
       \/ DrainOne
       \/ DrainDone
       \/ RecvEvent
       \/ RecvTimeout
       \/ RecvDisconnected
       \/ CheckFull
       \/ FinalFlush
       \/ FinalReturn
       \/ FlushOk
       \/ FlushFails

-----------------------------------------------------------------------------
\* The process is over: the only behaviour left (so that TLC reports any
\* other state without a successor as a deadlock).
Over == ~Running /\ UNCHANGED vars

Next ==
    \/ Emit
    \/ CtrlC
    \/ IntervalElapses
    \/ Kill
    \/ HandlerStep
    \/ MainStep
    \/ WriterStep
    \/ Over

Spec == Init /\ [][Next]_vars

\* The scheduler runs every thread that can run, and time passes.  Nothing
\* obliges macOS to queue messages, the user to press Ctrl+C, or a fault.
Fairness ==
    /\ WF_vars(HandlerStep)
    /\ WF_vars(MainStep)
    /\ WF_vars(WriterStep)
    /\ WF_vars(IntervalElapses)

FairSpec == Spec /\ Fairness

-----------------------------------------------------------------------------
(* Safety. *)

\* What is in the store is a beginning of what was accepted, whatever failed
\* and wherever the process was killed: the channel, the batch and the flush
\* lose no event from the middle, repeat none and reorder none.
CommittedInOrder ==
    /\ Len(committed) <= Len(accepted)
    /\ committed = SubSeq(accepted, 1, Len(committed))

\* While the writer runs, every accepted event is in the store, in the batch
\* or in the channel, exactly once and in order.
NothingInTransitLost == RxOpen => committed \o batch \o chan = accepted

\* Until Ctrl+C, a kill costs at most one batch and a full channel (what
\* docs/design-tradeoffs.md says of a crash at any time).
LossIsBounded ==
    RxOpen /\ ~shutdown => Len(accepted) - Len(committed) <= BatchLimit + Capacity

\* When the process exits after a writer that did not fail, every event
\* accepted before Ctrl+C is in the store, and without Ctrl+C every event.
DurableAtExit ==
    main = "done" /\ writer # "failed" =>
        Len(committed) >= (IF shutdown THEN cutoff ELSE Len(accepted))

\* The number of events printed at exit is the number in the store; only a
\* flush that failed or was killed can leave more there than was counted.
StatsCountCommitted ==
    writer \notin {"failed", "killed"} => total = Len(committed)

\* A run that exits with an error never let an event into the pipeline.
ErrorExitMeansNoEvents == result = "error" => accepted = << >>

(* Why these hold: the same with the intermediate states of the writer. *)

\* The writer tests the size of the batch after every event it receives, and
\* only the drain takes events without that test.
BatchBounds ==
    /\ Len(chan) <= Capacity
    /\ writer \in {"draining", "flush_drain"} => shutdown
    /\ ~shutdown /\ RxOpen => Len(batch) <= BatchLimit
    /\ ~shutdown /\ writer \in {"opening", "top", "recv"} => Len(batch) < BatchLimit

\* n durable events are enough for the writer to end: all that Ctrl+C found
\* accepted, or all there ever will be.
EnoughToExit(n) ==
    \/ shutdown /\ cutoff <= n
    \/ ~SenderAlive /\ n = Len(accepted)

\* Once the writer has left its loop it holds enough, and its batch is all
\* that is missing in the store; the main thread waits for it.
LeavesWithEnough ==
    /\ shutdown => cutoff <= Len(accepted)
    /\ writer \in {"flush_drain", "final", "flush_last"} =>
           EnoughToExit(Len(committed) + Len(batch))
    /\ writer = "returned" => EnoughToExit(Len(committed))
    /\ main = "done" => writer \in {"returned", "failed"}
    /\ writer = "killed" => main = "killed"

\* A collector that never subscribed has had no message to handle.
NoEventsBeforeSubscribe ==
    /\ main \in {"starting", "collecting"} => result = "none"
    /\ main = "starting" \/ result = "error" => accepted = << >> /\ handler = "idle"

IInv ==
    /\ TypeOK
    /\ CommittedInOrder
    /\ NothingInTransitLost
    /\ BatchBounds
    /\ LeavesWithEnough
    /\ StatsCountCommitted
    /\ NoEventsBeforeSubscribe

(* What a step may never do. *)

\* The store only grows, and not at all once the writer has ended.
AppendOnly ==
    [][/\ Len(committed') >= Len(committed)
       /\ ~RxOpen => committed' = committed]_vars

(* Liveness, under FairSpec. *)

\* After Ctrl+C, and after a collector that failed to start, the process
\* ends: no thread waits for ever on another one.
StopsWhenAsked == (shutdown \/ result = "error") ~> ~Running

\* A handler blocked on a full channel is always released, by the writer
\* making room or by the Receiver being dropped.
SendReturns == handler = "sending" ~> (handler = "idle" \/ ~Running)

\* Every message macOS queues is handled, and so every AUTH message answered,
\* unless the client is closed.
EveryMessageHandled ==
    \A n \in Message : emitted >= n ~> (handled >= n \/ main # "collecting")

\* An event accepted before Ctrl+C becomes durable, with no later event needed
\* to push it out, unless the writer fails or the process is killed.
AcceptedBecomesDurable ==
    \A n \in Message :
        (Len(accepted) >= n /\ ~shutdown) ~>
            (Len(committed) >= n \/ writer \in {"failed", "killed"})

-----------------------------------------------------------------------------
(* The abstract log this pipeline implements. *)

Log == INSTANCE EventLog WITH
           Event <- Message, offered <- accepted, log <- committed,
           open <- RxOpen

\* The pipeline implements the log.
ImplementsLog == Log!Spec

-----------------------------------------------------------------------------
(* Claims of the repository's documents that the code does not keep. *)

\* "Writer drains the channel before exit."
WriterDrainsBeforeExit == writer = "returned" => committed = accepted

\* "Max normalised events per writer batch before flush."
BatchWithinLimit == Len(batch) <= BatchLimit
=============================================================================
