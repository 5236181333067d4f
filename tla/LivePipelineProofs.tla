------------------------- MODULE LivePipelineProofs -------------------------
(***************************************************************************)
(* Proofs about LivePipeline, for every number of messages, batch size,    *)
(* channel capacity and set of faults.                                     *)
(***************************************************************************)
EXTENDS LivePipeline, SequenceTheorems, TLAPS

-----------------------------------------------------------------------------
(* The constants. *)

LEMMA LimitsArePositive ==
    /\ BatchLimit \in Nat \ {0}
    /\ Capacity \in Nat \ {0}
BY ConstantsAssumption DEF BatchLimit, Capacity

-----------------------------------------------------------------------------
(* The moves of events between sequences. *)

\* A flush that stopped anywhere leaves a longer sequence of the same type.
LEMMA PartOfBatchType ==
    ASSUME committed \in Seq(Message), batch \in Seq(Message),
           NEW c \in PartOfBatch
    PROVE  /\ c \in Seq(Message)
           /\ Len(c) >= Len(committed)
<1>1. PICK n \in 0 .. Len(batch) : c = committed \o SubSeq(batch, 1, n)
  BY DEF PartOfBatch
<1>2. n \in Nat /\ n \in Int /\ 1 \in Int
  BY <1>1, LenProperties
<1>3. \A i \in 1 .. n : batch[i] \in Message
  BY <1>1, ElementOfSeq, LenProperties
<1>4. SubSeq(batch, 1, n) \in Seq(Message)
  BY <1>2, <1>3, SubSeqProperties
<1> QED
  BY <1>1, <1>4, ConcatProperties, LenProperties

\* A sequence is a beginning of itself with anything behind it.
LEMMA PrefixOfConcat ==
    ASSUME NEW S, NEW s \in Seq(S), NEW t \in Seq(S)
    PROVE  /\ Len(s) <= Len(s \o t)
           /\ s = SubSeq(s \o t, 1, Len(s))
<1>1. /\ Len(s) \in Nat /\ Len(t) \in Nat
      /\ s \o t \in Seq(S)
      /\ Len(s \o t) = Len(s) + Len(t)
      /\ \A i \in 1 .. Len(s) : (s \o t)[i] = s[i] /\ s[i] \in S
  BY ConcatProperties, LenProperties, ElementOfSeq
<1>2. /\ SubSeq(s \o t, 1, Len(s)) \in Seq(S)
      /\ Len(SubSeq(s \o t, 1, Len(s))) = Len(s)
      /\ \A i \in 1 .. Len(s) : SubSeq(s \o t, 1, Len(s))[i] = (s \o t)[i]
  <2>1. 1 \in Int /\ Len(s) \in Int /\ \A i \in 1 .. Len(s) : (s \o t)[i] \in S
    BY <1>1
  <2>2. /\ SubSeq(s \o t, 1, Len(s)) \in Seq(S)
        /\ Len(SubSeq(s \o t, 1, Len(s))) = IF 1 <= Len(s) THEN Len(s) - 1 + 1 ELSE 0
        /\ \A i \in 1 .. Len(s) - 1 + 1 : SubSeq(s \o t, 1, Len(s))[i] = (s \o t)[1 + i - 1]
    BY <2>1, SubSeqProperties
  <2> QED
    BY <1>1, <2>2
<1> QED
  BY <1>1, <1>2, SeqEqual

\* The first of three sequences is a beginning of them all.
LEMMA FirstOfThree ==
    ASSUME NEW S, NEW s \in Seq(S), NEW t \in Seq(S), NEW u \in Seq(S)
    PROVE  /\ Len(s) <= Len((s \o t) \o u)
           /\ s = SubSeq((s \o t) \o u, 1, Len(s))
<1>1. (s \o t) \o u = s \o (t \o u)
  BY ConcatAssociative
<1>2. t \o u \in Seq(S)
  BY ConcatProperties
<1> QED
  BY <1>1, <1>2, PrefixOfConcat

\* Associativity for four sequences.
LEMMA AddAtEnd ==
    ASSUME NEW S, NEW s \in Seq(S), NEW t \in Seq(S), NEW u \in Seq(S),
           NEW v \in Seq(S)
    PROVE  (s \o t) \o (u \o v) = ((s \o t) \o u) \o v
<1> DEFINE st == s \o t
<1>1. st \in Seq(S)
  BY ConcatProperties
<1> HIDE DEF st
<1>2. st \o (u \o v) = (st \o u) \o v
  BY <1>1, ConcatAssociative, SMTT(30)
<1> QED
  BY <1>2 DEF st

LEMMA Regroup ==
    ASSUME NEW S, NEW s \in Seq(S), NEW t \in Seq(S), NEW u \in Seq(S),
           NEW v \in Seq(S)
    PROVE  (s \o (t \o u)) \o v = (s \o t) \o (u \o v)
<1>1. s \o (t \o u) = (s \o t) \o u
  BY ConcatAssociative, SMTT(30)
<1>2. s \o t \in Seq(S)
  BY ConcatProperties
<1>3. ((s \o t) \o u) \o v = (s \o t) \o (u \o v)
  BY <1>2, ConcatAssociative
<1> QED
  BY <1>1, <1>3

\* The durable part of a flush cut short is a beginning of all that was in
\* the pipeline.
LEMMA PartOfBatchIsPrefix ==
    ASSUME committed \in Seq(Message), batch \in Seq(Message),
           chan \in Seq(Message), NEW c \in PartOfBatch
    PROVE  \E t \in Seq(Message) : (committed \o batch) \o chan = c \o t
<1>1. PICK n \in 0 .. Len(batch) : c = committed \o SubSeq(batch, 1, n)
  BY DEF PartOfBatch
<1> DEFINE done == SubSeq(batch, 1, n)
           rest == SubSeq(batch, n + 1, Len(batch))
<1>2. Len(batch) \in Nat /\ n \in Nat /\ \A i \in 1 .. Len(batch) : batch[i] \in Message
  BY <1>1, LenProperties, ElementOfSeq
<1>3. done \in Seq(Message)
  <2>1. n \in Int /\ 1 \in Int /\ \A i \in 1 .. n : batch[i] \in Message
    BY <1>1, <1>2
  <2> QED
    BY <2>1, SubSeqProperties
<1>4. rest \in Seq(Message)
  <2>1. n + 1 \in Int /\ Len(batch) \in Int /\ \A i \in n + 1 .. Len(batch) : batch[i] \in Message
    BY <1>1, <1>2
  <2> QED
    BY <2>1, SubSeqProperties
<1>5. batch = done \o rest
  <2>1. 1 \in 1 .. Len(batch) + 1 /\ n \in 1 - 1 .. Len(batch) /\ Len(batch) \in n .. Len(batch)
    BY <1>1, <1>2
  <2>2. SubSeq(batch, 1, n) \o SubSeq(batch, n + 1, Len(batch)) = SubSeq(batch, 1, Len(batch))
    BY <2>1, ConcatAdjacentSubSeq
  <2> QED
    BY <2>2, SubSeqFull
<1>6. rest \o chan \in Seq(Message)
  <2> HIDE DEF rest
  <2> QED
    BY <1>4, ConcatProperties
<1>7. (committed \o (done \o rest)) \o chan = (committed \o done) \o (rest \o chan)
  <2> HIDE DEF done, rest
  <2> QED
    BY <1>3, <1>4, Regroup, SMTT(30)
<1> QED
  BY <1>1, <1>5, <1>6, <1>7

\* An event taken from the channel into the batch stays where it was.
LEMMA TakeKeepsOrder ==
    ASSUME committed \in Seq(Message), batch \in Seq(Message),
           chan \in Seq(Message), TakeFromChannel
    PROVE  (committed \o batch') \o chan' = (committed \o batch) \o chan
<1> DEFINE e == Head(chan)
           ch == Tail(chan)
<1>1. e \in Message /\ ch \in Seq(Message) /\ <<e>> \in Seq(Message)
  BY HeadTailProperties DEF TakeFromChannel
<1>2. chan = <<e>> \o ch
  BY <1>1, ConcatProperties, HeadTailProperties, SeqEqual DEF TakeFromChannel
<1>3. batch' = batch \o <<e>> /\ chan' = ch
  BY <1>1, AppendIsConcat DEF TakeFromChannel
<1> HIDE DEF e, ch
<1>4. committed \o batch' = (committed \o batch) \o <<e>>
  BY <1>1, <1>3, ConcatAssociative
<1>5. committed \o batch \in Seq(Message)
  BY ConcatProperties
<1> QED
  BY <1>1, <1>2, <1>3, <1>4, <1>5, ConcatAssociative

-----------------------------------------------------------------------------
(* Types. *)

LEMMA TypeInit == Init => TypeOK
<1>1. << >> \in Seq(Message)
  BY EmptySeq
<1>2. 0 \in 0 .. MaxMessages /\ 0 \in 0 .. 0 /\ 0 \in Nat
  BY ConstantsAssumption
<1> QED
  BY <1>1, <1>2 DEF Init, TypeOK, MainStates, WriterStates

\* What the handler sends is a message macOS queued.
LEMMA SentMessage ==
    ASSUME TypeOK, SendOk
    PROVE  handled \in Message /\ <<handled>> \in Seq(Message)
<1>1. /\ MaxMessages \in Nat /\ emitted \in 0 .. MaxMessages
      /\ handled \in 0 .. emitted /\ handled > 0
  BY ConstantsAssumption DEF TypeOK, SendOk
<1> QED
  BY <1>1 DEF Message

LEMMA TypeStep == TypeOK /\ [Next]_vars => TypeOK'
<1> SUFFICES ASSUME TypeOK, [Next]_vars
             PROVE  TypeOK'
  OBVIOUS
<1> USE ConstantsAssumption
<1>1. CASE Emit
  BY <1>1 DEF TypeOK, Emit, handlerVars, mainVars, signalVars, writerVars
<1>2. CASE CtrlC
  BY <1>2, LenProperties
  DEF TypeOK, CtrlC, kernelVars, handlerVars, mainVars, writerVars
<1>3. CASE IntervalElapses
  BY <1>3 DEF TypeOK, IntervalElapses, kernelVars, handlerVars, mainVars, signalVars
<1>4. CASE Kill
  <2>1. committed' \in Seq(Message)
    BY <1>4, PartOfBatchType DEF TypeOK, Kill
  <2>2. batch' \in Seq(Message) /\ chan' \in Seq(Message)
    BY <1>4, EmptySeq DEF Kill
  <2> QED
    BY <1>4, <2>1, <2>2
    DEF TypeOK, Kill, kernelVars, handlerVars, signalVars, MainStates,
        WriterStates, WriterEnded
<1>5. CASE HandlerStep
  <2>1. CASE HandleNothing
    BY <2>1 DEF TypeOK, HandleNothing, kernelVars, mainVars, signalVars, writerVars
  <2>2. CASE HandleEvent
    BY <2>2 DEF TypeOK, HandleEvent, kernelVars, mainVars, signalVars, writerVars
  <2>3. CASE SendOk
    <3>1. handled \in Message
      BY <2>3 DEF TypeOK, SendOk, Message
    <3>2. Append(chan, handled) \in Seq(Message) /\ Append(accepted, handled) \in Seq(Message)
      BY <3>1, AppendProperties DEF TypeOK
    <3> QED
      BY <2>3, <3>2 DEF TypeOK, SendOk, kernelVars, mainVars, signalVars, writerVars
  <2>4. CASE SendErr
    BY <2>4 DEF TypeOK, SendErr, kernelVars, mainVars, signalVars, writerVars
  <2> QED
    BY <1>5, <2>1, <2>2, <2>3, <2>4 DEF HandlerStep
<1>6. CASE MainStep
  BY <1>6
  DEF TypeOK, MainStep, CollectorStarts, CollectorFails, PollSeesShutdown,
      JoinWriter, kernelVars, handlerVars, signalVars, writerVars, MainStates
<1>7. CASE WriterStep
  <2> USE <1>7 DEF TypeOK, WriterGoesTo, kernelVars, handlerVars, mainVars,
                   signalVars, WriterStates, WriterEnded
  <2>1. CASE OpenStore
    BY <2>1 DEF OpenStore
  <2>2. CASE OpenStoreFails
    BY <2>2, EmptySeq DEF OpenStoreFails, WriterEnds
  <2>3. CASE ReadShutdown
    BY <2>3 DEF ReadShutdown
  <2>4. TakeFromChannel => batch' \in Seq(Message) /\ chan' \in Seq(Message)
    BY AppendProperties, HeadTailProperties DEF TakeFromChannel
  <2>5. CASE DrainOne
    BY <2>4, <2>5 DEF DrainOne
  <2>6. CASE DrainDone
    BY <2>6 DEF DrainDone, FlushSites
  <2>7. CASE RecvEvent
    BY <2>4, <2>7 DEF RecvEvent
  <2>8. CASE RecvTimeout
    BY <2>8 DEF RecvTimeout, FlushSites
  <2>9. CASE RecvDisconnected
    BY <2>9 DEF RecvDisconnected
  <2>10. CASE CheckFull
    BY <2>10 DEF CheckFull, FlushSites
  <2>11. CASE FinalFlush
    BY <2>11 DEF FinalFlush, FlushSites
  <2>12. CASE FinalReturn
    BY <2>12, EmptySeq DEF FinalReturn, WriterEnds
  <2>13. CASE FlushOk
    <3>1. /\ committed \o batch \in Seq(Message)
          /\ total + Len(batch) \in Nat
      BY ConcatProperties, LenProperties
    <3>2. AfterFlush[writer] \in WriterStates
      BY <2>13 DEF FlushOk, AfterFlush, FlushSites
    <3> QED
      BY <2>13, <3>1, <3>2, EmptySeq DEF FlushOk
  <2>14. CASE FlushFails
    <3>1. committed' \in Seq(Message)
      BY <2>14, PartOfBatchType DEF FlushFails
    <3> QED
      BY <2>14, <3>1, EmptySeq DEF FlushFails, WriterEnds
  <2> QED
    BY <2>1, <2>2, <2>3, <2>5, <2>6, <2>7, <2>8, <2>9, <2>10, <2>11,
       <2>12, <2>13, <2>14 DEF WriterStep
<1>8. CASE Over \/ UNCHANGED vars
  BY <1>8 DEF TypeOK, Over, vars, kernelVars, handlerVars, mainVars, signalVars, writerVars
<1> QED
  BY <1>1, <1>2, <1>3, <1>4, <1>5, <1>6, <1>7, <1>8 DEF Next

\* Type correctness: the threads keep to their states, the handler to the
\* messages macOS queued, and every sequence holds messages.
THEOREM TypeCorrect == Spec => []TypeOK
BY TypeInit, TypeStep, PTL DEF Spec

-----------------------------------------------------------------------------
(* Nothing is lost in transit, and the store is a beginning of what was      *)
(* accepted.                                                                 *)

\* What a flush cut short made durable is still a beginning of it.
LEMMA PartOfBatchInOrder ==
    ASSUME TypeOK, RxOpen, NothingInTransitLost, NEW c \in PartOfBatch
    PROVE  /\ Len(c) <= Len(accepted)
           /\ c = SubSeq(accepted, 1, Len(c))
<1>1. c \in Seq(Message)
  BY PartOfBatchType DEF TypeOK
<1>2. PICK t \in Seq(Message) : accepted = c \o t
  BY PartOfBatchIsPrefix DEF TypeOK, NothingInTransitLost
<1> QED
  BY <1>1, <1>2, PrefixOfConcat

LEMMA InOrderStep ==
    ASSUME TypeOK, TypeOK', NothingInTransitLost, CommittedInOrder, [Next]_vars
    PROVE  NothingInTransitLost' /\ CommittedInOrder'
<1> DEFINE Same == UNCHANGED <<committed, batch, chan, accepted>>
\* Two ways to keep both: nothing moves and no closed writer reopens, or the
\* first is re-established by a running writer.
<1>1. ASSUME Same, RxOpen' => RxOpen
      PROVE  NothingInTransitLost' /\ CommittedInOrder'
  BY <1>1 DEF NothingInTransitLost, CommittedInOrder
<1>2. ASSUME NothingInTransitLost', RxOpen'
      PROVE  CommittedInOrder'
  <2>1. accepted' = (committed' \o batch') \o chan'
    BY <1>2 DEF NothingInTransitLost
  <2> QED
    BY <2>1, FirstOfThree DEF TypeOK, CommittedInOrder
\* Or the writer ends, with a beginning of the batch durable at most.
<1>3. ASSUME RxOpen, ~RxOpen', UNCHANGED accepted,
             committed' \in PartOfBatch \cup {committed}
      PROVE  NothingInTransitLost' /\ CommittedInOrder'
  BY <1>3, PartOfBatchInOrder DEF NothingInTransitLost, CommittedInOrder
<1>4. CASE Emit \/ CtrlC \/ IntervalElapses \/ MainStep \/ Over \/ UNCHANGED vars
  <2>1. Same /\ (RxOpen' => RxOpen)
    BY <1>4
    DEF Emit, CtrlC, IntervalElapses, MainStep, CollectorStarts,
        CollectorFails, PollSeesShutdown, JoinWriter, Over, vars, kernelVars,
        handlerVars, mainVars, signalVars, writerVars, RxOpen
  <2> QED
    BY <1>1, <2>1
<1>5. CASE Kill
  <2>1. ~RxOpen' /\ UNCHANGED accepted
    BY <1>5 DEF Kill, handlerVars, RxOpen, WriterEnded
  <2>2. CASE RxOpen
    <3>1. committed' \in PartOfBatch \cup {committed}
      BY <1>5 DEF Kill
    <3> QED
      BY <1>3, <2>1, <2>2, <3>1
  <2>3. CASE ~RxOpen
    <3>1. UNCHANGED committed
      BY <1>5, <2>3 DEF Kill, RxOpen, FlushSites, WriterEnded
    <3> QED
      BY <2>1, <3>1 DEF NothingInTransitLost, CommittedInOrder
  <2> QED
    BY <2>2, <2>3
<1>6. CASE HandlerStep
  <2>1. CASE HandleNothing \/ HandleEvent \/ SendErr
    <3>1. Same /\ (RxOpen' => RxOpen)
      BY <2>1
      DEF HandleNothing, HandleEvent, SendErr, kernelVars, handlerVars,
          mainVars, signalVars, writerVars, RxOpen
    <3> QED
      BY <1>1, <3>1
  <2>2. CASE SendOk
    <3>1. /\ RxOpen /\ RxOpen'
          /\ UNCHANGED <<committed, batch>>
          /\ chan' = Append(chan, handled)
          /\ accepted' = Append(accepted, handled)
      BY <2>2 DEF SendOk, writerVars, RxOpen
    <3>2. handled \in Message /\ <<handled>> \in Seq(Message)
      BY <2>2, SentMessage
    <3>3. /\ chan' = chan \o <<handled>>
          /\ accepted' = accepted \o <<handled>>
      BY <3>1, <3>2, AppendIsConcat DEF TypeOK
    <3>5. (committed \o batch) \o (chan \o <<handled>>)
            = ((committed \o batch) \o chan) \o <<handled>>
      <4>1. /\ committed \in Seq(Message) /\ batch \in Seq(Message)
            /\ chan \in Seq(Message)
        BY DEF TypeOK
      <4> QED
        BY <3>2, <4>1, AddAtEnd, SMTT(60)
    <3>6. NothingInTransitLost'
      BY <3>1, <3>3, <3>5 DEF NothingInTransitLost
    <3> QED
      BY <1>2, <3>1, <3>6
  <2> QED
    BY <1>6, <2>1, <2>2 DEF HandlerStep
<1>7. CASE WriterStep
  <2>1. CASE OpenStore \/ ReadShutdown \/ DrainDone \/ RecvTimeout
               \/ RecvDisconnected \/ CheckFull \/ FinalFlush
    <3>1. Same /\ RxOpen
      BY <2>1
      DEF OpenStore, ReadShutdown, DrainDone, RecvTimeout, RecvDisconnected,
          CheckFull, FinalFlush, WriterGoesTo, handlerVars, RxOpen, WriterEnded
    <3> QED
      BY <1>1, <3>1
  <2>2. CASE DrainOne \/ RecvEvent
    <3>1. /\ RxOpen /\ RxOpen'
          /\ TakeFromChannel
          /\ UNCHANGED <<committed, accepted>>
      BY <2>2
      DEF DrainOne, RecvEvent, WriterGoesTo, handlerVars, RxOpen, WriterEnded
    <3>2. NothingInTransitLost'
      BY <3>1, TakeKeepsOrder DEF TypeOK, NothingInTransitLost
    <3> QED
      BY <1>2, <3>1, <3>2
  <2>3. CASE OpenStoreFails \/ FinalReturn \/ FlushFails
    <3>1. /\ RxOpen /\ ~RxOpen'
          /\ UNCHANGED accepted
          /\ committed' \in PartOfBatch \cup {committed}
      BY <2>3
      DEF OpenStoreFails, FinalReturn, FlushFails, WriterEnds, handlerVars,
          RxOpen, WriterEnded, FlushSites
    <3> QED
      BY <1>3, <3>1
  <2>4. CASE FlushOk
    <3>1. /\ RxOpen
          /\ RxOpen'
          /\ committed' = committed \o batch
          /\ batch' = << >>
          /\ UNCHANGED <<chan, accepted>>
      BY <2>4 DEF FlushOk, handlerVars, RxOpen, WriterEnded, FlushSites, AfterFlush
    <3>2. (committed \o batch) \o << >> = committed \o batch
      BY ConcatProperties, ConcatEmptySeq DEF TypeOK
    <3>3. NothingInTransitLost'
      BY <3>1, <3>2 DEF NothingInTransitLost
    <3> QED
      BY <1>2, <3>1, <3>3
  <2> QED
    BY <1>7, <2>1, <2>2, <2>3, <2>4 DEF WriterStep
<1> QED
  BY <1>4, <1>5, <1>6, <1>7 DEF Next

-----------------------------------------------------------------------------
(* The sizes of the channel and of the batch. *)

LEMMA BoundsStep ==
    ASSUME TypeOK, BatchBounds, [Next]_vars
    PROVE  BatchBounds'
<1> USE LimitsArePositive
<1> DEFINE Lens == Len(batch) \in Nat /\ Len(chan) \in Nat
<1>1. Lens /\ Len(<< >>) = 0
  BY LenProperties, EmptySeq DEF TypeOK
<1>2. CASE Emit \/ IntervalElapses \/ MainStep \/ Over \/ UNCHANGED vars
  BY <1>2
  DEF BatchBounds, Emit, IntervalElapses, MainStep, CollectorStarts,
      CollectorFails, PollSeesShutdown, JoinWriter, Over, vars, kernelVars,
      handlerVars, mainVars, signalVars, writerVars, RxOpen
<1>3. CASE CtrlC
  BY <1>3 DEF BatchBounds, CtrlC, writerVars, RxOpen
<1>4. CASE Kill
  BY <1>1, <1>4 DEF BatchBounds, Kill, signalVars, RxOpen, WriterEnded
<1>5. CASE HandlerStep
  <2>1. CASE HandleNothing \/ HandleEvent \/ SendErr
    BY <2>1
    DEF BatchBounds, HandleNothing, HandleEvent, SendErr, signalVars,
        writerVars, RxOpen
  <2>2. CASE SendOk
    <3>1. handled \in Message
      BY <2>2, SentMessage
    <3>2. Len(Append(chan, handled)) = Len(chan) + 1
      BY <3>1, AppendProperties DEF TypeOK
    <3>3. Len(chan') = Len(chan) + 1 /\ Len(chan) < Capacity
      BY <2>2, <3>2 DEF SendOk
    <3> QED
      BY <1>1, <2>2, <3>3 DEF BatchBounds, SendOk, signalVars, writerVars, RxOpen
  <2> QED
    BY <1>5, <2>1, <2>2 DEF HandlerStep
<1>6. CASE WriterStep
  <2> USE DEF BatchBounds, WriterGoesTo, signalVars, RxOpen, WriterEnded
  <2>1. CASE OpenStore \/ ReadShutdown \/ DrainDone \/ RecvDisconnected
               \/ FinalFlush
    BY <1>1, <2>1
    DEF OpenStore, ReadShutdown, DrainDone, RecvDisconnected, FinalFlush
  <2>2. TakeFromChannel => /\ Len(batch') = Len(batch) + 1
                           /\ Len(chan') = Len(chan) - 1
    BY AppendProperties, HeadTailProperties DEF TypeOK, TakeFromChannel
  <2>3. CASE DrainOne
    BY <1>1, <2>2, <2>3 DEF DrainOne
  <2>4. CASE RecvEvent
    BY <1>1, <2>2, <2>4 DEF RecvEvent
  <2>5. CASE RecvTimeout
    BY <1>1, <2>5 DEF RecvTimeout
  <2>6. CASE CheckFull
    BY <1>1, <2>6 DEF CheckFull
  <2>7. CASE OpenStoreFails \/ FinalReturn \/ FlushFails
    BY <1>1, <2>7 DEF OpenStoreFails, FinalReturn, FlushFails, WriterEnds
  <2>8. CASE FlushOk
    BY <1>1, <2>8 DEF FlushOk, FlushSites, AfterFlush
  <2> QED
    BY <1>6, <2>1, <2>3, <2>4, <2>5, <2>6, <2>7, <2>8 DEF WriterStep
<1> QED
  BY <1>2, <1>3, <1>4, <1>5, <1>6 DEF Next

-----------------------------------------------------------------------------
(* What the writer leaves behind. *)

LEMMA LeavesStep ==
    ASSUME TypeOK, NothingInTransitLost, LeavesWithEnough, BatchBounds,
           [Next]_vars
    PROVE  LeavesWithEnough'
<1>1. /\ Len(batch) \in Nat /\ Len(chan) \in Nat
      /\ Len(committed) \in Nat /\ Len(accepted) \in Nat
      /\ Len(<< >>) = 0
      /\ cutoff \in Nat
  BY LenProperties, EmptySeq DEF TypeOK
<1>2. RxOpen => Len(accepted) = Len(committed) + Len(batch) + Len(chan)
  <2>1. /\ committed \o batch \in Seq(Message)
        /\ Len(committed \o batch) = Len(committed) + Len(batch)
    BY ConcatProperties DEF TypeOK
  <2>2. Len((committed \o batch) \o chan) = Len(committed \o batch) + Len(chan)
    BY <2>1, ConcatProperties DEF TypeOK
  <2> QED
    BY <2>1, <2>2 DEF NothingInTransitLost
<1> USE DEF LeavesWithEnough, EnoughToExit, SenderAlive
<1>3. CASE Emit \/ IntervalElapses \/ Over \/ UNCHANGED vars
  BY <1>3
  DEF Emit, IntervalElapses, Over, vars, kernelVars, handlerVars, mainVars,
      signalVars, writerVars
<1>4. CASE CtrlC
  BY <1>1, <1>4 DEF CtrlC, Running, handlerVars, mainVars, writerVars
<1>5. CASE Kill
  BY <1>1, <1>5 DEF Kill, handlerVars, signalVars, RxOpen, WriterEnded, Running, FlushSites
<1>6. CASE MainStep
  BY <1>6
  DEF MainStep, CollectorStarts, CollectorFails, PollSeesShutdown, JoinWriter,
      RxOpen, WriterEnded, handlerVars, signalVars, writerVars
<1>7. CASE HandlerStep
  <2>1. CASE HandleNothing \/ HandleEvent \/ SendErr
    BY <2>1
    DEF HandleNothing, HandleEvent, SendErr, mainVars, signalVars, writerVars
  <2>2. CASE SendOk
    <3>1. handled \in Message
      BY <2>2, SentMessage
    <3>2. Len(Append(accepted, handled)) = Len(accepted) + 1
      BY <3>1, AppendProperties DEF TypeOK
    <3>3. Len(accepted') = Len(accepted) + 1
      BY <2>2, <3>2 DEF SendOk
    <3> QED
      BY <1>1, <2>2, <3>3 DEF SendOk, mainVars, signalVars, writerVars
  <2> QED
    BY <1>7, <2>1, <2>2 DEF HandlerStep
<1>8. CASE WriterStep
  <2> USE <1>8 DEF WriterStep, WriterGoesTo, WriterEnds, Running, handlerVars,
               mainVars, signalVars
  <2>1. CASE OpenStore \/ ReadShutdown \/ DrainOne \/ RecvEvent
               \/ RecvTimeout \/ CheckFull
    BY <2>1
    DEF OpenStore, ReadShutdown, DrainOne, RecvEvent, RecvTimeout, CheckFull
  <2>2. CASE DrainDone
    BY <1>1, <1>2, <2>2 DEF DrainDone, BatchBounds, RxOpen, WriterEnded
  <2>3. CASE RecvDisconnected
    BY <1>1, <1>2, <2>3 DEF RecvDisconnected, RxOpen, WriterEnded
  <2>4. CASE FinalFlush
    BY <2>4 DEF FinalFlush
  <2>5. CASE OpenStoreFails \/ FlushFails
    BY <2>5 DEF OpenStoreFails, FlushFails
  <2>6. CASE FinalReturn
    BY <1>1, <2>6 DEF FinalReturn
  <2>7. CASE FlushOk
    <3>1. Len(committed') = Len(committed) + Len(batch) /\ Len(batch') = 0
      BY <1>1, <2>7, ConcatProperties DEF TypeOK, FlushOk
    <3> QED
      BY <1>1, <2>7, <3>1 DEF FlushOk, FlushSites, AfterFlush
  <2> QED
    BY <2>1, <2>2, <2>3, <2>4, <2>5, <2>6, <2>7
<1> QED
  BY <1>3, <1>4, <1>5, <1>6, <1>7, <1>8 DEF Next

-----------------------------------------------------------------------------
(* The statistics, and a collector that never subscribed. *)

LEMMA StatsStep ==
    ASSUME TypeOK, StatsCountCommitted, [Next]_vars
    PROVE  StatsCountCommitted'
<1> USE DEF StatsCountCommitted
<1>1. CASE Emit \/ CtrlC \/ IntervalElapses \/ HandlerStep \/ MainStep \/ Over
              \/ UNCHANGED vars
  BY <1>1
  DEF Emit, CtrlC, IntervalElapses, HandlerStep, HandleNothing, HandleEvent,
      SendOk, SendErr, MainStep, CollectorStarts, CollectorFails,
      PollSeesShutdown, JoinWriter, Over, vars, writerVars
<1>2. CASE Kill
  BY <1>2 DEF Kill, RxOpen, FlushSites, WriterEnded
<1>3. CASE WriterStep
  <2>1. CASE FlushOk
    <3>1. Len(committed') = Len(committed) + Len(batch)
      BY <2>1, ConcatProperties DEF TypeOK, FlushOk
    <3> QED
      BY <2>1, <3>1 DEF FlushOk, FlushSites
  <2>2. CASE ~FlushOk
    BY <1>3, <2>2
    DEF WriterStep, OpenStore, OpenStoreFails, ReadShutdown, DrainOne,
        DrainDone, RecvEvent, RecvTimeout, RecvDisconnected, CheckFull,
        FinalFlush, FinalReturn, FlushFails, WriterGoesTo, WriterEnds
  <2> QED
    BY <2>1, <2>2
<1> QED
  BY <1>1, <1>2, <1>3 DEF Next

LEMMA NoEventsStep ==
    ASSUME NoEventsBeforeSubscribe, [Next]_vars
    PROVE  NoEventsBeforeSubscribe'
<1> USE DEF NoEventsBeforeSubscribe
<1>1. CASE Emit \/ CtrlC \/ IntervalElapses \/ Kill \/ Over \/ UNCHANGED vars
  BY <1>1
  DEF Emit, CtrlC, IntervalElapses, Kill, Over, vars, kernelVars, handlerVars,
      mainVars
<1>2. CASE HandlerStep
  BY <1>2
  DEF HandlerStep, HandleNothing, HandleEvent, SendOk, SendErr, mainVars
<1>3. CASE MainStep
  BY <1>3
  DEF MainStep, CollectorStarts, CollectorFails, PollSeesShutdown, JoinWriter,
      handlerVars
<1>4. CASE WriterStep
  BY <1>4
  DEF WriterStep, OpenStore, OpenStoreFails, ReadShutdown, DrainOne,
      DrainDone, RecvEvent, RecvTimeout, RecvDisconnected, CheckFull,
      FinalFlush, FinalReturn, FlushOk, FlushFails, WriterGoesTo, WriterEnds,
      handlerVars, mainVars
<1> QED
  BY <1>1, <1>2, <1>3, <1>4 DEF Next

-----------------------------------------------------------------------------
(* The inductive invariant and what follows from it. *)

LEMMA InvInit == Init => IInv
<1> SUFFICES ASSUME Init
             PROVE  IInv
  OBVIOUS
<1>1. TypeOK
  BY TypeInit
<1>2. /\ << >> \o << >> = << >>
      /\ Len(<< >>) = 0
      /\ SubSeq(<< >>, 1, 0) = << >>
  BY EmptySeq, ConcatEmptySeq, SubSeqEmpty
<1>3. CommittedInOrder /\ NothingInTransitLost /\ StatsCountCommitted
  BY <1>2 DEF Init, CommittedInOrder, NothingInTransitLost, StatsCountCommitted
<1>4. BatchBounds
  BY <1>2, LimitsArePositive DEF Init, BatchBounds
<1>5. LeavesWithEnough /\ NoEventsBeforeSubscribe
  BY DEF Init, LeavesWithEnough, NoEventsBeforeSubscribe
<1> QED
  BY <1>1, <1>3, <1>4, <1>5 DEF IInv

LEMMA InvStep == IInv /\ [Next]_vars => IInv'
<1> SUFFICES ASSUME IInv, [Next]_vars
             PROVE  IInv'
  OBVIOUS
<1> USE DEF IInv
<1>1. TypeOK'
  BY TypeStep
<1>2. NothingInTransitLost' /\ CommittedInOrder'
  BY <1>1, InOrderStep
<1>3. BatchBounds'
  BY BoundsStep
<1>4. LeavesWithEnough'
  BY LeavesStep
<1>5. StatsCountCommitted' /\ NoEventsBeforeSubscribe'
  BY StatsStep, NoEventsStep
<1> QED
  BY <1>1, <1>2, <1>3, <1>4, <1>5

\* The invariant of the pipeline, from which the theorems below follow.
THEOREM Invariant == Spec => []IInv
BY InvInit, InvStep, PTL DEF Spec

\* The store is always a beginning of what was accepted (ingest order, no
\* event lost from the middle, none twice), through failures and kills.
THEOREM StoreInOrder == Spec => []CommittedInOrder
<1>1. IInv => CommittedInOrder
  BY DEF IInv
<1> QED
  BY <1>1, Invariant, PTL

\* While the writer runs, channel, batch and store together are exactly what
\* was accepted.
THEOREM InTransitSafe == Spec => []NothingInTransitLost
<1>1. IInv => NothingInTransitLost
  BY DEF IInv
<1> QED
  BY <1>1, Invariant, PTL

\* Before Ctrl+C a kill loses at most one batch and one channel.
THEOREM BoundedLoss == Spec => []LossIsBounded
<1>1. IInv => LossIsBounded
  <2> SUFFICES ASSUME IInv, RxOpen, ~shutdown
               PROVE  Len(accepted) - Len(committed) <= BatchLimit + Capacity
    BY DEF LossIsBounded
  <2>1. /\ committed \in Seq(Message) /\ batch \in Seq(Message)
        /\ chan \in Seq(Message)
        /\ accepted = (committed \o batch) \o chan
        /\ Len(batch) <= BatchLimit /\ Len(chan) <= Capacity
    BY DEF IInv, TypeOK, NothingInTransitLost, BatchBounds
  <2>2. /\ committed \o batch \in Seq(Message)
        /\ Len(committed \o batch) = Len(committed) + Len(batch)
    BY <2>1, ConcatProperties
  <2>3. Len(accepted) = Len(committed) + Len(batch) + Len(chan)
    BY <2>1, <2>2, ConcatProperties
  <2>4. Len(committed) \in Nat /\ Len(batch) \in Nat /\ Len(chan) \in Nat
    BY <2>1, LenProperties
  <2> QED
    BY <2>1, <2>3, <2>4, LimitsArePositive
<1> QED
  BY <1>1, Invariant, PTL

LEMMA EnoughAtExit == IInv => DurableAtExit
<1> SUFFICES ASSUME IInv, main = "done", writer # "failed"
             PROVE  Len(committed) >= (IF shutdown THEN cutoff ELSE Len(accepted))
  BY DEF DurableAtExit
<1>1. writer = "returned" /\ EnoughToExit(Len(committed))
  BY DEF IInv, LeavesWithEnough
<1>2. /\ Len(committed) \in Nat /\ Len(accepted) \in Nat /\ cutoff \in Nat
      /\ shutdown => cutoff <= Len(accepted)
  BY LenProperties DEF IInv, TypeOK, LeavesWithEnough
<1> QED
  BY <1>1, <1>2 DEF EnoughToExit

\* What was accepted before Ctrl+C is in the store when the process exits
\* after a writer that did not fail; without Ctrl+C, all that was accepted.
THEOREM ExitIsDurable == Spec => []DurableAtExit
BY EnoughAtExit, Invariant, PTL

\* The event count the run prints is the number of events in the store.
THEOREM StatsAreTrue == Spec => []StatsCountCommitted
<1>1. IInv => StatsCountCommitted
  BY DEF IInv
<1> QED
  BY <1>1, Invariant, PTL

\* A run that exits with an error has let no event into the pipeline.
THEOREM ErrorExitIsClean == Spec => []ErrorExitMeansNoEvents
<1>1. IInv => ErrorExitMeansNoEvents
  BY DEF IInv, NoEventsBeforeSubscribe, ErrorExitMeansNoEvents
<1> QED
  BY <1>1, Invariant, PTL

-----------------------------------------------------------------------------
(* Steps: the store only grows, and the pipeline implements the log. *)

LEMMA AppendOnlyStep ==
    ASSUME TypeOK, [Next]_vars
    PROVE  /\ Len(committed') >= Len(committed)
           /\ ~RxOpen => committed' = committed
<1>1. Len(committed) \in Nat /\ Len(batch) \in Nat
  BY LenProperties DEF TypeOK
<1>2. CASE Kill
  <2>1. CASE writer \in FlushSites
    <3>1. RxOpen
      BY <2>1 DEF FlushSites, RxOpen, WriterEnded
    <3>2. committed' \in PartOfBatch
      BY <1>2, <2>1 DEF Kill
    <3> QED
      BY <3>1, <3>2, PartOfBatchType DEF TypeOK
  <2>2. CASE writer \notin FlushSites
    BY <1>1, <1>2, <2>2 DEF Kill
  <2> QED
    BY <2>1, <2>2
<1>3. CASE WriterStep
  <2>1. RxOpen
    BY <1>3
    DEF WriterStep, OpenStore, OpenStoreFails, ReadShutdown, DrainOne,
        DrainDone, RecvEvent, RecvTimeout, RecvDisconnected, CheckFull,
        FinalFlush, FinalReturn, FlushOk, FlushFails, FlushSites, RxOpen,
        WriterEnded
  <2>2. CASE FlushOk
    <3>1. Len(committed') = Len(committed) + Len(batch)
      BY <2>2, ConcatProperties DEF TypeOK, FlushOk
    <3> QED
      BY <1>1, <2>1, <3>1
  <2>3. CASE FlushFails
    <3>1. committed' \in PartOfBatch
      BY <2>3 DEF FlushFails
    <3> QED
      BY <2>1, <3>1, PartOfBatchType DEF TypeOK
  <2>4. CASE ~FlushOk /\ ~FlushFails
    <3>1. UNCHANGED committed
      BY <1>3, <2>4
      DEF WriterStep, OpenStore, OpenStoreFails, ReadShutdown, DrainOne,
          DrainDone, RecvEvent, RecvTimeout, RecvDisconnected, CheckFull,
          FinalFlush, FinalReturn, WriterGoesTo
    <3> QED
      BY <1>1, <3>1
  <2> QED
    BY <2>2, <2>3, <2>4
<1>4. CASE ~Kill /\ ~WriterStep
  <2>1. UNCHANGED committed
    BY <1>4
    DEF Next, Emit, CtrlC, IntervalElapses, HandlerStep, HandleNothing,
        HandleEvent, SendOk, SendErr, MainStep, CollectorStarts,
        CollectorFails, PollSeesShutdown, JoinWriter, Over, vars, writerVars
  <2> QED
    BY <1>1, <2>1
<1> QED
  BY <1>2, <1>3, <1>4

\* The store only grows, and not at all once the writer has ended.
THEOREM StoreOnlyGrows == Spec => AppendOnly
<1>1. TypeOK /\ [Next]_vars =>
        [/\ Len(committed') >= Len(committed)
         /\ ~RxOpen => committed' = committed]_vars
  BY AppendOnlyStep
<1> QED
  BY <1>1, TypeCorrect, PTL DEF Spec, AppendOnly

LEMMA LogInit == Init => Log!Init
BY DEF Init, Log!Init, RxOpen, WriterEnded

LEMMA LogStep ==
    ASSUME IInv, IInv', [Next]_vars
    PROVE  [Log!Next]_(Log!logVars)
<1>1. CASE SendOk
  <2>1. RxOpen /\ handled \in Message /\ UNCHANGED <<committed, RxOpen>>
    BY <1>1, SentMessage DEF IInv, SendOk, writerVars, RxOpen
  <2>2. Log!Offer(handled)
    BY <1>1, <2>1 DEF SendOk, Log!Offer
  <2> QED
    BY <2>1, <2>2 DEF Log!Next
<1>2. CASE ~SendOk
  <2>1. UNCHANGED accepted
    BY <1>2
    DEF Next, Emit, CtrlC, IntervalElapses, Kill, HandlerStep, HandleNothing,
        HandleEvent, SendErr, MainStep, CollectorStarts, CollectorFails,
        PollSeesShutdown, JoinWriter, WriterStep, OpenStore, OpenStoreFails,
        ReadShutdown, DrainOne, DrainDone, RecvEvent, RecvTimeout,
        RecvDisconnected, CheckFull, FinalFlush, FinalReturn, FlushOk,
        FlushFails, WriterGoesTo, WriterEnds, Over, vars, handlerVars
  <2>2. CASE RxOpen
    <3> DEFINE n == Len(committed')
    <3>1. n \in Len(committed) .. Len(accepted)
      <4>1. n >= Len(committed)
        BY AppendOnlyStep DEF IInv
      <4>2. n <= Len(accepted)
        BY <2>1 DEF IInv, CommittedInOrder
      <4>3. n \in Nat /\ Len(committed) \in Nat /\ Len(accepted) \in Nat
        BY LenProperties DEF IInv, TypeOK
      <4> QED
        BY <4>1, <4>2, <4>3
    <3>2. committed' = SubSeq(accepted, 1, n)
      BY <2>1 DEF IInv, CommittedInOrder
    <3>3. RxOpen' \in BOOLEAN
      BY DEF RxOpen
    <3> HIDE DEF n
    <3>4. Log!WriteUpTo(n)
      BY <2>1, <2>2, <3>2, <3>3 DEF Log!WriteUpTo
    <3> QED
      BY <3>1, <3>4 DEF Log!Next
  <2>3. CASE ~RxOpen
    <3>1. UNCHANGED committed
      BY <2>3, AppendOnlyStep DEF IInv
    <3>2. ~RxOpen'
      BY <2>3
      DEF Next, Emit, CtrlC, IntervalElapses, Kill, HandlerStep, HandleNothing,
          HandleEvent, SendOk, SendErr, MainStep, CollectorStarts,
          CollectorFails, PollSeesShutdown, JoinWriter, WriterStep, OpenStore,
          OpenStoreFails, ReadShutdown, DrainOne, DrainDone, RecvEvent,
          RecvTimeout, RecvDisconnected, CheckFull, FinalFlush, FinalReturn,
          FlushOk, FlushFails, FlushSites, Over, vars, writerVars, RxOpen,
          WriterEnded
    <3>3. UNCHANGED RxOpen
      BY <2>3, <3>2 DEF RxOpen
    <3> QED
      BY <2>1, <3>1, <3>3 DEF Log!logVars
  <2> QED
    BY <2>2, <2>3
<1> QED
  BY <1>1, <1>2

\* The live pipeline implements the abstract event log.
THEOREM PipelineImplementsLog == Spec => ImplementsLog
<1>1. Init => Log!Init
  BY LogInit
<1>2. IInv /\ IInv' /\ [Next]_vars => [Log!Next]_(Log!logVars)
  BY LogStep
<1> QED
  BY <1>1, <1>2, Invariant, PTL DEF Spec, ImplementsLog, Log!Spec
=============================================================================
