----------------------- MODULE EnhancementServiceProofs -----------------------
(* Proofs about the service, its sessions and its scheduler, for every number  *)
(* of streams, queue length, batch size and hop size: types, the registry,     *)
(* what batching may never mix up, that no stream is forgotten, what the       *)
(* gauges count, and when the ready queue can overflow.                        *)
EXTENDS EnhancementService, CountingProofs, TLAPS

(* What the operations on a session preserve: its type and the capacity of its *)
(* queues (session.py).                                                        *)

\* A session that was cancelled or rescheduled keeps its type.
LEMMA FlagsType ==
    ASSUME NEW x \in BoundedSession, NEW b \in BOOLEAN
    PROVE  /\ [x EXCEPT !.scheduled = b] \in BoundedSession
           /\ [x EXCEPT !.ended = b] \in BoundedSession
           /\ [x EXCEPT !.cancelled = b] \in BoundedSession
BY DEF BoundedSession, Session

\* So does a session one of whose queues or counters is replaced by a good one.
LEMMA FieldType ==
    ASSUME NEW x \in BoundedSession
    PROVE  /\ \A q \in Seq(ModelWork) :
                Len(q) <= InputQueueHops => [x EXCEPT !.inq = q] \in BoundedSession
           /\ \A q \in Seq(OutputEvent) :
                Len(q) <= OutputQueueHops => [x EXCEPT !.outq = q] \in BoundedSession
           /\ \A n \in Nat : /\ [x EXCEPT !.inputSamples = n] \in BoundedSession
                             /\ [x EXCEPT !.outputSamples = n] \in BoundedSession
                             /\ [x EXCEPT !.nextSample = n] \in BoundedSession
           /\ \A n \in 0..(HopSamples - 1) : [x EXCEPT !.buffered = n] \in BoundedSession
<1>1. ASSUME NEW q \in Seq(ModelWork), Len(q) <= InputQueueHops
      PROVE  [x EXCEPT !.inq = q] \in BoundedSession
  BY <1>1 DEF BoundedSession, Session
<1>2. ASSUME NEW q \in Seq(OutputEvent), Len(q) <= OutputQueueHops
      PROVE  [x EXCEPT !.outq = q] \in BoundedSession
  BY <1>2 DEF BoundedSession, Session
<1>3. ASSUME NEW n \in Nat
      PROVE  /\ [x EXCEPT !.inputSamples = n] \in BoundedSession
             /\ [x EXCEPT !.outputSamples = n] \in BoundedSession
             /\ [x EXCEPT !.nextSample = n] \in BoundedSession
  BY DEF BoundedSession, Session
<1>4. ASSUME NEW n \in 0..(HopSamples - 1)
      PROVE  [x EXCEPT !.buffered = n] \in BoundedSession
  BY DEF BoundedSession, Session
<1> QED
  BY <1>1, <1>2, <1>3, <1>4

\* A failure replaces the whole output queue.
LEMMA FailType ==
    ASSUME NEW x \in BoundedSession, NEW reason \in Reasons
    PROVE  Fail(x, reason) \in BoundedSession
<1>1. <<Failure(reason)>> \in Seq(OutputEvent) /\ Len(<<Failure(reason)>>) = 1
  BY DEF Failure, OutputEvent, RPCFailure
<1> DEFINE y == [x EXCEPT !.cancelled = TRUE]
           q == <<Failure(reason)>>
<1>2. y \in BoundedSession
  BY FlagsType
<1>3. Fail(x, reason) = [y EXCEPT !.outq = q]
  BY DEF Fail
<1> HIDE DEF y, q
<1>4. q \in Seq(OutputEvent) /\ Len(q) <= OutputQueueHops
  BY <1>1, SessionAssumption DEF q
<1> QED
  BY <1>2, <1>3, <1>4, FieldType

\* An event fits into an output queue that is not full.
LEMMA EmitType ==
    ASSUME NEW x \in BoundedSession, NEW event \in OutputEvent, ~OutputFull(x)
    PROVE  Emit(x, event) \in BoundedSession
<1>1. /\ Append(x.outq, event) \in Seq(OutputEvent)
      /\ Len(Append(x.outq, event)) = Len(x.outq) + 1
      /\ Len(x.outq) \in Nat
  BY DEF BoundedSession, Session
<1>2. Len(Append(x.outq, event)) <= OutputQueueHops
  BY <1>1, SessionAssumption DEF BoundedSession, OutputFull
<1> QED
  BY <1>1, <1>2 DEF Emit, BoundedSession, Session

\* _complete leaves a completion, a failure, or what was there.
LEMMA CompleteType ==
    ASSUME NEW x \in BoundedSession, NEW flushed \in BOOLEAN
    PROVE  Complete(x, flushed) \in BoundedSession
<1> DEFINE y == [x EXCEPT !.ended = TRUE]
<1>1. y \in BoundedSession
  BY FlagsType
<1> HIDE DEF y
<1>2. Completion(y, flushed) \in OutputEvent
  BY <1>1 DEF Completion, OutputEvent, StreamCompletion, BoundedSession, Session
<1>3. CASE x.ended
  BY <1>3 DEF Complete
<1>4. CASE ~x.ended /\ OutputFull(y)
  <2>1. Complete(x, flushed) = Fail(y, "outputFull")
    BY <1>4 DEF Complete, y
  <2> QED
    BY <1>1, <2>1, FailType DEF Reasons
<1>5. CASE ~x.ended /\ ~OutputFull(y)
  <2>1. Complete(x, flushed) = Emit(y, Completion(y, flushed))
    BY <1>5 DEF Complete, y
  <2> QED
    BY <1>1, <1>2, <1>5, <2>1, EmitType
<1> QED
  BY <1>3, <1>4, <1>5

LEMMA CompleteWithoutFlushType ==
    ASSUME NEW x \in BoundedSession
    PROVE  CompleteWithoutFlush(x) \in BoundedSession
<1>1. [x EXCEPT !.pending = None] \in BoundedSession
  BY DEF BoundedSession, Session
<1> QED
  BY <1>1, CompleteType DEF CompleteWithoutFlush

\* One work item leaves the input queue.
LEMMA DequeuedType ==
    ASSUME NEW x \in BoundedSession, x.inq # <<>>
    PROVE  /\ Dequeued(x) \in BoundedSession
           /\ Unscheduled(x) \in BoundedSession
           /\ Head(x.inq) \in ModelWork
<1>1. /\ Tail(x.inq) \in Seq(ModelWork)
      /\ Len(Tail(x.inq)) <= InputQueueHops
      /\ Head(x.inq) \in ModelWork
  BY SessionAssumption DEF BoundedSession, Session
<1>2. Unscheduled(x) \in BoundedSession
  BY FlagsType DEF Unscheduled
<1>3. Dequeued(x) \in BoundedSession
  BY <1>1, <1>2 DEF Dequeued, Unscheduled, BoundedSession, Session
<1> QED
  BY <1>1, <1>2, <1>3

LEMMA NotifiedType ==
    ASSUME NEW x \in BoundedSession
    PROVE  Notified(x) \in BoundedSession
BY FlagsType DEF Notified

\* A result's caches and source are stored in the session.
LEMMA AdvanceType ==
    ASSUME NEW x \in BoundedSession, NEW entry \in ActiveEntry
    PROVE  Advance(x, entry) \in BoundedSession
<1>1. SourceOf(entry.work) \in SourceHop \cup {None}
  BY DEF ActiveEntry, ModelWork, FlushWork, NoFlushWork, SourceOf, IsSource, SourceHop
<1>2. entry.cache \in CacheContent
  BY DEF ActiveEntry
<1> QED
  BY <1>1, <1>2 DEF Advance, BoundedSession, Session

\* The enhancement of the pending hop is an event, and fits where delivery is
\* possible.
LEMMA DeliverType ==
    ASSUME NEW x \in BoundedSession, NEW entry \in ActiveEntry, Deliverable(x)
    PROVE  /\ Deliver(x, entry) \in BoundedSession
           /\ x.pending # None => Enhanced(x, entry) \in EnhancedHop
<1> DEFINE a == Advance(x, entry)
<1>1. a \in BoundedSession /\ a.outq = x.outq
  BY AdvanceType DEF Advance, BoundedSession, Session
<1>2. CASE x.pending = None
  BY <1>1, <1>2 DEF Deliver
<1>3. CASE x.pending # None
  <2> DEFINE e == AudioOf(Enhanced(x, entry))
             b == Emit(a, e)
  <2>1. x.pending \in SourceHop
    BY <1>3 DEF BoundedSession, Session
  <2>2. Enhanced(x, entry) \in EnhancedHop
    BY <2>1 DEF Enhanced, EnhancedHop, SourceHop, ActiveEntry
  <2>3. e \in OutputEvent
    BY <2>2 DEF EnhancedHop, AudioOf, OutputAudio, OutputEvent
  <2>4. ~OutputFull(a)
    BY <1>1, <1>3 DEF Deliverable, OutputFull
  <2> HIDE DEF e, a
  <2>5. b \in BoundedSession
    BY <1>1, <2>3, <2>4, EmitType
  <2>6. Deliver(x, entry) = [b EXCEPT !.outputSamples = @ + x.pending.valid]
    BY <1>3 DEF Deliver, a, e
  <2>7. x.pending.valid \in Nat
    BY <2>1, SessionAssumption DEF SourceHop
  <2> HIDE DEF b
  <2>8. b.outputSamples + x.pending.valid \in Nat
    BY <2>5, <2>7 DEF BoundedSession, Session
  <2> QED
    BY <2>2, <2>5, <2>6, <2>8, FieldType
<1> QED
  BY <1>2, <1>3

LEMMA JoinedWork ==
    ASSUME NEW p \in Seq(ModelWork), NEW q \in Seq(ModelWork)
    PROVE  p \o q \in Seq(ModelWork) /\ Len(p \o q) = Len(p) + Len(q)
BY ConcatProperties

\* As much work as fits is enqueued.
LEMMA EnqueuedType ==
    ASSUME NEW x \in BoundedSession, NEW works \in Seq(ModelWork), NEW k \in Nat,
           k <= Room(x), k <= Len(works)
    PROVE  Enqueued(x, works, k) \in BoundedSession
<1>1. /\ SubSeq(works, 1, k) \in Seq(ModelWork)
      /\ Len(SubSeq(works, 1, k)) = k
  OBVIOUS
<1>2. /\ x.inq \in Seq(ModelWork)
      /\ Len(x.inq) \in Nat
  BY DEF BoundedSession, Session
<1>3. /\ x.inq \o SubSeq(works, 1, k) \in Seq(ModelWork)
      /\ Len(x.inq \o SubSeq(works, 1, k)) = Len(x.inq) + k
  <2> DEFINE put == SubSeq(works, 1, k)
  <2>1. put \in Seq(ModelWork) /\ Len(put) = k
    BY <1>1
  <2> HIDE DEF put
  <2> QED
    <3>1. x.inq \o put \in Seq(ModelWork) /\ Len(x.inq \o put) = Len(x.inq) + Len(put)
      BY <1>2, <2>1, JoinedWork
    <3> QED
      BY <2>1, <3>1 DEF put
<1>4. Len(x.inq) + k <= InputQueueHops
  BY <1>2, SessionAssumption DEF Room
<1> QED
  BY <1>3, <1>4, FieldType DEF Enqueued

LEMMA FittingBounds ==
    ASSUME NEW x \in BoundedSession, NEW works \in Seq(ModelWork)
    PROVE  /\ Fitting(x, works) \in Nat
           /\ Fitting(x, works) <= Room(x)
           /\ Fitting(x, works) <= Len(works)
<1> DEFINE a == Room(x)
           b == Len(works)
<1>1. a \in Nat /\ b \in Nat
  BY SessionAssumption DEF Room, BoundedSession, Session
<1> HIDE DEF a, b
<1>2. \E m \in {a, b} : \A n \in {a, b} : m <= n
  BY <1>1
<1>3. Min({a, b}) \in {a, b} /\ \A n \in {a, b} : Min({a, b}) <= n
  BY <1>2 DEF Min
<1>4. Fitting(x, works) = Min({a, b})
  BY DEF Fitting, a, b
<1> QED
  BY <1>1, <1>3, <1>4 DEF a, b

\* Rechunking leaves less than a hop, and cuts whole hops.
LEMMA RechunkType ==
    ASSUME NEW x \in BoundedSession, NEW n \in Nat
    PROVE  /\ Accept(x, n) \in BoundedSession
           /\ FullHops(x, n) \in Seq(ModelWork)
<1> DEFINE total == x.buffered + n
           hops == total \div HopSamples
<1>1. /\ x.buffered \in Nat /\ x.nextSample \in Nat /\ x.inputSamples \in Nat
      /\ total \in Nat
  BY SessionAssumption DEF BoundedSession, Session
<1>2. /\ total % HopSamples \in 0..(HopSamples - 1)
      /\ hops \in Nat
  BY <1>1, SessionAssumption
<1> HIDE DEF hops
<1>3. \A i \in Nat : HopSamples * i \in Nat
  BY SessionAssumption
<1>4. x.nextSample + HopSamples * hops \in Nat
  BY <1>1, <1>2, <1>3
<1>5. Accept(x, n) \in BoundedSession
  <2> DEFINE y == [x EXCEPT !.inputSamples = @ + n]
             z == [y EXCEPT !.buffered = total % HopSamples]
  <2>1. x.inputSamples + n \in Nat
    BY <1>1
  <2>2. y \in BoundedSession
    BY <2>1, FieldType
  <2>3. y.buffered = x.buffered /\ y.nextSample = x.nextSample
    BY DEF BoundedSession, Session
  <2> HIDE DEF y
  <2>4. z \in BoundedSession
    BY <1>2, <2>2, FieldType
  <2>5. z.nextSample = x.nextSample
    BY <2>2, <2>3 DEF BoundedSession, Session
  <2>6. Accept(x, n) = [z EXCEPT !.nextSample = @ + HopSamples * hops]
    BY <2>3 DEF Accept, Rechunk, hops, y
  <2> DEFINE next == x.nextSample + HopSamples * hops
  <2>7. next \in Nat
    BY <1>4
  <2>8. Accept(x, n) = [z EXCEPT !.nextSample = next]
    BY <2>5, <2>6
  <2> HIDE DEF z, next
  <2> QED
    BY <2>4, <2>7, <2>8, FieldType
<1>6. ASSUME NEW i \in 1..hops
      PROVE  SourceWork(x.nextSample + (i - 1) * HopSamples, HopSamples) \in ModelWork
  <2>1. (i - 1) * HopSamples \in Nat
    BY <1>2, <1>6, SessionAssumption
  <2> QED
    BY <1>1, <2>1, SessionAssumption DEF SourceWork, ModelWork
<1>7. FullHops(x, n) = [i \in 1..hops |->
                          SourceWork(x.nextSample + (i - 1) * HopSamples, HopSamples)]
  BY DEF FullHops, hops
<1> QED
  BY <1>2, <1>5, <1>6, <1>7

LEMMA FlushType ==
    ASSUME NEW x \in BoundedSession
    PROVE  /\ FlushPartial(x) \in BoundedSession
           /\ TerminalWorks(x) \in Seq(ModelWork)
<1>1. /\ x.buffered \in 0..(HopSamples - 1)
      /\ x.nextSample \in Nat
  BY DEF BoundedSession, Session
<1>2. FlushPartial(x) \in BoundedSession
  <2> DEFINE y == [x EXCEPT !.buffered = 0]
  <2>1. y \in BoundedSession
    <3>1. 0 \in 0..(HopSamples - 1)
      BY SessionAssumption
    <3> QED
      BY <3>1, FieldType
  <2>2. y.nextSample = x.nextSample
    BY DEF BoundedSession, Session
  <2>3. FlushPartial(x) = [y EXCEPT !.nextSample = @ + x.buffered]
    BY DEF FlushPartial
  <2> DEFINE next == x.nextSample + x.buffered
  <2>4. next \in Nat
    BY <1>1, SessionAssumption
  <2>5. FlushPartial(x) = [y EXCEPT !.nextSample = next]
    BY <2>2, <2>3
  <2> HIDE DEF y, next
  <2> QED
    BY <2>1, <2>4, <2>5, FieldType
<1>3. PartialHop(x) \in Seq(ModelWork)
  <2>1. CASE x.buffered = 0
    BY <2>1 DEF PartialHop
  <2>2. CASE x.buffered # 0
    <3>1. SourceWork(x.nextSample, x.buffered) \in ModelWork
      BY <1>1, <2>2, SessionAssumption DEF SourceWork, ModelWork
    <3> QED
      BY <2>2, <3>1 DEF PartialHop
  <2> QED
    BY <2>1, <2>2
<1>4. <<FlushWork>> \in Seq(ModelWork)
  BY DEF ModelWork
<1> QED
  BY <1>2, <1>3, <1>4 DEF TerminalWorks

-----------------------------------------------------------------------------
(* Types and the registry (service.py, scheduler.py).                          *)

(* The strengthening that makes TypeOK inductive: where the scheduler's task   *)
(* stands says which of its local lists are empty, and a handler that is       *)
(* sending has a message.                                                      *)
LoopShape ==
    /\ IF sched \in {"collect", "dispatch"} THEN batch # <<>> ELSE batch = <<>>
    /\ sched \in {"infer", "distribute", "failing"} => active # <<>>
    /\ sched \in {"idle", "collect", "dead", "closed"} => active = <<>>
    /\ \A s \in Streams :
          handler[s] = "sending" => sending[s] \in OutputEvent \cup {Accepted}

TypeInv == TypeOK /\ LoopShape

-----------------------------------------------------------------------------
(* The scheduler's steps. *)

\* What is left of a list whose head was dealt with.
LEMMA Rest ==
    ASSUME NEW S, NEW q \in Seq(S), q # <<>>
    PROVE  /\ Head(q) \in S
           /\ Tail(q) \in Seq(S)
           /\ Len(Tail(q)) <= Len(q)
           /\ Len(q) > 1 <=> Tail(q) # <<>>
<1>1. /\ Head(q) \in S
      /\ Tail(q) \in Seq(S)
      /\ Len(Tail(q)) = Len(q) - 1
      /\ Len(q) \in Nat
  OBVIOUS
<1>2. Tail(q) = <<>> <=> Len(Tail(q)) = 0
  BY <1>1, EmptySeq
<1> QED
  BY <1>1, <1>2

\* Replacing one session by a good one keeps the sessions good.
LEMMA OneSession ==
    ASSUME SessionTypeOK, NEW s \in Streams, NEW y \in BoundedSession,
           session' = [session EXCEPT ![s] = y]
    PROVE  SessionTypeOK'
BY DEF SessionTypeOK

LEMMA TakeFirstType ==
    ASSUME TypeInv, TakeFirst, UNCHANGED serviceVars
    PROVE  TypeInv'
<1>1. /\ Head(ready) \in Streams
      /\ Tail(ready) \in Seq(Streams)
      /\ Len(Tail(ready)) <= MaxActiveStreams
      /\ <<Head(ready)>> \in Seq(Streams)
      /\ Len(<<Head(ready)>>) = 1
      /\ <<Head(ready)>> # <<>>
  BY SchedulerAssumption DEF TypeInv, TypeOK, SchedulerTypeOK, TakeFirst
<1>2. SchedulerTypeOK'
  BY <1>1, SchedulerAssumption
     DEF TypeInv, TypeOK, SchedulerTypeOK, TakeFirst, SchedulerStates
<1>3. LoopShape'
  BY <1>1 DEF TypeInv, LoopShape, TakeFirst, serviceVars
<1> QED
  BY <1>2, <1>3 DEF TypeInv, TypeOK, SessionTypeOK, ServiceTypeOK, TakeFirst, serviceVars

LEMMA TakeMoreType ==
    ASSUME TypeInv, TakeMore, UNCHANGED serviceVars
    PROVE  TypeInv'
<1>1. /\ Head(ready) \in Streams
      /\ Tail(ready) \in Seq(Streams)
      /\ Len(Tail(ready)) <= MaxActiveStreams
      /\ Append(batch, Head(ready)) \in Seq(Streams)
      /\ Len(Append(batch, Head(ready))) <= MaxBatchSize
      /\ Append(batch, Head(ready)) # <<>>
  BY SchedulerAssumption DEF TypeInv, TypeOK, SchedulerTypeOK, TakeMore
<1>2. SchedulerTypeOK'
  BY <1>1 DEF TypeInv, TypeOK, SchedulerTypeOK, TakeMore
<1>3. LoopShape'
  BY <1>1 DEF TypeInv, LoopShape, TakeMore, serviceVars
<1> QED
  BY <1>2, <1>3 DEF TypeInv, TypeOK, SessionTypeOK, ServiceTypeOK, TakeMore, serviceVars

\* What leaves the head of the batch, and where the loop goes on.
LEMMA AfterDispatchType ==
    ASSUME TypeInv, sched \in {"collect", "dispatch"}, NEW entries \in Seq(ActiveEntry),
           AfterDispatch(entries), UNCHANGED serviceVars
    PROVE  SchedulerTypeOK' /\ LoopShape' /\ ServiceTypeOK'
<1>1. /\ batch \in Seq(Streams) /\ batch # <<>>
      /\ Tail(batch) \in Seq(Streams) /\ Len(Tail(batch)) <= MaxBatchSize
      /\ Len(batch) > 1 <=> Tail(batch) # <<>>
  <2>1. batch \in Seq(Streams) /\ batch # <<>> /\ Len(batch) <= MaxBatchSize
    BY DEF TypeInv, TypeOK, SchedulerTypeOK, LoopShape
  <2> QED
    BY <2>1, Rest, SchedulerAssumption
<1>2. SchedulerTypeOK'
  BY <1>1 DEF TypeInv, TypeOK, SchedulerTypeOK, AfterDispatch, SchedulerStates
<1>3. LoopShape'
  <2>1. /\ batch' = Tail(batch)
        /\ active' = entries
        /\ sched' = IF Len(batch) > 1 THEN "dispatch"
                    ELSE IF entries = <<>> THEN "idle" ELSE "infer"
    BY DEF AfterDispatch
  <2>2. CASE Len(batch) > 1
    BY <1>1, <2>1, <2>2 DEF TypeInv, LoopShape, serviceVars
  <2>3. CASE ~(Len(batch) > 1)
    BY <1>1, <2>1, <2>3 DEF TypeInv, LoopShape, serviceVars
  <2> QED
    BY <2>2, <2>3
<1>4. ServiceTypeOK'
  BY DEF TypeInv, TypeOK, ServiceTypeOK, serviceVars
<1> QED
  BY <1>2, <1>3, <1>4

LEMMA DispatchedStream ==
    ASSUME TypeInv, sched \in {"collect", "dispatch"}
    PROVE  /\ NextToDispatch \in Streams
           /\ session[NextToDispatch] \in BoundedSession
BY DEF TypeInv, TypeOK, SessionTypeOK, SchedulerTypeOK, LoopShape, NextToDispatch

LEMMA DispatchSkipType ==
    ASSUME TypeInv, DispatchSkip, UNCHANGED serviceVars
    PROVE  TypeInv'
<1> DEFINE s == NextToDispatch
<1>1. s \in Streams /\ session[s] \in BoundedSession
  BY DispatchedStream DEF DispatchSkip
<1>2. Unscheduled(session[s]) \in BoundedSession
  BY <1>1, FlagsType DEF Unscheduled
<1>3. SessionTypeOK'
  BY <1>1, <1>2, OneSession DEF TypeInv, TypeOK, DispatchSkip
<1>4. active \in Seq(ActiveEntry)
  BY DEF TypeInv, TypeOK, SchedulerTypeOK
<1> QED
  BY <1>3, <1>4, AfterDispatchType DEF TypeInv, TypeOK, DispatchSkip

LEMMA DispatchNoFlushType ==
    ASSUME TypeInv, DispatchNoFlush, UNCHANGED serviceVars
    PROVE  TypeInv'
<1> DEFINE s == NextToDispatch
           x == session[s]
<1>1. s \in Streams /\ x \in BoundedSession
  BY DispatchedStream DEF DispatchNoFlush
<1>2. CompleteWithoutFlush(Dequeued(x)) \in BoundedSession
  BY <1>1, DequeuedType, CompleteWithoutFlushType DEF DispatchNoFlush, NothingToDispatch
<1>3. SessionTypeOK'
  BY <1>1, <1>2, OneSession DEF TypeInv, TypeOK, DispatchNoFlush
<1>4. active \in Seq(ActiveEntry)
  BY DEF TypeInv, TypeOK, SchedulerTypeOK
<1> QED
  BY <1>3, <1>4, AfterDispatchType DEF TypeInv, TypeOK, DispatchNoFlush

LEMMA DispatchWorkType ==
    ASSUME TypeInv, DispatchWork, UNCHANGED serviceVars
    PROVE  TypeInv'
<1> DEFINE s == NextToDispatch
           x == session[s]
           entry == [stream |-> s, work |-> Head(x.inq), wav |-> None, cache |-> x.cache]
<1>1. s \in Streams /\ x \in BoundedSession
  BY DispatchedStream DEF DispatchWork
<1>2. x.inq # <<>>
  BY DEF DispatchWork, NothingToDispatch
<1>3. Dequeued(x) \in BoundedSession /\ Head(x.inq) \in ModelWork
  BY <1>1, <1>2, DequeuedType
<1>4. SessionTypeOK'
  BY <1>1, <1>3, OneSession DEF TypeInv, TypeOK, DispatchWork
<1>5. entry \in ActiveEntry
  <2>1. x.cache \in CacheContent /\ None \in CacheContent
    BY <1>1 DEF BoundedSession, Session, CacheContent
  <2> QED
    BY <1>1, <1>3, <2>1 DEF ActiveEntry
<1>6. AfterDispatch(Append(active, entry))
  BY DEF DispatchWork
<1> HIDE DEF entry
<1>7. Append(active, entry) \in Seq(ActiveEntry)
  BY <1>5 DEF TypeInv, TypeOK, SchedulerTypeOK
<1>8. sched \in {"collect", "dispatch"}
  BY DEF DispatchWork
<1> QED
  BY <1>4, <1>6, <1>7, <1>8, AfterDispatchType DEF TypeInv, TypeOK

\* What the model returns is again a list of batch elements, one for one.
LEMMA InferBatchType ==
    ASSUME NEW entries \in Seq(ActiveEntry)
    PROVE  /\ InferBatch(entries) \in Seq(ActiveEntry)
           /\ Len(InferBatch(entries)) = Len(entries)
           /\ \A i \in 1..Len(entries) :
                 InferBatch(entries)[i] =
                    [entries[i] EXCEPT !.wav = entries[i].cache, !.cache = Absorbed(entries[i])]
<1> DEFINE Row(i) ==
             [entries[i] EXCEPT !.wav = entries[i].cache, !.cache = Absorbed(entries[i])]
           n == Len(entries)
<1>1. ASSUME NEW i \in 1..n
      PROVE  Row(i) \in ActiveEntry
  <2>1. entries[i] \in ActiveEntry
    OBVIOUS
  <2>2. Absorbed(entries[i]) \in CacheContent
    BY <2>1 DEF Absorbed, ActiveEntry, CacheContent, IsSource, ModelWork, FlushWork, NoFlushWork
  <2> QED
    BY <2>1, <2>2 DEF ActiveEntry
<1>2. DOMAIN entries = 1..n /\ n \in Nat
  OBVIOUS
<1>3. InferBatch(entries) = [i \in 1..n |-> Row(i)]
  BY <1>2 DEF InferBatch
<1>4. \A i \in 1..n : InferBatch(entries)[i] = Row(i)
  BY <1>3
<1>5. /\ InferBatch(entries) \in Seq(ActiveEntry)
      /\ Len(InferBatch(entries)) = n
  <2> HIDE DEF Row, n
  <2> QED
    BY <1>1, <1>2, <1>3
<1> QED
  BY <1>4, <1>5

LEMMA InferenceDoneType ==
    ASSUME TypeInv, InferenceDone, UNCHANGED serviceVars
    PROVE  TypeInv'
<1>1. active \in Seq(ActiveEntry) /\ active # <<>>
  BY DEF TypeInv, TypeOK, SchedulerTypeOK, LoopShape, InferenceDone
<1>2. active' \in Seq(ActiveEntry) /\ Len(active') = Len(active)
  BY <1>1, InferBatchType DEF InferenceDone
<1>3. active' # <<>>
  BY <1>1, <1>2, EmptySeq
<1>4. SchedulerTypeOK'
  BY <1>2 DEF TypeInv, TypeOK, SchedulerTypeOK, InferenceDone, SchedulerStates
<1>5. LoopShape'
  BY <1>3 DEF TypeInv, LoopShape, InferenceDone, serviceVars
<1> QED
  BY <1>4, <1>5 DEF TypeInv, TypeOK, SessionTypeOK, ServiceTypeOK, InferenceDone, serviceVars

LEMMA InferenceFailsType ==
    ASSUME TypeInv, InferenceFails, UNCHANGED serviceVars
    PROVE  TypeInv'
<1>1. SchedulerTypeOK'
  BY DEF TypeInv, TypeOK, SchedulerTypeOK, InferenceFails, SchedulerStates
<1>2. LoopShape'
  BY DEF TypeInv, LoopShape, InferenceFails, serviceVars
<1> QED
  BY <1>1, <1>2 DEF TypeInv, TypeOK, SessionTypeOK, ServiceTypeOK, InferenceFails, serviceVars

\* The element at the head of the returned batch, and what is left of it.
LEMMA ReturnedType ==
    ASSUME TypeInv, sched \in {"distribute", "failing"}
    PROVE  /\ Returned \in ActiveEntry
           /\ Returned.stream \in Streams
           /\ session[Returned.stream] \in BoundedSession
           /\ Tail(active) \in Seq(ActiveEntry)
           /\ Len(active) > 1 <=> Tail(active) # <<>>
<1>1. active \in Seq(ActiveEntry) /\ active # <<>>
  BY DEF TypeInv, TypeOK, SchedulerTypeOK, LoopShape
<1>2. /\ Returned \in ActiveEntry
      /\ Tail(active) \in Seq(ActiveEntry)
      /\ Len(active) > 1 <=> Tail(active) # <<>>
  BY <1>1, Rest DEF Returned
<1>3. Returned.stream \in Streams
  BY <1>2 DEF ActiveEntry
<1> QED
  BY <1>2, <1>3 DEF TypeInv, TypeOK, SessionTypeOK

\* The loop over a returned batch, whatever it does with the session.
LEMMA AfterReturnType ==
    ASSUME TypeInv, sched \in {"distribute", "failing"}, UNCHANGED serviceVars,
           active' = Tail(active),
           sched' = IF Len(active) > 1 THEN sched ELSE "idle",
           UNCHANGED <<batch, closing>>,
           ready' \in Seq(Streams), Len(ready') <= MaxActiveStreams,
           produced' \in [Streams -> Seq(EnhancedHop)],
           NEW s \in Streams, NEW y \in BoundedSession,
           session' = [session EXCEPT ![s] = y]
    PROVE  TypeInv'
<1>1. /\ Tail(active) \in Seq(ActiveEntry)
      /\ Len(active) > 1 <=> Tail(active) # <<>>
  BY ReturnedType
<1>2. SchedulerTypeOK'
  BY <1>1 DEF TypeInv, TypeOK, SchedulerTypeOK, SchedulerStates
<1>3. LoopShape'
  BY <1>1 DEF TypeInv, LoopShape, serviceVars
<1>4. SessionTypeOK'
  BY OneSession DEF TypeInv, TypeOK
<1> QED
  BY <1>2, <1>3, <1>4 DEF TypeInv, TypeOK, ServiceTypeOK, serviceVars

LEMMA FailEntryType ==
    ASSUME TypeInv, FailEntry, UNCHANGED serviceVars
    PROVE  TypeInv'
<1> DEFINE s == Returned.stream
           y == Fail(session[s], "inference")
<1>1. s \in Streams /\ session[s] \in BoundedSession
  BY ReturnedType DEF FailEntry
<1>2. y \in BoundedSession
  BY <1>1, FailType DEF Reasons
<1>3. /\ session' = [session EXCEPT ![s] = y]
      /\ ready' \in Seq(Streams) /\ Len(ready') <= MaxActiveStreams
      /\ produced' \in [Streams -> Seq(EnhancedHop)]
  BY DEF FailEntry, Returned, TypeInv, TypeOK, SchedulerTypeOK
<1> HIDE DEF s, y
<1> QED
  BY <1>1, <1>2, <1>3, AfterReturnType DEF FailEntry

LEMMA DistributeSkipType ==
    ASSUME TypeInv, DistributeSkip, UNCHANGED serviceVars
    PROVE  TypeInv'
<1> DEFINE s == Returned.stream
<1>1. s \in Streams /\ session[s] \in BoundedSession
  BY ReturnedType DEF DistributeSkip
<1>2. /\ session' = [session EXCEPT ![s] = session[s]]
      /\ ready' \in Seq(Streams) /\ Len(ready') <= MaxActiveStreams
      /\ produced' \in [Streams -> Seq(EnhancedHop)]
  BY <1>1 DEF DistributeSkip, TypeInv, TypeOK, SchedulerTypeOK, SessionTypeOK
<1> HIDE DEF s
<1> QED
  BY <1>1, <1>2, AfterReturnType DEF DistributeSkip, AfterDistribute

LEMMA DistributeOverflowType ==
    ASSUME TypeInv, DistributeOverflow, UNCHANGED serviceVars
    PROVE  TypeInv'
<1> DEFINE s == Returned.stream
           y == Fail(Advance(session[s], Returned), "outputFull")
<1>1. s \in Streams /\ session[s] \in BoundedSession /\ Returned \in ActiveEntry
  BY ReturnedType DEF DistributeOverflow
<1>2. y \in BoundedSession
  BY <1>1, AdvanceType, FailType DEF Reasons
<1>3. /\ session' = [session EXCEPT ![s] = y]
      /\ ready' \in Seq(Streams) /\ Len(ready') <= MaxActiveStreams
      /\ produced' \in [Streams -> Seq(EnhancedHop)]
  BY DEF DistributeOverflow, TypeInv, TypeOK, SchedulerTypeOK
<1> HIDE DEF s, y
<1> QED
  BY <1>1, <1>2, <1>3, AfterReturnType DEF DistributeOverflow, AfterDistribute

\* What is delivered is recorded as an enhanced hop.
LEMMA RecordProducedType ==
    ASSUME TypeInv, sched = "distribute", Deliverable(session[Returned.stream]),
           RecordProduced(Returned.stream, session[Returned.stream])
    PROVE  /\ produced' \in [Streams -> Seq(EnhancedHop)]
           /\ Deliver(session[Returned.stream], Returned) \in BoundedSession
<1> DEFINE s == Returned.stream
           x == session[s]
           e == Enhanced(x, Returned)
<1>1. s \in Streams /\ x \in BoundedSession /\ Returned \in ActiveEntry
  BY ReturnedType
<1>2. /\ Deliver(x, Returned) \in BoundedSession
      /\ x.pending # None => e \in EnhancedHop
  BY <1>1, DeliverType
<1>3. produced \in [Streams -> Seq(EnhancedHop)]
  BY DEF TypeInv, TypeOK, SchedulerTypeOK
<1>4. produced' = IF x.pending = None THEN produced
                  ELSE [produced EXCEPT ![s] = Append(@, e)]
  BY DEF RecordProduced
<1> HIDE DEF s, e
<1>5. produced' \in [Streams -> Seq(EnhancedHop)]
  BY <1>1, <1>2, <1>3, <1>4
<1> QED
  BY <1>2, <1>5 DEF s

LEMMA DistributeFlushType ==
    ASSUME TypeInv, DistributeFlush, UNCHANGED serviceVars
    PROVE  TypeInv'
<1> DEFINE s == Returned.stream
           y == Complete(Deliver(session[s], Returned), TRUE)
<1>1. s \in Streams
  BY ReturnedType DEF DistributeFlush
<1>2. produced' \in [Streams -> Seq(EnhancedHop)] /\ y \in BoundedSession
  BY RecordProducedType, CompleteType DEF DistributeFlush
<1>3. /\ session' = [session EXCEPT ![s] = y]
      /\ ready' \in Seq(Streams) /\ Len(ready') <= MaxActiveStreams
  BY DEF DistributeFlush, TypeInv, TypeOK, SchedulerTypeOK
<1> HIDE DEF s, y
<1> QED
  BY <1>1, <1>2, <1>3, AfterReturnType DEF DistributeFlush, AfterDistribute

\* A notified stream enters the ready queue only where there is room.
LEMMA ReadyAfterType ==
    ASSUME TypeInv, NEW s \in Streams, NEW x
    PROVE  ReadyAfter(s, x) \in Seq(Streams) /\ Len(ReadyAfter(s, x)) <= MaxActiveStreams
<1>1. /\ ready \in Seq(Streams) /\ Len(ready) <= MaxActiveStreams
      /\ Append(ready, s) \in Seq(Streams) /\ Len(Append(ready, s)) = Len(ready) + 1
  BY DEF TypeInv, TypeOK, SchedulerTypeOK
<1> QED
  BY <1>1, SchedulerAssumption DEF ReadyAfter, ReadyFull

LEMMA DistributeHopType ==
    ASSUME TypeInv, DistributeHop, UNCHANGED serviceVars
    PROVE  TypeInv'
<1> DEFINE s == Returned.stream
           x == Deliver(session[s], Returned)
           y == Notified(x)
<1>1. s \in Streams
  BY ReturnedType DEF DistributeHop
<1>2. produced' \in [Streams -> Seq(EnhancedHop)] /\ y \in BoundedSession
  BY RecordProducedType, NotifiedType DEF DistributeHop
<1>3. session' = [session EXCEPT ![s] = y] /\ ready' = ReadyAfter(s, x)
  BY DEF DistributeHop
<1> HIDE DEF s, x, y
<1>4. ready' \in Seq(Streams) /\ Len(ready') <= MaxActiveStreams
  BY <1>1, <1>3, ReadyAfterType
<1> QED
  BY <1>1, <1>2, <1>3, <1>4, AfterReturnType DEF DistributeHop, AfterDistribute

LEMMA DistributeDiesType ==
    ASSUME TypeInv, DistributeDies, UNCHANGED serviceVars
    PROVE  TypeInv'
<1> DEFINE s == Returned.stream
           y == Notified(Deliver(session[s], Returned))
<1>1. s \in Streams
  BY ReturnedType DEF DistributeDies
<1>2. produced' \in [Streams -> Seq(EnhancedHop)] /\ y \in BoundedSession
  BY RecordProducedType, NotifiedType DEF DistributeDies
<1>3. session' = [session EXCEPT ![s] = y]
  BY DEF DistributeDies
<1> HIDE DEF s, y
<1>4. SessionTypeOK'
  BY <1>1, <1>2, <1>3, OneSession DEF TypeInv, TypeOK
<1>5. SchedulerTypeOK'
  BY <1>2 DEF TypeInv, TypeOK, SchedulerTypeOK, DistributeDies, SchedulerStates
<1>6. LoopShape'
  BY DEF TypeInv, LoopShape, DistributeDies, serviceVars
<1> QED
  BY <1>4, <1>5, <1>6 DEF TypeInv, TypeOK, ServiceTypeOK, serviceVars

LEMMA ShutdownType ==
    ASSUME TypeInv, Shutdown
    PROVE  TypeInv'
<1>1. SchedulerTypeOK'
  BY SchedulerAssumption
     DEF TypeInv, TypeOK, SchedulerTypeOK, Shutdown, CloseScheduler, SchedulerStates
<1>2. LoopShape'
  BY DEF TypeInv, LoopShape, Shutdown, CloseScheduler, serviceVars
<1> QED
  BY <1>1, <1>2 DEF TypeInv, TypeOK, SessionTypeOK, ServiceTypeOK, Shutdown, CloseScheduler,
                    serviceVars

-----------------------------------------------------------------------------
(* The handler's steps. *)

LEMMA StartType ==
    ASSUME TypeInv, NEW s \in Streams, NEW id \in StreamIds, Start(s, id)
    PROVE  TypeInv'
<1>1. ServiceTypeOK'
  BY DEF TypeInv, TypeOK, ServiceTypeOK, Start, HandlerStates, ReaderStates
<1>2. LoopShape'
  BY DEF TypeInv, TypeOK, ServiceTypeOK, LoopShape, Start, schedVars
<1> QED
  BY <1>1, <1>2 DEF TypeInv, TypeOK, SessionTypeOK, SchedulerTypeOK, Start, schedVars

LEMMA RefusalsType ==
    ASSUME TypeInv, NEW s \in Streams,
           RejectFirst(s) \/ \E id \in StreamIds : RefuseStart(s, id)
    PROVE  TypeInv'
<1>1. \A reason \in Reasons : Failure(reason) \in OutputEvent
  BY DEF Failure, OutputEvent, RPCFailure
<1>2. /\ sending' = [sending EXCEPT ![s] = Failure("refused")]
         \/ sending' = [sending EXCEPT ![s] = Failure("protocol")]
      /\ handler' = [handler EXCEPT ![s] = "aborting"]
      /\ streamId' \in [Streams -> StreamIds \cup {None}]
      /\ UNCHANGED <<schedVars, registry, reader, toPut, sawEnd, stopping, received>>
  <2>1. streamId \in [Streams -> StreamIds \cup {None}]
    BY DEF TypeInv, TypeOK, ServiceTypeOK
  <2>2. CASE RejectFirst(s)
    BY <2>1, <2>2 DEF RejectFirst
  <2>3. ASSUME NEW id \in StreamIds, RefuseStart(s, id)
        PROVE  /\ sending' = [sending EXCEPT ![s] = Failure("refused")]
               /\ handler' = [handler EXCEPT ![s] = "aborting"]
               /\ streamId' \in [Streams -> StreamIds \cup {None}]
               /\ UNCHANGED <<schedVars, registry, reader, toPut, sawEnd, stopping, received>>
    BY <2>1, <2>3 DEF RefuseStart
  <2> QED
    BY <2>2, <2>3
<1>3. ServiceTypeOK'
  BY <1>1, <1>2 DEF TypeInv, TypeOK, ServiceTypeOK, HandlerStates, Reasons
<1>4. LoopShape'
  BY <1>2 DEF TypeInv, TypeOK, ServiceTypeOK, LoopShape, schedVars
<1> QED
  BY <1>2, <1>3, <1>4 DEF TypeInv, TypeOK, SessionTypeOK, SchedulerTypeOK, schedVars

\* What the finally clause leaves of a session.
LEMMA FinalizedType ==
    ASSUME NEW x \in BoundedSession
    PROVE  [x EXCEPT !.cancelled = TRUE, !.inq = <<>>, !.outq = <<>>] \in BoundedSession
<1> DEFINE y == [x EXCEPT !.cancelled = TRUE]
           z == [y EXCEPT !.inq = <<>>]
<1>1. y \in BoundedSession
  BY FlagsType
<1>2. /\ <<>> \in Seq(ModelWork) /\ <<>> \in Seq(OutputEvent)
      /\ Len(<<>>) <= InputQueueHops /\ Len(<<>>) <= OutputQueueHops
  BY SessionAssumption
<1> HIDE DEF y
<1>3. z \in BoundedSession
  BY <1>1, <1>2, FieldType
<1> HIDE DEF z
<1>4. [z EXCEPT !.outq = <<>>] \in BoundedSession
  BY <1>2, <1>3, FieldType
<1> QED
  BY <1>4 DEF y, z

LEMMA FinalizeType ==
    ASSUME TypeInv, NEW s \in Streams, Finalize(s), UNCHANGED received
    PROVE  TypeInv'
<1> DEFINE x == session[s]
           y == [x EXCEPT !.cancelled = TRUE, !.inq = <<>>, !.outq = <<>>]
<1>1. x \in BoundedSession /\ session \in [Streams -> BoundedSession]
  BY DEF TypeInv, TypeOK, SessionTypeOK
<1>2. y \in BoundedSession
  BY <1>1, FinalizedType
<1>3. session' = [session EXCEPT ![s] = y]
  BY <1>1 DEF Finalize
<1>4. SessionTypeOK'
  <2> HIDE DEF y
  <2> QED
    BY <1>2, <1>3, OneSession DEF TypeInv, TypeOK
<1>5. ServiceTypeOK'
  BY DEF TypeInv, TypeOK, ServiceTypeOK, Finalize, RegistryWithout, HandlerStates, ReaderStates
<1>6. SchedulerTypeOK'
  BY DEF TypeInv, TypeOK, SchedulerTypeOK, Finalize
<1>7. LoopShape'
  BY DEF TypeInv, TypeOK, ServiceTypeOK, LoopShape, Finalize
<1> QED
  BY <1>4, <1>5, <1>6, <1>7 DEF TypeInv, TypeOK

LEMMA TakeEventType ==
    ASSUME TypeInv, NEW s \in Streams, TakeEvent(s)
    PROVE  TypeInv'
<1> DEFINE x == session[s]
           y == [x EXCEPT !.outq = Tail(@)]
           event == Head(x.outq)
<1>1. x \in BoundedSession /\ session \in [Streams -> BoundedSession]
  BY DEF TypeInv, TypeOK, SessionTypeOK
<1>2. /\ x.outq \in Seq(OutputEvent) /\ x.outq # <<>>
      /\ Len(x.outq) <= OutputQueueHops
  BY <1>1 DEF TakeEvent, BoundedSession, Session
<1>3. /\ event \in OutputEvent
      /\ Tail(x.outq) \in Seq(OutputEvent)
      /\ Len(Tail(x.outq)) <= OutputQueueHops
  BY <1>2, Rest, SessionAssumption
<1>4. y \in BoundedSession
  BY <1>1, <1>3, FieldType
<1>5. session' = [session EXCEPT ![s] = y]
  BY <1>1 DEF TakeEvent
<1>6. SessionTypeOK'
  <2> HIDE DEF y
  <2> QED
    BY <1>4, <1>5, OneSession DEF TypeInv, TypeOK
<1>7. /\ sending' = [sending EXCEPT ![s] = event]
      /\ \/ handler' = [handler EXCEPT ![s] = "sending"]
         \/ handler' = [handler EXCEPT ![s] = "aborting"]
      /\ UNCHANGED <<ready, sched, batch, active, closing, produced,
                     registry, streamId, reader, toPut, sawEnd, stopping, received>>
  BY DEF TakeEvent
<1> HIDE DEF event
<1>8. ServiceTypeOK'
  BY <1>3, <1>7 DEF TypeInv, TypeOK, ServiceTypeOK, HandlerStates
<1>9. LoopShape'
  BY <1>3, <1>7 DEF TypeInv, TypeOK, ServiceTypeOK, LoopShape
<1> QED
  BY <1>6, <1>7, <1>8, <1>9 DEF TypeInv, TypeOK, SchedulerTypeOK

LEMMA MessageSentType ==
    ASSUME TypeInv, NEW s \in Streams, MessageSent(s)
    PROVE  TypeInv'
<1>1. sending[s] \in OutputEvent \cup {Accepted}
  BY DEF TypeInv, LoopShape, MessageSent
<1>2. SampleCount(sending[s]) \in Nat
  BY <1>1, SessionAssumption
     DEF SampleCount, OutputEvent, OutputAudio, StreamCompletion, RPCFailure, Accepted
<1>3. ServiceTypeOK'
  BY <1>2 DEF TypeInv, TypeOK, ServiceTypeOK, MessageSent, HandlerStates
<1>4. LoopShape'
  BY DEF TypeInv, TypeOK, ServiceTypeOK, LoopShape, MessageSent, schedVars
<1> QED
  BY <1>3, <1>4 DEF TypeInv, TypeOK, SessionTypeOK, SchedulerTypeOK, MessageSent, schedVars

LEMMA HandlerType ==
    ASSUME TypeInv, NEW s \in Streams, Handler(s)
    PROVE  TypeInv'
<1>1. ASSUME NEW id \in StreamIds, Start(s, id) PROVE TypeInv'
  BY <1>1, StartType
<1>2. ASSUME NEW id \in StreamIds, RefuseStart(s, id) PROVE TypeInv'
  BY <1>2, RefusalsType
<1>3. CASE RejectFirst(s)
  BY <1>3, RefusalsType
<1>4. CASE TakeEvent(s)
  BY <1>4, TakeEventType
<1>5. CASE MessageSent(s)
  BY <1>5, MessageSentType
<1>6. CASE EndedSent(s) \/ AbortSent(s) \/ CancelRPC(s)
  BY <1>6, FinalizeType DEF EndedSent, AbortSent, CancelRPC
<1> QED
  BY <1>1, <1>2, <1>3, <1>4, <1>5, <1>6 DEF Handler

-----------------------------------------------------------------------------
(* The reader's steps. *)

\* The frame of every step of the reader: what it does not touch, and that
\* what it touches is good.
LEMMA ReaderFrame ==
    ASSUME TypeInv, NEW s \in Streams, ReaderUnchanged,
           NEW y \in BoundedSession, session' = [session EXCEPT ![s] = y],
           ready' \in Seq(Streams), Len(ready') <= MaxActiveStreams,
           reader' \in [Streams -> ReaderStates],
           toPut' \in [Streams -> Seq(ModelWork)],
           sawEnd' \in [Streams -> BOOLEAN]
    PROVE  TypeInv'
<1>1. SessionTypeOK'
  BY OneSession DEF TypeInv, TypeOK
<1>2. SchedulerTypeOK' /\ ServiceTypeOK'
  BY DEF TypeInv, TypeOK, SchedulerTypeOK, ServiceTypeOK, ReaderUnchanged
<1>3. LoopShape'
  BY DEF TypeInv, LoopShape, ReaderUnchanged
<1> QED
  BY <1>1, <1>2, <1>3 DEF TypeInv, TypeOK

LEMMA ReaderFailsType ==
    ASSUME TypeInv, NEW s \in Streams, ReaderUnchanged,
           NEW x \in BoundedSession, NEW reason \in Reasons,
           ReaderFails(s, x, reason), UNCHANGED ready,
           sawEnd' \in [Streams -> BOOLEAN]
    PROVE  TypeInv'
<1>1. Fail(x, reason) \in BoundedSession
  BY FailType
<1>2. /\ session' = [session EXCEPT ![s] = Fail(x, reason)]
      /\ reader' \in [Streams -> ReaderStates]
      /\ toPut' \in [Streams -> Seq(ModelWork)]
      /\ ready' \in Seq(Streams) /\ Len(ready') <= MaxActiveStreams
  BY DEF ReaderFails, TypeInv, TypeOK, ServiceTypeOK, SchedulerTypeOK, ReaderStates
<1> QED
  BY <1>1, <1>2, ReaderFrame

LEMMA PutType ==
    ASSUME TypeInv, NEW s \in Streams, ReaderUnchanged,
           NEW x \in BoundedSession, NEW works \in Seq(ModelWork),
           Put(s, x, works) \/ PutRaises(s, x, works),
           sawEnd' \in [Streams -> BOOLEAN]
    PROVE  TypeInv'
<1> DEFINE k == Fitting(x, works)
           y == Enqueued(x, works, k)
           rest == SubSeq(works, k + 1, Len(works))
<1>1. k \in Nat /\ k <= Room(x) /\ k <= Len(works)
  BY FittingBounds
<1>2. CASE Put(s, x, works)
  <2>1. y \in BoundedSession
    BY <1>1, EnqueuedType
  <2>2. rest \in Seq(ModelWork)
    BY <1>1
  <2>3. /\ session' = [session EXCEPT ![s] = IF k = 0 THEN y ELSE Notified(y)]
        /\ ready' = IF k = 0 THEN ready ELSE ReadyAfter(s, y)
        /\ toPut' = [toPut EXCEPT ![s] = rest]
        /\ reader' = [reader EXCEPT ![s] = IF rest = <<>> THEN "reading" ELSE "putting"]
    BY <1>2 DEF Put
  <2> HIDE DEF k, y, rest
  <2>4. (IF k = 0 THEN y ELSE Notified(y)) \in BoundedSession
    BY <2>1, NotifiedType
  <2>5. /\ reader' \in [Streams -> ReaderStates]
        /\ toPut' \in [Streams -> Seq(ModelWork)]
    BY <2>2, <2>3 DEF TypeInv, TypeOK, ServiceTypeOK, ReaderStates
  <2>6. ready' \in Seq(Streams) /\ Len(ready') <= MaxActiveStreams
    BY <2>3, ReadyAfterType DEF TypeInv, TypeOK, SchedulerTypeOK
  <2> QED
    BY <2>3, <2>4, <2>5, <2>6, ReaderFrame
<1>3. CASE PutRaises(s, x, works)
  <2> DEFINE z == Enqueued(x, works, 1)
  <2>1. z \in BoundedSession
    <3>1. Room(x) \in Int /\ Len(works) \in Nat /\ k > 0
      BY <1>3, SessionAssumption DEF PutRaises, Room, BoundedSession, Session
    <3>2. 1 \in Nat /\ 1 <= Room(x) /\ 1 <= Len(works)
      BY <1>1, <3>1
    <3> QED
      BY <3>2, EnqueuedType
  <2>2. Notified(z) \in BoundedSession
    BY <2>1, NotifiedType
  <2>3. ReaderFails(s, Notified(z), "internal") /\ UNCHANGED ready
    BY <1>3 DEF PutRaises
  <2> QED
    BY <2>2, <2>3, ReaderFailsType DEF Reasons
<1> QED
  BY <1>2, <1>3

LEMMA AcceptAudioType ==
    ASSUME TypeInv, NEW s \in Streams, NEW n \in 1..MaxAudioChunkSamples, AcceptAudio(s, n)
    PROVE  TypeInv'
<1>1. session[s] \in BoundedSession /\ n \in Nat
  BY DEF TypeInv, TypeOK, SessionTypeOK
<1>2. /\ Accept(session[s], n) \in BoundedSession
      /\ FullHops(session[s], n) \in Seq(ModelWork)
  BY <1>1, RechunkType
<1>3. sawEnd' \in [Streams -> BOOLEAN]
  BY DEF AcceptAudio, TypeInv, TypeOK, ServiceTypeOK
<1> QED
  BY <1>2, <1>3, PutType DEF AcceptAudio

LEMMA ReaderFailuresType ==
    ASSUME TypeInv, NEW s \in Streams,
           \/ \E n \in 1..MaxAudioChunkSamples : ChunkRefused(s, n)
           \/ ProtocolViolation(s) \/ IdleTimeout(s)
    PROVE  TypeInv'
<1>1. session[s] \in BoundedSession
  BY DEF TypeInv, TypeOK, SessionTypeOK
<1>2. ASSUME NEW n \in 1..MaxAudioChunkSamples, ChunkRefused(s, n) PROVE TypeInv'
  <2>1. session[s].inputSamples + n \in Nat
    BY <1>1 DEF BoundedSession, Session
  <2>2. [session[s] EXCEPT !.inputSamples = @ + n] \in BoundedSession
    BY <1>1, <2>1, FieldType
  <2>3. sawEnd' \in [Streams -> BOOLEAN]
    BY <1>2 DEF ChunkRefused, TypeInv, TypeOK, ServiceTypeOK
  <2> QED
    BY <1>2, <2>2, <2>3, ReaderFailsType DEF ChunkRefused, Reasons
<1>3. CASE ProtocolViolation(s) \/ IdleTimeout(s)
  <2>1. sawEnd' \in [Streams -> BOOLEAN]
    BY <1>3 DEF ProtocolViolation, IdleTimeout, TypeInv, TypeOK, ServiceTypeOK
  <2> QED
    BY <1>1, <1>3, <2>1, ReaderFailsType DEF ProtocolViolation, IdleTimeout, Reasons
<1> QED
  BY <1>2, <1>3

LEMMA EndStreamType ==
    ASSUME TypeInv, NEW s \in Streams,
           EndWithoutFlush(s) \/ EndWithFlush(s) \/ EndEmptyStream(s)
    PROVE  TypeInv'
<1>1. session[s] \in BoundedSession
  BY DEF TypeInv, TypeOK, SessionTypeOK
<1>2. sawEnd' \in [Streams -> BOOLEAN]
  BY DEF EndWithoutFlush, EndWithFlush, EndEmptyStream, TypeInv, TypeOK, ServiceTypeOK
<1>3. CASE EndWithoutFlush(s)
  <2>1. <<NoFlushWork>> \in Seq(ModelWork)
    BY DEF ModelWork
  <2> QED
    BY <1>1, <1>2, <1>3, <2>1, PutType DEF EndWithoutFlush
<1>4. CASE EndWithFlush(s)
  BY <1>1, <1>2, <1>4, FlushType, PutType DEF EndWithFlush
<1>5. CASE EndEmptyStream(s)
  <2>1. Complete(session[s], TRUE) \in BoundedSession
    BY <1>1, CompleteType
  <2>2. session' = [session EXCEPT ![s] = Complete(session[s], TRUE)]
    BY <1>5 DEF EndEmptyStream
  <2>3. /\ ready' \in Seq(Streams) /\ Len(ready') <= MaxActiveStreams
        /\ reader' \in [Streams -> ReaderStates]
        /\ toPut' \in [Streams -> Seq(ModelWork)]
        /\ ReaderUnchanged
    BY <1>5 DEF EndEmptyStream, TypeInv, TypeOK, SchedulerTypeOK, ServiceTypeOK
  <2> QED
    BY <1>2, <2>1, <2>2, <2>3, ReaderFrame
<1> QED
  BY <1>3, <1>4, <1>5

LEMMA ReaderType ==
    ASSUME TypeInv, NEW s \in Streams, Reader(s)
    PROVE  TypeInv'
<1>1. session[s] \in BoundedSession /\ toPut[s] \in Seq(ModelWork)
  BY DEF TypeInv, TypeOK, SessionTypeOK, ServiceTypeOK
<1>2. CASE ResumePut(s)
  <2>1. sawEnd' \in [Streams -> BOOLEAN]
    BY <1>2 DEF ResumePut, TypeInv, TypeOK, ServiceTypeOK
  <2> QED
    BY <1>1, <1>2, <2>1, PutType DEF ResumePut
<1>3. CASE HalfClose(s)
  <2>1. ServiceTypeOK'
    BY <1>3 DEF TypeInv, TypeOK, ServiceTypeOK, HalfClose, ReaderStates
  <2>2. LoopShape'
    BY <1>3 DEF TypeInv, LoopShape, HalfClose, schedVars
  <2> QED
    BY <1>3, <2>1, <2>2 DEF TypeInv, TypeOK, SessionTypeOK, SchedulerTypeOK, HalfClose, schedVars
<1> QED
  BY <1>2, <1>3, AcceptAudioType, ReaderFailuresType, EndStreamType DEF Reader

-----------------------------------------------------------------------------

LEMMA SchedulerStepType ==
    ASSUME TypeInv, SchedulerStep
    PROVE  TypeInv'
BY TakeFirstType, TakeMoreType, DispatchSkipType, DispatchNoFlushType, DispatchWorkType,
   InferenceDoneType, InferenceFailsType, FailEntryType, DistributeSkipType,
   DistributeOverflowType, DistributeFlushType, DistributeHopType, DistributeDiesType
   DEF SchedulerStep, RunStep

LEMMA InitType == Init => TypeInv
<1> SUFFICES ASSUME Init PROVE TypeInv
  OBVIOUS
<1>1. FreshSession \in BoundedSession
  BY SessionAssumption DEF FreshSession, BoundedSession, Session, CacheContent
<1>2. SessionTypeOK
  <2> HIDE DEF FreshSession
  <2> QED
    BY <1>1 DEF Init, SchedulerInit, SessionTypeOK
<1> DEFINE empty == <<>>
<1>3. /\ empty \in Seq(Streams) /\ empty \in Seq(ActiveEntry)
      /\ empty \in Seq(EnhancedHop) /\ empty \in Seq(ModelWork)
      /\ Len(empty) = 0
  OBVIOUS
<1>4. SchedulerTypeOK
  <2>1. /\ ready = empty /\ batch = empty /\ active = empty
        /\ produced = [s \in Streams |-> empty]
        /\ sched = "idle" /\ closing = FALSE
    BY DEF Init, SchedulerInit
  <2> HIDE DEF empty
  <2>2. produced \in [Streams -> Seq(EnhancedHop)]
    BY <1>3, <2>1
  <2>3. /\ ready \in Seq(Streams) /\ Len(ready) <= MaxActiveStreams
        /\ batch \in Seq(Streams) /\ Len(batch) <= MaxBatchSize
        /\ active \in Seq(ActiveEntry)
    BY <1>3, <2>1, SchedulerAssumption
  <2>4. sched \in SchedulerStates /\ closing \in BOOLEAN
    BY <2>1 DEF SchedulerStates
  <2> QED
    BY <2>2, <2>3, <2>4 DEF SchedulerTypeOK
<1>5. ServiceTypeOK
  <2>1. toPut = [s \in Streams |-> empty]
    BY DEF Init
  <2> HIDE DEF empty
  <2>2. toPut \in [Streams -> Seq(ModelWork)]
    BY <1>3, <2>1
  <2> QED
    BY <2>2 DEF Init, ServiceTypeOK, HandlerStates, ReaderStates
<1>6. LoopShape
  BY DEF Init, SchedulerInit, LoopShape
<1> QED
  BY <1>2, <1>4, <1>5, <1>6 DEF TypeInv, TypeOK

LEMMA NextType ==
    ASSUME TypeInv, [Next]_vars
    PROVE  TypeInv'
<1>1. CASE SchedulerStep
  BY <1>1, SchedulerStepType
<1>2. ASSUME NEW s \in Streams, Handler(s) \/ Reader(s) PROVE TypeInv'
  BY <1>2, HandlerType, ReaderType
<1>3. CASE StopServer
  <2>1. ServiceTypeOK'
    BY <1>3 DEF TypeInv, TypeOK, ServiceTypeOK, StopServer
  <2>2. LoopShape'
    BY <1>3 DEF TypeInv, LoopShape, StopServer, schedVars
  <2> QED
    BY <1>3, <2>1, <2>2 DEF TypeInv, TypeOK, SessionTypeOK, SchedulerTypeOK, StopServer, schedVars
<1>4. CASE Shutdown
  BY <1>4, ShutdownType
<1>5. CASE UNCHANGED vars
  BY <1>5 DEF TypeInv, TypeOK, SessionTypeOK, SchedulerTypeOK, ServiceTypeOK, LoopShape,
              vars, schedVars, serviceVars
<1> QED
  BY <1>1, <1>2, <1>3, <1>4, <1>5 DEF Next

\* Every value keeps its type and no queue exceeds its capacity: neither the
\* session queues, nor the ready queue, nor a batch.
THEOREM ServiceTypeCorrect == Spec => []TypeOK
<1>1. TypeInv => TypeOK
  BY DEF TypeInv
<1>2. TypeInv /\ [Next]_vars => TypeInv'
  BY NextType
<1> QED
  BY <1>1, <1>2, InitType, PTL DEF Spec

-----------------------------------------------------------------------------
(* The registry (service.py: StreamRegistry, Enhance).  RegistryExact is      *)
(* inductive once it is known that a handler which has not started has no     *)
(* reader.                                                                    *)

NewHasNoReader == \A s \in Streams : handler[s] = "new" => reader[s] = "none"
RegistryInv == RegistryExact /\ NewHasNoReader

\* A step that neither starts nor ends an RPC leaves the registry exact.
LEMMA RegistryStays ==
    ASSUME RegistryInv, UNCHANGED <<registry, streamId>>,
           \A s \in Streams : /\ reader'[s] = "none" <=> reader[s] = "none"
                              /\ handler'[s] = "closed" <=> handler[s] = "closed"
                              /\ handler'[s] = "new" => handler[s] = "new"
    PROVE  RegistryInv'
BY DEF RegistryInv, RegistryExact, NewHasNoReader

LEMMA StartRegistry ==
    ASSUME TypeInv, RegistryInv, NEW s \in Streams, NEW id \in StreamIds, Start(s, id)
    PROVE  RegistryInv'
<1>1. /\ registry \in [StreamIds -> Streams \cup {None}]
      /\ handler \in [Streams -> HandlerStates] /\ reader \in [Streams -> ReaderStates]
      /\ streamId \in [Streams -> StreamIds \cup {None}]
  BY DEF TypeInv, TypeOK, ServiceTypeOK
<1>2. /\ registry[id] = None /\ handler[s] = "new"
      /\ registry' = [registry EXCEPT ![id] = s]
      /\ streamId' = [streamId EXCEPT ![s] = id]
      /\ handler' = [handler EXCEPT ![s] = "sending"]
      /\ reader' = [reader EXCEPT ![s] = "reading"]
  BY DEF Start, Refused
<1>3. reader[s] = "none"
  BY <1>2 DEF RegistryInv, NewHasNoReader
<1>4. \A j \in StreamIds : registry[j] # s
  BY <1>3 DEF RegistryInv, RegistryExact
<1>5. \A t \in Streams \ {s}, j \in StreamIds :
         registry'[j] = t <=> streamId'[t] = j /\ reader'[t] # "none" /\ handler'[t] # "closed"
  BY <1>1, <1>2, NoneAssumption DEF RegistryInv, RegistryExact
<1>6. \A j \in StreamIds :
         registry'[j] = s <=> streamId'[s] = j /\ reader'[s] # "none" /\ handler'[s] # "closed"
  BY <1>1, <1>2, <1>4
<1>7. NewHasNoReader'
  BY <1>1, <1>2 DEF RegistryInv, NewHasNoReader
<1> QED
  BY <1>5, <1>6, <1>7 DEF RegistryInv, RegistryExact

\* A refused RPC never owns an entry, though it carries the ID of another.
LEMMA RefusalsRegistry ==
    ASSUME TypeInv, RegistryInv, NEW s \in Streams,
           RejectFirst(s) \/ \E id \in StreamIds : RefuseStart(s, id)
    PROVE  RegistryInv'
<1>1. /\ handler \in [Streams -> HandlerStates]
      /\ streamId \in [Streams -> StreamIds \cup {None}]
  BY DEF TypeInv, TypeOK, ServiceTypeOK
<1>2. /\ handler[s] = "new" /\ handler' = [handler EXCEPT ![s] = "aborting"]
      /\ UNCHANGED <<registry, reader>>
      /\ \A t \in Streams \ {s} : streamId'[t] = streamId[t]
  BY <1>1 DEF RejectFirst, RefuseStart
<1>3. reader[s] = "none"
  BY <1>2 DEF RegistryInv, NewHasNoReader
<1> QED
  BY <1>1, <1>2, <1>3 DEF RegistryInv, RegistryExact, NewHasNoReader

\* The finally clause removes the entry this RPC made, and no other.
LEMMA FinalizeRegistry ==
    ASSUME TypeInv, RegistryInv, NEW s \in Streams, Finalize(s)
    PROVE  RegistryInv'
<1>1. /\ handler \in [Streams -> HandlerStates] /\ reader \in [Streams -> ReaderStates]
      /\ streamId \in [Streams -> StreamIds \cup {None}]
  BY DEF TypeInv, TypeOK, ServiceTypeOK
<1>2. /\ registry' = [id \in StreamIds |-> IF registry[id] = s THEN None ELSE registry[id]]
      /\ handler' = [handler EXCEPT ![s] = "closed"]
      /\ streamId' = [streamId EXCEPT ![s] = None]
      /\ \A t \in Streams \ {s} : reader'[t] = reader[t]
  BY <1>1 DEF Finalize, RegistryWithout
<1>3. \A t \in Streams, id \in StreamIds :
         registry'[id] = t <=> streamId'[t] = id /\ reader'[t] # "none" /\ handler'[t] # "closed"
  BY <1>1, <1>2, NoneAssumption DEF RegistryInv, RegistryExact
<1>4. NewHasNoReader'
  BY <1>1, <1>2 DEF RegistryInv, NewHasNoReader
<1> QED
  BY <1>3, <1>4 DEF RegistryInv, RegistryExact

LEMMA HandlerRegistry ==
    ASSUME TypeInv, RegistryInv, NEW s \in Streams, Handler(s)
    PROVE  RegistryInv'
<1>1. handler \in [Streams -> HandlerStates]
  BY DEF TypeInv, TypeOK, ServiceTypeOK
<1>2. ASSUME NEW id \in StreamIds, Start(s, id) PROVE RegistryInv'
  BY <1>2, StartRegistry
<1>3. CASE RejectFirst(s) \/ \E id \in StreamIds : RefuseStart(s, id)
  BY <1>3, RefusalsRegistry
<1>4. CASE TakeEvent(s) \/ MessageSent(s)
  <2>1. /\ UNCHANGED <<registry, streamId, reader>>
        /\ \A t \in Streams : \/ handler'[t] = handler[t]
                              \/ /\ handler[t] \in {"waiting", "sending"}
                                 /\ handler'[t] \in {"aborting", "sending", "waiting"}
    BY <1>1, <1>4 DEF TakeEvent, MessageSent
  <2>2. \A t \in Streams : /\ handler'[t] = "closed" <=> handler[t] = "closed"
                           /\ handler'[t] = "new" => handler[t] = "new"
    BY <2>1
  <2> QED
    BY <2>1, <2>2, RegistryStays
<1>5. CASE EndedSent(s) \/ AbortSent(s) \/ CancelRPC(s)
  BY <1>5, FinalizeRegistry DEF EndedSent, AbortSent, CancelRPC
<1> QED
  BY <1>2, <1>3, <1>4, <1>5 DEF Handler

LEMMA ReaderRegistry ==
    ASSUME TypeInv, RegistryInv, NEW s \in Streams, Reader(s)
    PROVE  RegistryInv'
<1>1. reader \in [Streams -> ReaderStates]
  BY DEF TypeInv, TypeOK, ServiceTypeOK
<1>2. /\ UNCHANGED <<registry, streamId, handler>>
      /\ reader[s] \in {"reading", "putting"}
  BY DEF Reader, AcceptAudio, ChunkRefused, EndWithoutFlush, EndWithFlush, EndEmptyStream,
         ResumePut, ProtocolViolation, IdleTimeout, HalfClose, ReaderUnchanged
<1>3. \/ UNCHANGED reader
      \/ \E r \in {"reading", "putting", "stopped"} : reader' = [reader EXCEPT ![s] = r]
  BY DEF Reader, AcceptAudio, ChunkRefused, EndWithoutFlush, EndWithFlush, EndEmptyStream,
         ResumePut, ProtocolViolation, IdleTimeout, HalfClose, Put, PutRaises, ReaderFails
<1>4. \A t \in Streams : reader'[t] = "none" <=> reader[t] = "none"
  BY <1>1, <1>2, <1>3
<1> QED
  BY <1>2, <1>4, RegistryStays

LEMMA NextRegistry ==
    ASSUME TypeInv, RegistryInv, [Next]_vars
    PROVE  RegistryInv'
<1>1. CASE SchedulerStep \/ Shutdown \/ StopServer \/ UNCHANGED vars
  <2>1. UNCHANGED <<registry, streamId, reader, handler>>
    BY <1>1 DEF SchedulerStep, Shutdown, StopServer, vars, serviceVars
  <2> QED
    BY <2>1, RegistryStays
<1>2. ASSUME NEW s \in Streams, Handler(s) \/ Reader(s) PROVE RegistryInv'
  BY <1>2, HandlerRegistry, ReaderRegistry
<1> QED
  BY <1>1, <1>2 DEF Next

\* The registry holds exactly the accepted RPCs that have not ended, each under
\* its own ID: a refused duplicate never removes the stream it collided with,
\* and no entry outlives its RPC.
THEOREM RegistryStaysExact == Spec => []RegistryExact
<1>1. Init => RegistryInv
  BY NoneAssumption DEF Init, RegistryInv, RegistryExact, NewHasNoReader
<1>2. TypeInv /\ RegistryInv /\ [Next]_vars => TypeInv' /\ RegistryInv'
  BY NextType, NextRegistry
<1>3. RegistryInv => RegistryExact
  BY DEF RegistryInv
<1> QED
  BY <1>1, <1>2, <1>3, InitType, PTL DEF Spec

-----------------------------------------------------------------------------
(* Batching never mixes streams up: a stream waits at most once, has at most   *)
(* one hop in flight, and the audio labelled with a hop was computed from that *)
(* hop of that stream (scheduler.py).                                          *)

\* WaitsOnce, in the two halves that different steps disturb: where streams
\* wait, and which streams the batch in flight belongs to.
QueuedOnce ==
    /\ Distinct(ready)
    /\ Distinct(batch)
    /\ \A i \in DOMAIN ready, j \in DOMAIN batch : ready[i] # batch[j]
    /\ \A i \in DOMAIN ready : session[ready[i]].scheduled
    /\ \A i \in DOMAIN batch : session[batch[i]].scheduled
InFlightOnce ==
    /\ \A i, j \in DOMAIN active : active[i].stream = active[j].stream => i = j
    /\ \A i \in DOMAIN batch, j \in DOMAIN active : batch[i] # active[j].stream

LEMMA WaitsOnceHalves == WaitsOnce <=> QueuedOnce /\ InFlightOnce
BY DEF WaitsOnce, QueuedOnce, InFlightOnce

(* Why AudioIsOwn holds: the pending hop of a stream is the one its caches     *)
(* have absorbed, and while a hop is in flight the batch element carries the   *)
(* caches the session still has; the model's answer carries, as audio, what    *)
(* those caches hold and, as caches, the hop it was given.                     *)
CachesFollow ==
    /\ \A s \in Streams :
          session[s].pending # None =>
             session[s].cache = [stream |-> s, start |-> session[s].pending.start]
    /\ \A i \in DOMAIN active :
          IF sched = "distribute"
          THEN /\ active[i].wav = session[active[i].stream].cache
               /\ active[i].cache = Absorbed(active[i])
          ELSE active[i].cache = session[active[i].stream].cache

BatchInv == TypeInv /\ QueuedOnce /\ InFlightOnce /\ CachesFollow /\ AudioIsOwn

-----------------------------------------------------------------------------
(* What the operations on a session leave alone. *)

\* y has the caches, the pending hop and the scheduled flag of x.
Kept(x, y) ==
    /\ y.scheduled = x.scheduled
    /\ y.cache = x.cache
    /\ y.pending = x.pending

LEMMA OutputKept ==
    ASSUME NEW x \in BoundedSession
    PROVE  /\ \A reason : Kept(x, Fail(x, reason))
           /\ \A event : Kept(x, Emit(x, event))
           /\ \A flushed : Kept(x, Complete(x, flushed))
<1>1. \A reason : Kept(x, Fail(x, reason))
  BY DEF Kept, Fail, BoundedSession, Session
<1>2. \A event : Kept(x, Emit(x, event))
  BY DEF Kept, Emit, BoundedSession, Session
<1>3. ASSUME NEW flushed PROVE Kept(x, Complete(x, flushed))
  <2> DEFINE y == [x EXCEPT !.ended = TRUE]
  <2>1. y \in BoundedSession
    BY FlagsType
  <2>2. Kept(x, y)
    BY DEF Kept, BoundedSession, Session
  <2>3. /\ Kept(y, Fail(y, "outputFull"))
        /\ Kept(y, Emit(y, Completion(y, flushed)))
    BY <2>1 DEF Kept, Fail, Emit, BoundedSession, Session
  <2>4. \/ Complete(x, flushed) = x
        \/ Complete(x, flushed) = Fail(y, "outputFull")
        \/ Complete(x, flushed) = Emit(y, Completion(y, flushed))
    BY DEF Complete
  <2> QED
    BY <2>2, <2>3, <2>4 DEF Kept
<1> QED
  BY <1>1, <1>2, <1>3

LEMMA InputKept ==
    ASSUME NEW x \in BoundedSession
    PROVE  /\ \A works, k : Kept(x, Enqueued(x, works, k))
           /\ Kept(x, FlushPartial(x))
           /\ \A n : Kept(x, [x EXCEPT !.inputSamples = @ + n])
           /\ \A n \in Nat : Kept(x, Accept(x, n))
<1>1. \A works, k : Kept(x, Enqueued(x, works, k))
  BY DEF Kept, Enqueued, BoundedSession, Session
<1>2. Kept(x, FlushPartial(x))
  BY DEF Kept, FlushPartial, BoundedSession, Session
<1>3. \A n : Kept(x, [x EXCEPT !.inputSamples = @ + n])
  BY DEF Kept, BoundedSession, Session
<1>4. ASSUME NEW n \in Nat PROVE Kept(x, Accept(x, n))
  <2> DEFINE y == [x EXCEPT !.inputSamples = @ + n]
  <2>1. x.inputSamples + n \in Nat
    BY DEF BoundedSession, Session
  <2>2. y \in BoundedSession
    BY <2>1, FieldType
  <2>3. Kept(x, y)
    BY <1>3
  <2> HIDE DEF y
  <2>4. Kept(y, Rechunk(y, n))
    BY <2>2 DEF Kept, Rechunk, BoundedSession, Session
  <2> QED
    BY <2>3, <2>4 DEF Kept, Accept, y
<1> QED
  BY <1>1, <1>2, <1>3, <1>4

\* notify leaves the caches alone and sets the flag of the stream it queues.
LEMMA NotifiedKept ==
    ASSUME NEW x \in BoundedSession
    PROVE  /\ Notified(x).scheduled = (x.scheduled \/ Notifiable(x))
           /\ Notified(x).cache = x.cache
           /\ Notified(x).pending = x.pending
BY DEF Notified, Notifiable, BoundedSession, Session

\* A result becomes the caches and the pending hop of its stream.
LEMMA DeliverKept ==
    ASSUME NEW x \in BoundedSession, NEW entry \in ActiveEntry, Deliverable(x)
    PROVE  /\ Deliver(x, entry).scheduled = x.scheduled
           /\ Deliver(x, entry).cache = entry.cache
           /\ Deliver(x, entry).pending = SourceOf(entry.work)
<1> DEFINE a == Advance(x, entry)
           b == Emit(a, AudioOf(Enhanced(x, entry)))
           n == x.pending.valid
<1>1. a \in BoundedSession
  BY AdvanceType
<1>2. /\ a.scheduled = x.scheduled
      /\ a.cache = entry.cache
      /\ a.pending = SourceOf(entry.work)
  BY DEF Advance, BoundedSession, Session
<1>3. /\ Kept(a, b)
      /\ Kept(b, [b EXCEPT !.outputSamples = @ + n])
  <2> HIDE DEF a, n
  <2>1. Kept(a, b)
    BY <1>1, OutputKept
  <2>2. Kept(b, [b EXCEPT !.outputSamples = @ + n])
    BY <1>1 DEF Kept, Emit, BoundedSession, Session
  <2> QED
    BY <2>1, <2>2
<1>4. Deliver(x, entry) = a \/ Deliver(x, entry) = [b EXCEPT !.outputSamples = @ + n]
  BY DEF Deliver
<1> HIDE DEF a, b, n
<1> QED
  BY <1>2, <1>3, <1>4 DEF Kept

-----------------------------------------------------------------------------
(* Steps that leave the batch where it is: every handler's and reader's.      *)

\* A stream that is queued was not scheduled before and is now.
Queues(s) ==
    /\ ~session[s].scheduled
    /\ session'[s].scheduled
    /\ ready' = Append(ready, s)

\* Flags are raised, not lowered, and at most one stream is queued.
LEMMA QueuedOnceStays ==
    ASSUME TypeInv, QueuedOnce, UNCHANGED batch,
           \A t \in Streams : session[t].scheduled => session'[t].scheduled,
           UNCHANGED ready \/ \E s \in Streams : Queues(s)
    PROVE  QueuedOnce'
<1>1. ready \in Seq(Streams) /\ batch \in Seq(Streams)
  BY DEF TypeInv, TypeOK, SchedulerTypeOK
<1>2. CASE UNCHANGED ready
  BY <1>1, <1>2 DEF QueuedOnce, Distinct
<1>3. ASSUME NEW s \in Streams, Queues(s) PROVE QueuedOnce'
  <2>1. \A i \in DOMAIN ready : ready[i] # s
    BY <1>3 DEF QueuedOnce, Queues
  <2>2. \A i \in DOMAIN batch : batch[i] # s
    BY <1>3 DEF QueuedOnce, Queues
  <2>3. /\ Len(ready) \in Nat
        /\ DOMAIN ready = 1..Len(ready)
        /\ DOMAIN ready' = 1..(Len(ready) + 1)
        /\ ready'[Len(ready) + 1] = s
        /\ \A i \in 1..Len(ready) : ready'[i] = ready[i] /\ ready[i] \in Streams
    BY <1>1, <1>3 DEF Queues
  <2>4. \A i \in DOMAIN ready' : i \in DOMAIN ready \/ i = Len(ready) + 1
    BY <2>3
  <2>5. Distinct(ready')
    BY <2>1, <2>3, <2>4 DEF QueuedOnce, Distinct
  <2>6. \A i \in DOMAIN ready', j \in DOMAIN batch : ready'[i] # batch[j]
    BY <2>2, <2>3, <2>4 DEF QueuedOnce
  <2>7. \A i \in DOMAIN ready' : session'[ready'[i]].scheduled
    BY <1>3, <2>3, <2>4 DEF QueuedOnce, Queues
  <2>8. \A i \in DOMAIN batch : session'[batch[i]].scheduled
    BY <1>1 DEF QueuedOnce
  <2> QED
    BY <2>5, <2>6, <2>7, <2>8 DEF QueuedOnce, Distinct
<1> QED
  BY <1>2, <1>3

LEMMA EntryTypes ==
    ASSUME NEW entries \in Seq(ActiveEntry), NEW i \in DOMAIN entries
    PROVE  /\ entries[i] \in ActiveEntry
           /\ entries[i].stream \in Streams
<1>1. entries[i] \in ActiveEntry
  OBVIOUS
<1> QED
  BY <1>1 DEF ActiveEntry

\* One session changes, in nothing that concerns its caches.
LEMMA QuietStep ==
    ASSUME BatchInv, NEW s \in Streams, NEW y,
           session' = [session EXCEPT ![s] = y],
           session[s].scheduled => y.scheduled,
           y.cache = session[s].cache,
           y.pending = session[s].pending,
           UNCHANGED <<sched, batch, active, produced>>,
           UNCHANGED ready \/ Queues(s)
    PROVE  QueuedOnce' /\ InFlightOnce' /\ CachesFollow' /\ AudioIsOwn'
<1>1. /\ session \in [Streams -> BoundedSession]
      /\ active \in Seq(ActiveEntry)
  BY DEF BatchInv, TypeInv, TypeOK, SessionTypeOK, SchedulerTypeOK
<1>2. \A t \in Streams : session'[t] = IF t = s THEN y ELSE session[t]
  BY <1>1
<1>3. \A t \in Streams : session[t].scheduled => session'[t].scheduled
  BY <1>2
<1>4. QueuedOnce'
  BY <1>3, QueuedOnceStays DEF BatchInv
<1>5. InFlightOnce'
  BY DEF BatchInv, InFlightOnce
<1>6. \A i \in DOMAIN active : active[i].stream \in Streams
  BY <1>1, EntryTypes
<1>7. \A t \in Streams : /\ session'[t].cache = session[t].cache
                         /\ session'[t].pending = session[t].pending
  BY <1>2
<1>8. CachesFollow'
  BY <1>6, <1>7 DEF BatchInv, CachesFollow, Absorbed
<1>9. AudioIsOwn'
  BY DEF BatchInv, AudioIsOwn
<1> QED
  BY <1>4, <1>5, <1>8, <1>9

\* Nothing about sessions, queues or batches changes.
LEMMA IdleStep ==
    ASSUME BatchInv, UNCHANGED <<session, ready, sched, batch, active, produced>>
    PROVE  QueuedOnce' /\ InFlightOnce' /\ CachesFollow' /\ AudioIsOwn'
BY DEF BatchInv, QueuedOnce, InFlightOnce, CachesFollow, AudioIsOwn, Distinct, Absorbed

LEMMA HandlerIntegrity ==
    ASSUME BatchInv, NEW s \in Streams, Handler(s)
    PROVE  QueuedOnce' /\ InFlightOnce' /\ CachesFollow' /\ AudioIsOwn'
<1> DEFINE x == session[s]
<1>1. x \in BoundedSession /\ session \in [Streams -> BoundedSession]
  BY DEF BatchInv, TypeInv, TypeOK, SessionTypeOK
<1>2. CASE \/ \E id \in StreamIds : Start(s, id) \/ RefuseStart(s, id)
           \/ RejectFirst(s) \/ MessageSent(s)
  BY <1>2, IdleStep DEF Start, RefuseStart, RejectFirst, MessageSent, schedVars
<1>3. CASE EndedSent(s) \/ AbortSent(s) \/ CancelRPC(s)
  <2> DEFINE y == [x EXCEPT !.cancelled = TRUE, !.inq = <<>>, !.outq = <<>>]
  <2>1. session' = [session EXCEPT ![s] = y]
    BY <1>1, <1>3 DEF EndedSent, AbortSent, CancelRPC, Finalize
  <2>2. UNCHANGED <<ready, sched, batch, active, produced>>
    BY <1>3 DEF EndedSent, AbortSent, CancelRPC, Finalize
  <2>3. y.scheduled = x.scheduled /\ y.cache = x.cache /\ y.pending = x.pending
    BY <1>1 DEF BoundedSession, Session
  <2> HIDE DEF y
  <2> QED
    BY <2>1, <2>2, <2>3, QuietStep
<1>4. CASE TakeEvent(s)
  <2> DEFINE y == [x EXCEPT !.outq = Tail(@)]
  <2>1. session' = [session EXCEPT ![s] = y]
    BY <1>1, <1>4 DEF TakeEvent
  <2>2. UNCHANGED <<ready, sched, batch, active, produced>>
    BY <1>4 DEF TakeEvent
  <2>3. y.scheduled = x.scheduled /\ y.cache = x.cache /\ y.pending = x.pending
    BY <1>1 DEF BoundedSession, Session
  <2> HIDE DEF y
  <2> QED
    BY <2>1, <2>2, <2>3, QuietStep
<1> QED
  BY <1>2, <1>3, <1>4 DEF Handler

\* The reader fails a session that kept its caches.
LEMMA ReaderFailsIntegrity ==
    ASSUME BatchInv, NEW s \in Streams, ReaderUnchanged,
           NEW x \in BoundedSession, NEW reason, ReaderFails(s, x, reason), UNCHANGED ready,
           session[s].scheduled => x.scheduled,
           x.cache = session[s].cache, x.pending = session[s].pending
    PROVE  QueuedOnce' /\ InFlightOnce' /\ CachesFollow' /\ AudioIsOwn'
<1> DEFINE y == Fail(x, reason)
<1>1. Kept(x, y)
  BY OutputKept
<1>2. /\ session' = [session EXCEPT ![s] = y]
      /\ UNCHANGED <<sched, batch, active, produced>>
  BY DEF ReaderFails, ReaderUnchanged
<1> HIDE DEF y
<1> QED
  BY <1>1, <1>2, QuietStep DEF Kept

\* Enqueueing may queue the stream, if it was not scheduled.
LEMMA PutIntegrity ==
    ASSUME BatchInv, NEW s \in Streams, ReaderUnchanged,
           NEW x \in BoundedSession, NEW works \in Seq(ModelWork), Kept(session[s], x),
           Put(s, x, works) \/ PutRaises(s, x, works)
    PROVE  QueuedOnce' /\ InFlightOnce' /\ CachesFollow' /\ AudioIsOwn'
<1> DEFINE k == Fitting(x, works)
           y == Enqueued(x, works, k)
<1>1. k \in Nat /\ k <= Room(x) /\ k <= Len(works)
  BY FittingBounds
<1>2. session \in [Streams -> BoundedSession]
  BY DEF BatchInv, TypeInv, TypeOK, SessionTypeOK
<1>3. CASE Put(s, x, works)
  <2>1. y \in BoundedSession
    BY <1>1, EnqueuedType
  <2>2. Kept(session[s], y)
    BY InputKept DEF Kept
  <2>3. /\ session' = [session EXCEPT ![s] = IF k = 0 THEN y ELSE Notified(y)]
        /\ ready' = IF k = 0 THEN ready ELSE ReadyAfter(s, y)
        /\ k = 0 \/ ~NotifyRaises(y)
        /\ UNCHANGED <<sched, batch, active, produced>>
    BY <1>3 DEF Put, ReaderUnchanged
  <2> HIDE DEF k, y
  <2>4. CASE k = 0
    BY <2>2, <2>3, <2>4, QuietStep DEF Kept
  <2>5. CASE k # 0
    <3> DEFINE z == Notified(y)
    <3>1. /\ z.scheduled = (y.scheduled \/ Notifiable(y))
          /\ z.cache = y.cache /\ z.pending = y.pending
      BY <2>1, NotifiedKept
    <3>2. session' = [session EXCEPT ![s] = z] /\ ready' = ReadyAfter(s, y)
      BY <2>3, <2>5
    <3> HIDE DEF z
    <3>3. UNCHANGED ready \/ Queues(s)
      BY <1>2, <2>2, <3>1, <3>2 DEF ReadyAfter, Notifiable, Queues, Kept
    <3> QED
      BY <2>2, <2>3, <3>1, <3>2, <3>3, QuietStep DEF Kept
  <2> QED
    BY <2>4, <2>5
<1>4. CASE PutRaises(s, x, works)
  <2> DEFINE z == Enqueued(x, works, 1)
  <2>1. z \in BoundedSession
    <3>1. Room(x) \in Int /\ Len(works) \in Nat /\ k > 0
      BY <1>4, SessionAssumption DEF PutRaises, Room, BoundedSession, Session
    <3>2. 1 \in Nat /\ 1 <= Room(x) /\ 1 <= Len(works)
      BY <1>1, <3>1
    <3> QED
      BY <3>2, EnqueuedType
  <2>2. Kept(session[s], z)
    BY InputKept DEF Kept
  <2>3. ReaderFails(s, Notified(z), "internal") /\ UNCHANGED ready
    BY <1>4 DEF PutRaises
  <2> HIDE DEF z
  <2>4. /\ Notified(z) \in BoundedSession
        /\ session[s].scheduled => Notified(z).scheduled
        /\ Notified(z).cache = session[s].cache
        /\ Notified(z).pending = session[s].pending
    BY <2>1, <2>2, NotifiedType, NotifiedKept DEF Kept
  <2> QED
    BY <2>3, <2>4, ReaderFailsIntegrity
<1> QED
  BY <1>3, <1>4

LEMMA ReaderIntegrity ==
    ASSUME BatchInv, NEW s \in Streams, Reader(s)
    PROVE  QueuedOnce' /\ InFlightOnce' /\ CachesFollow' /\ AudioIsOwn'
<1> DEFINE x == session[s]
<1>1. x \in BoundedSession /\ toPut[s] \in Seq(ModelWork)
  BY DEF BatchInv, TypeInv, TypeOK, SessionTypeOK, ServiceTypeOK
<1> HIDE DEF x
<1>2. Kept(x, x)
  BY DEF Kept
<1>3. ASSUME NEW n \in 1..MaxAudioChunkSamples, AcceptAudio(s, n)
      PROVE  QueuedOnce' /\ InFlightOnce' /\ CachesFollow' /\ AudioIsOwn'
  <2>1. /\ Accept(x, n) \in BoundedSession /\ FullHops(x, n) \in Seq(ModelWork)
        /\ Kept(x, Accept(x, n))
    BY <1>1, RechunkType, InputKept
  <2> QED
    BY <1>3, <2>1, PutIntegrity DEF AcceptAudio, x
<1>4. ASSUME NEW n \in 1..MaxAudioChunkSamples, ChunkRefused(s, n)
      PROVE  QueuedOnce' /\ InFlightOnce' /\ CachesFollow' /\ AudioIsOwn'
  <2> DEFINE y == [x EXCEPT !.inputSamples = @ + n]
  <2>1. x.inputSamples + n \in Nat
    BY <1>1 DEF BoundedSession, Session
  <2>2. y \in BoundedSession /\ Kept(x, y)
    BY <1>1, <2>1, FieldType, InputKept
  <2>3. ReaderFails(s, y, "inputFull") /\ ReaderUnchanged /\ UNCHANGED ready
    BY <1>4 DEF ChunkRefused, x
  <2> HIDE DEF y
  <2> QED
    BY <2>2, <2>3, ReaderFailsIntegrity DEF Kept, x
<1>5. CASE ProtocolViolation(s) \/ IdleTimeout(s)
  BY <1>1, <1>5, ReaderFailsIntegrity DEF ProtocolViolation, IdleTimeout, x
<1>6. CASE EndWithoutFlush(s)
  <2>1. <<NoFlushWork>> \in Seq(ModelWork)
    BY DEF ModelWork
  <2> QED
    BY <1>1, <1>2, <1>6, <2>1, PutIntegrity DEF EndWithoutFlush, x
<1>7. CASE EndWithFlush(s)
  <2>1. /\ FlushPartial(x) \in BoundedSession /\ TerminalWorks(x) \in Seq(ModelWork)
        /\ Kept(x, FlushPartial(x))
    BY <1>1, FlushType, InputKept
  <2> QED
    BY <1>7, <2>1, PutIntegrity DEF EndWithFlush, x
<1>8. CASE EndEmptyStream(s)
  <2>1. Kept(x, Complete(x, TRUE))
    BY <1>1, OutputKept
  <2>2. /\ session' = [session EXCEPT ![s] = Complete(x, TRUE)]
        /\ UNCHANGED <<ready, sched, batch, active, produced>>
    BY <1>8 DEF EndEmptyStream, ReaderUnchanged, x
  <2> QED
    BY <2>1, <2>2, QuietStep DEF Kept, x
<1>9. CASE ResumePut(s)
  BY <1>1, <1>2, <1>9, PutIntegrity DEF ResumePut, x
<1>10. CASE HalfClose(s)
  BY <1>10, IdleStep DEF HalfClose, schedVars
<1> QED
  BY <1>3, <1>4, <1>5, <1>6, <1>7, <1>8, <1>9, <1>10 DEF Reader

-----------------------------------------------------------------------------
(* The scheduler's steps. *)

LEMMA TailElements ==
    ASSUME NEW S, NEW q \in Seq(S), q # <<>>
    PROVE  /\ Len(q) \in Nat \ {0} /\ DOMAIN q = 1..Len(q)
           /\ q[1] = Head(q) /\ Head(q) \in S
           /\ Tail(q) \in Seq(S)
           /\ DOMAIN Tail(q) = 1..(Len(q) - 1)
           /\ \A i \in DOMAIN Tail(q) : Tail(q)[i] = q[i + 1] /\ i + 1 \in DOMAIN q /\ i + 1 # 1
OBVIOUS

LEMMA AppendElements ==
    ASSUME NEW S, NEW q \in Seq(S), NEW e \in S
    PROVE  /\ Len(q) \in Nat /\ DOMAIN q = 1..Len(q)
           /\ DOMAIN Append(q, e) = 1..(Len(q) + 1)
           /\ Append(q, e)[Len(q) + 1] = e
           /\ \A i \in DOMAIN q : Append(q, e)[i] = q[i]
           /\ \A i \in DOMAIN Append(q, e) : i \in DOMAIN q \/ i = Len(q) + 1
OBVIOUS

\* A stream moves from the ready queue into the batch, while nothing is in
\* flight.
LEMMA TakeIntegrity ==
    ASSUME BatchInv, TakeFirst \/ TakeMore
    PROVE  QueuedOnce' /\ InFlightOnce' /\ CachesFollow' /\ AudioIsOwn'
<1>1. /\ ready \in Seq(Streams) /\ batch \in Seq(Streams) /\ ready # <<>>
      /\ active = <<>> /\ active' = <<>> /\ ready' = Tail(ready)
      /\ UNCHANGED <<session, produced>>
  BY DEF BatchInv, TypeInv, TypeOK, SchedulerTypeOK, LoopShape, TakeFirst, TakeMore
<1>2. batch' = Append(batch, Head(ready))
  <2>1. CASE TakeFirst
    <3>1. batch = <<>> /\ batch' = <<Head(ready)>>
      BY <2>1 DEF BatchInv, TypeInv, LoopShape, TakeFirst
    <3>2. Head(ready) \in Streams
      BY <1>1
    <3> QED
      BY <3>1, <3>2
  <2>2. CASE TakeMore
    BY <2>2 DEF TakeMore
  <2> QED
    BY <2>1, <2>2
<1> DEFINE n == Len(batch) + 1
           s == Head(ready)
<1>3. /\ s \in Streams /\ s = ready[1] /\ 1 \in DOMAIN ready
      /\ \A i \in DOMAIN ready' : ready'[i] = ready[i + 1] /\ i + 1 \in DOMAIN ready /\ i \in Int
                                /\ i + 1 # 1
  BY <1>1, TailElements
<1>4. /\ batch'[n] = s
      /\ \A i \in DOMAIN batch : batch'[i] = batch[i]
      /\ \A i \in DOMAIN batch' : i \in DOMAIN batch \/ i = n
  BY <1>1, <1>2, <1>3, AppendElements
<1> HIDE DEF n, s
<1>5. /\ \A i, j \in DOMAIN ready : ready[i] = ready[j] => i = j
      /\ \A i, j \in DOMAIN batch : batch[i] = batch[j] => i = j
      /\ \A i \in DOMAIN ready, j \in DOMAIN batch : ready[i] # batch[j]
      /\ \A i \in DOMAIN ready : session[ready[i]].scheduled
      /\ \A i \in DOMAIN batch : session[batch[i]].scheduled
  BY DEF BatchInv, QueuedOnce, Distinct
<1>6. \A i, j \in DOMAIN ready' : ready'[i] = ready'[j] => i = j
  BY <1>3, <1>5
<1>7. \A i, j \in DOMAIN batch' : batch'[i] = batch'[j] => i = j
  BY <1>3, <1>4, <1>5
<1>8. \A i \in DOMAIN ready', j \in DOMAIN batch' : ready'[i] # batch'[j]
  BY <1>3, <1>4, <1>5
<1>9. /\ \A i \in DOMAIN ready' : session'[ready'[i]].scheduled
      /\ \A i \in DOMAIN batch' : session'[batch'[i]].scheduled
  BY <1>1, <1>3, <1>4, <1>5
<1>10. QueuedOnce'
  BY <1>6, <1>7, <1>8, <1>9 DEF QueuedOnce, Distinct
<1>11. InFlightOnce' /\ CachesFollow' /\ AudioIsOwn'
  BY <1>1 DEF BatchInv, InFlightOnce, CachesFollow, AudioIsOwn
<1> QED
  BY <1>10, <1>11

\* The head of the batch is dispatched or skipped; nothing but its flag and,
\* when the stream is completed, its pending hop changes.
LEMMA DispatchIntegrity ==
    ASSUME BatchInv, sched \in {"collect", "dispatch"}, NEW y,
           session' = [session EXCEPT ![NextToDispatch] = y],
           y.cache = session[NextToDispatch].cache,
           y.pending = session[NextToDispatch].pending \/ y.pending = None,
           NEW entries, AfterDispatch(entries),
           \/ entries = active
           \/ \E e \in ActiveEntry : /\ entries = Append(active, e)
                                     /\ e.stream = NextToDispatch
                                     /\ e.cache = session[NextToDispatch].cache
    PROVE  QueuedOnce' /\ InFlightOnce' /\ CachesFollow' /\ AudioIsOwn'
<1> DEFINE s == NextToDispatch
<1>1. /\ session \in [Streams -> BoundedSession] /\ active \in Seq(ActiveEntry)
      /\ batch \in Seq(Streams) /\ batch # <<>> /\ ready \in Seq(Streams)
  BY DEF BatchInv, TypeInv, TypeOK, SessionTypeOK, SchedulerTypeOK, LoopShape
<1>2. /\ s \in Streams /\ s = batch[1] /\ 1 \in DOMAIN batch
      /\ \A i \in DOMAIN Tail(batch) :
            /\ Tail(batch)[i] = batch[i + 1] /\ i + 1 \in DOMAIN batch /\ i \in Int
            /\ i + 1 # 1
  BY <1>1, TailElements DEF NextToDispatch
<1>3. /\ batch' = Tail(batch) /\ active' = entries /\ UNCHANGED <<ready, produced>>
      /\ sched # "distribute" /\ sched' # "distribute"
  BY DEF AfterDispatch
<1>4. \A t \in Streams : session'[t] = IF t = s THEN y ELSE session[t]
  BY <1>1
<1> HIDE DEF s
<1>5. /\ \A i, j \in DOMAIN ready : ready[i] = ready[j] => i = j
      /\ \A i, j \in DOMAIN batch : batch[i] = batch[j] => i = j
      /\ \A i \in DOMAIN ready, j \in DOMAIN batch : ready[i] # batch[j]
      /\ \A i \in DOMAIN ready : session[ready[i]].scheduled
      /\ \A i \in DOMAIN batch : session[batch[i]].scheduled
  BY DEF BatchInv, QueuedOnce, Distinct
<1>6. /\ \A i \in DOMAIN ready : ready[i] # s /\ ready[i] \in Streams
      /\ \A i \in DOMAIN batch' : batch'[i] # s /\ batch'[i] \in Streams
  BY <1>1, <1>2, <1>3, <1>5
<1>7. QueuedOnce'
  <2>1. \A i, j \in DOMAIN batch' : batch'[i] = batch'[j] => i = j
    BY <1>2, <1>3, <1>5
  <2>2. \A i \in DOMAIN ready, j \in DOMAIN batch' : ready[i] # batch'[j]
    BY <1>2, <1>3, <1>5
  <2>3. /\ \A i \in DOMAIN ready : session'[ready[i]].scheduled
        /\ \A i \in DOMAIN batch' : session'[batch'[i]].scheduled
    BY <1>2, <1>3, <1>4, <1>5, <1>6
  <2> QED
    BY <1>3, <1>5, <2>1, <2>2, <2>3 DEF QueuedOnce, Distinct
<1>8. /\ \A i \in DOMAIN active : /\ active[i].stream \in Streams
                                 /\ active[i].stream # s
                                 /\ active[i].cache = session[active[i].stream].cache
      /\ \A i, j \in DOMAIN active : active[i].stream = active[j].stream => i = j
      /\ \A i \in DOMAIN batch, j \in DOMAIN active : batch[i] # active[j].stream
  <2>1. \A i \in DOMAIN active : active[i].stream \in Streams
    BY <1>1, EntryTypes
  <2> QED
    BY <1>2, <1>3, <2>1 DEF BatchInv, InFlightOnce, CachesFollow
<1>9. \A t \in Streams : /\ session'[t].cache = session[t].cache
                         /\ \/ session'[t].pending = session[t].pending
                            \/ session'[t].pending = None
  BY <1>4 DEF s
<1>10. \A t \in Streams :
          session'[t].pending # None =>
             session'[t].cache = [stream |-> t, start |-> session'[t].pending.start]
  BY <1>9 DEF BatchInv, CachesFollow
<1>11. CASE entries = active
  <2>1. InFlightOnce'
    BY <1>2, <1>3, <1>8, <1>11 DEF InFlightOnce
  <2>2. CachesFollow'
    BY <1>3, <1>8, <1>9, <1>10, <1>11 DEF CachesFollow
  <2> QED
    BY <1>3, <1>7, <2>1, <2>2 DEF BatchInv, AudioIsOwn
<1>12. ASSUME NEW e \in ActiveEntry, entries = Append(active, e), e.stream = s,
              e.cache = session[s].cache
       PROVE  QueuedOnce' /\ InFlightOnce' /\ CachesFollow' /\ AudioIsOwn'
  <2> DEFINE n == Len(active) + 1
  <2>1. /\ active'[n] = e
        /\ \A i \in DOMAIN active : active'[i] = active[i]
        /\ \A i \in DOMAIN active' : i \in DOMAIN active \/ i = n
    BY <1>1, <1>3, <1>12, AppendElements
  <2> HIDE DEF n
  <2>2. InFlightOnce'
    <3>1. \A i, j \in DOMAIN active' : active'[i].stream = active'[j].stream => i = j
      BY <1>8, <1>12, <2>1
    <3>2. \A i \in DOMAIN batch', j \in DOMAIN active' : batch'[i] # active'[j].stream
      BY <1>2, <1>3, <1>6, <1>8, <1>12, <2>1
    <3> QED
      BY <3>1, <3>2 DEF InFlightOnce
  <2>3. \A i \in DOMAIN active' : active'[i].cache = session'[active'[i].stream].cache
    BY <1>2, <1>8, <1>9, <1>12, <2>1
  <2>4. CachesFollow'
    BY <1>3, <1>10, <2>3 DEF CachesFollow
  <2> QED
    BY <1>3, <1>7, <2>2, <2>4 DEF BatchInv, AudioIsOwn
<1> QED
  BY <1>11, <1>12 DEF s

LEMMA DispatchSteps ==
    ASSUME BatchInv, DispatchSkip \/ DispatchNoFlush \/ DispatchWork
    PROVE  QueuedOnce' /\ InFlightOnce' /\ CachesFollow' /\ AudioIsOwn'
<1> DEFINE s == NextToDispatch
           x == session[s]
           d == Dequeued(x)
<1>1. s \in Streams /\ x \in BoundedSession
  BY DispatchedStream DEF BatchInv, DispatchSkip, DispatchNoFlush, DispatchWork
<1>2. /\ Unscheduled(x).cache = x.cache /\ Unscheduled(x).pending = x.pending
      /\ d.cache = x.cache /\ d.pending = x.pending
  BY <1>1 DEF Unscheduled, Dequeued, BoundedSession, Session
<1>3. CASE DispatchSkip
  <2> DEFINE y == Unscheduled(x)
  <2>1. /\ session' = [session EXCEPT ![s] = y] /\ AfterDispatch(active)
        /\ sched \in {"collect", "dispatch"}
    BY <1>3 DEF DispatchSkip
  <2>2. y.cache = x.cache /\ y.pending = x.pending
    BY <1>2
  <2> HIDE DEF y
  <2> QED
    BY <2>1, <2>2, DispatchIntegrity
<1>4. CASE DispatchNoFlush
  <2> DEFINE p == [d EXCEPT !.pending = None]
             y == Complete(p, FALSE)
  <2>1. d \in BoundedSession
    BY <1>1, <1>4, DequeuedType DEF DispatchNoFlush, NothingToDispatch
  <2> HIDE DEF d
  <2>2. p \in BoundedSession /\ p.cache = d.cache /\ p.pending = None
    BY <2>1 DEF BoundedSession, Session
  <2> HIDE DEF p
  <2>3. y.cache = d.cache /\ y.pending = None
    BY <2>2, OutputKept DEF Kept
  <2>4. /\ session' = [session EXCEPT ![s] = y] /\ AfterDispatch(active)
        /\ sched \in {"collect", "dispatch"}
    BY <1>4 DEF DispatchNoFlush, CompleteWithoutFlush, d, p
  <2> HIDE DEF y
  <2> QED
    BY <1>2, <2>3, <2>4, DispatchIntegrity
<1>5. CASE DispatchWork
  <2> DEFINE e == [stream |-> s, work |-> Head(x.inq), wav |-> None, cache |-> x.cache]
  <2>1. d \in BoundedSession /\ Head(x.inq) \in ModelWork
    BY <1>1, <1>5, DequeuedType DEF DispatchWork, NothingToDispatch
  <2>2. e \in ActiveEntry /\ e.stream = s /\ e.cache = x.cache
    <3>1. x.cache \in CacheContent /\ None \in CacheContent
      BY <1>1 DEF BoundedSession, Session, CacheContent
    <3> QED
      BY <1>1, <2>1, <3>1 DEF ActiveEntry
  <2>3. /\ session' = [session EXCEPT ![s] = d]
        /\ AfterDispatch(Append(active, e))
        /\ sched \in {"collect", "dispatch"}
    BY <1>5 DEF DispatchWork
  <2> HIDE DEF e, d
  <2> QED
    BY <1>2, <2>2, <2>3, DispatchIntegrity
<1> QED
  BY <1>3, <1>4, <1>5

\* The model answers, one result for one batch element.
LEMMA InferenceDoneIntegrity ==
    ASSUME BatchInv, InferenceDone
    PROVE  QueuedOnce' /\ InFlightOnce' /\ CachesFollow' /\ AudioIsOwn'
<1>1. /\ active \in Seq(ActiveEntry) /\ active' = InferBatch(active)
      /\ sched # "distribute" /\ sched' = "distribute"
      /\ UNCHANGED <<session, ready, batch, produced>>
  BY DEF BatchInv, TypeInv, TypeOK, SchedulerTypeOK, InferenceDone
<1>2. DOMAIN active = 1..Len(active) /\ DOMAIN active' = DOMAIN active
  <2>1. DOMAIN active = 1..Len(active)
    BY <1>1
  <2>2. DOMAIN InferBatch(active) = DOMAIN active
    BY DEF InferBatch
  <2> QED
    BY <1>1, <2>1, <2>2
<1>3. \A i \in DOMAIN active :
         /\ active'[i].stream = active[i].stream
         /\ active'[i].wav = active[i].cache
         /\ active'[i].cache = Absorbed(active[i])
         /\ active'[i].work = active[i].work
  <2> SUFFICES ASSUME NEW i \in DOMAIN active
               PROVE  /\ active'[i].stream = active[i].stream
                      /\ active'[i].wav = active[i].cache
                      /\ active'[i].cache = Absorbed(active[i])
                      /\ active'[i].work = active[i].work
    OBVIOUS
  <2>1. active'[i] = [active[i] EXCEPT !.wav = active[i].cache, !.cache = Absorbed(active[i])]
    BY <1>1, <1>2, InferBatchType
  <2>2. active[i] \in ActiveEntry
    BY <1>1, EntryTypes
  <2> QED
    BY <2>1, <2>2 DEF ActiveEntry
<1>4. \A i \in DOMAIN active : Absorbed(active'[i]) = Absorbed(active[i])
  BY <1>3 DEF Absorbed
<1>5. QueuedOnce' /\ AudioIsOwn'
  BY <1>1 DEF BatchInv, QueuedOnce, Distinct, AudioIsOwn
<1>6. InFlightOnce'
  BY <1>1, <1>2, <1>3 DEF BatchInv, InFlightOnce
<1>7. CachesFollow'
  BY <1>1, <1>2, <1>3, <1>4 DEF BatchInv, CachesFollow
<1> QED
  BY <1>5, <1>6, <1>7

\* What a source hop leaves in the caches is the hop that then is pending.
LEMMA AbsorbedIsPending ==
    ASSUME NEW e \in ActiveEntry, SourceOf(e.work) # None
    PROVE  Absorbed(e) = [stream |-> e.stream, start |-> SourceOf(e.work).start]
BY DEF SourceOf, Absorbed

\* The head of the batch in flight is dealt with: its stream's caches stay as
\* they are, or become what the model returned with the hop it absorbed.
LEMMA ReturnIntegrity ==
    ASSUME BatchInv, sched \in {"distribute", "failing"},
           NEW y, session' = [session EXCEPT ![Returned.stream] = y],
           session[Returned.stream].scheduled => y.scheduled,
           \/ /\ y.cache = session[Returned.stream].cache
              /\ y.pending = session[Returned.stream].pending
           \/ /\ sched = "distribute"
              /\ y.cache = Returned.cache
              /\ y.pending = SourceOf(Returned.work),
           UNCHANGED batch,
           UNCHANGED ready \/ Queues(Returned.stream),
           \/ /\ active' = Tail(active)
              /\ sched' = IF Len(active) > 1 THEN sched ELSE "idle"
           \/ active' = <<>>
    PROVE  QueuedOnce' /\ InFlightOnce' /\ CachesFollow'
<1> DEFINE s == Returned.stream
<1>1. /\ session \in [Streams -> BoundedSession] /\ active \in Seq(ActiveEntry)
      /\ active # <<>> /\ batch = <<>>
      /\ s \in Streams /\ Returned \in ActiveEntry
  BY ReturnedType DEF BatchInv, TypeInv, TypeOK, SessionTypeOK, SchedulerTypeOK, LoopShape
<1>2. /\ 1 \in DOMAIN active /\ Returned = active[1]
      /\ \A i \in DOMAIN Tail(active) :
            /\ Tail(active)[i] = active[i + 1] /\ i + 1 \in DOMAIN active /\ i \in Int
            /\ i + 1 # 1
      /\ DOMAIN Tail(active) = 1..(Len(active) - 1) /\ Len(active) \in Nat
  BY <1>1, TailElements DEF Returned
<1>3. \A t \in Streams : session'[t] = IF t = s THEN y ELSE session[t]
  BY <1>1
<1>4. QueuedOnce'
  <2>1. \A t \in Streams : session[t].scheduled => session'[t].scheduled
    BY <1>3
  <2> QED
    BY <1>1, <2>1, QueuedOnceStays DEF BatchInv
<1>5. InFlightOnce'
  <2>1. \A i, j \in DOMAIN active : active[i].stream = active[j].stream => i = j
    BY DEF BatchInv, InFlightOnce
  <2>2. \A i, j \in DOMAIN Tail(active) :
           Tail(active)[i].stream = Tail(active)[j].stream => i = j
    BY <1>2, <2>1
  <2>3. DOMAIN batch' = {} /\ DOMAIN <<>> = {}
    BY <1>1
  <2>4. CASE active' = Tail(active)
    BY <2>2, <2>3, <2>4 DEF InFlightOnce
  <2>5. CASE active' = <<>>
    BY <2>3, <2>5 DEF InFlightOnce
  <2> QED
    BY <2>4, <2>5
<1>6. \A t \in Streams :
         session'[t].pending # None =>
            session'[t].cache = [stream |-> t, start |-> session'[t].pending.start]
  <2>1. \A t \in Streams \ {s} :
           session'[t].pending # None =>
              session'[t].cache = [stream |-> t, start |-> session'[t].pending.start]
    BY <1>3 DEF BatchInv, CachesFollow
  <2>2. y.pending # None => y.cache = [stream |-> s, start |-> y.pending.start]
    <3>1. CASE y.cache = session[s].cache /\ y.pending = session[s].pending
      BY <1>1, <3>1 DEF BatchInv, CachesFollow
    <3>2. CASE /\ sched = "distribute"
               /\ y.cache = Returned.cache /\ y.pending = SourceOf(Returned.work)
      <4>1. Returned.cache = Absorbed(Returned)
        BY <1>2, <3>2 DEF BatchInv, CachesFollow
      <4> QED
        BY <1>1, <3>2, <4>1, AbsorbedIsPending
    <3> QED
      BY <3>1, <3>2
  <2> QED
    BY <1>1, <1>3, <2>1, <2>2
<1> HIDE DEF s
<1>7. \A i \in DOMAIN Tail(active) :
         /\ Tail(active)[i].stream \in Streams
         /\ session'[Tail(active)[i].stream] = session[Tail(active)[i].stream]
  <2> SUFFICES ASSUME NEW i \in DOMAIN Tail(active)
               PROVE  /\ Tail(active)[i].stream \in Streams
                      /\ session'[Tail(active)[i].stream] = session[Tail(active)[i].stream]
    OBVIOUS
  <2>1. Tail(active)[i] = active[i + 1] /\ i + 1 \in DOMAIN active /\ i + 1 # 1
    BY <1>2
  <2>2. active[i + 1].stream \in Streams
    BY <1>1, <2>1, EntryTypes
  <2>3. active[i + 1].stream # s
    BY <1>2, <2>1 DEF BatchInv, InFlightOnce, s
  <2> QED
    BY <1>3, <2>1, <2>2, <2>3
<1>8. CachesFollow'
  <2>1. CASE active' = <<>>
    BY <1>6, <2>1 DEF CachesFollow
  <2>2. CASE /\ active' = Tail(active)
             /\ sched' = IF Len(active) > 1 THEN sched ELSE "idle"
    <3>1. \A i \in DOMAIN Tail(active) : sched' = sched
      BY <1>2, <2>2
    <3>2. \A i \in DOMAIN Tail(active) :
             IF sched = "distribute"
             THEN /\ Tail(active)[i].wav = session[Tail(active)[i].stream].cache
                  /\ Tail(active)[i].cache = Absorbed(Tail(active)[i])
             ELSE Tail(active)[i].cache = session[Tail(active)[i].stream].cache
      <4>1. \A i \in DOMAIN active :
               IF sched = "distribute"
               THEN /\ active[i].wav = session[active[i].stream].cache
                    /\ active[i].cache = Absorbed(active[i])
               ELSE active[i].cache = session[active[i].stream].cache
        BY DEF BatchInv, CachesFollow
      <4> QED
        BY <1>2, <4>1
    <3>3. \A i \in DOMAIN active' :
             IF sched' = "distribute"
             THEN /\ active'[i].wav = session'[active'[i].stream].cache
                  /\ active'[i].cache = Absorbed(active'[i])
             ELSE active'[i].cache = session'[active'[i].stream].cache
      BY <1>7, <2>2, <3>1, <3>2
    <3> QED
      BY <1>6, <3>3 DEF CachesFollow, Absorbed
  <2> QED
    BY <2>1, <2>2
<1> QED
  BY <1>4, <1>5, <1>8

\* A stream that was cancelled or ended, or whose inference failed, or whose
\* output queue is full, gets no audio.
LEMMA NothingDelivered ==
    ASSUME BatchInv, FailEntry \/ DistributeSkip \/ DistributeOverflow
    PROVE  QueuedOnce' /\ InFlightOnce' /\ CachesFollow' /\ AudioIsOwn'
<1> DEFINE s == Returned.stream
           x == session[s]
<1>1. /\ s \in Streams /\ x \in BoundedSession /\ Returned \in ActiveEntry
      /\ session \in [Streams -> BoundedSession]
  BY ReturnedType DEF BatchInv, TypeInv, TypeOK, SessionTypeOK,
                      FailEntry, DistributeSkip, DistributeOverflow
<1>2. UNCHANGED <<ready, batch, produced>>
  BY DEF FailEntry, DistributeSkip, DistributeOverflow
<1>3. AudioIsOwn'
  BY <1>2 DEF BatchInv, AudioIsOwn
<1>4. /\ active' = Tail(active)
      /\ sched' = IF Len(active) > 1 THEN sched ELSE "idle"
  BY DEF FailEntry, DistributeSkip, DistributeOverflow, AfterDistribute
<1>5. CASE FailEntry
  <2> DEFINE y == Fail(x, "inference")
  <2>1. Kept(x, y)
    BY <1>1, OutputKept
  <2>2. session' = [session EXCEPT ![s] = y] /\ sched \in {"distribute", "failing"}
    BY <1>5 DEF FailEntry, Returned
  <2> HIDE DEF y
  <2> QED
    BY <1>2, <1>3, <1>4, <2>1, <2>2, ReturnIntegrity DEF Kept
<1>6. CASE DistributeSkip
  <2>1. session' = [session EXCEPT ![s] = x] /\ sched \in {"distribute", "failing"}
    BY <1>1, <1>6 DEF DistributeSkip
  <2> QED
    BY <1>2, <1>3, <1>4, <2>1, ReturnIntegrity
<1>7. CASE DistributeOverflow
  <2> DEFINE a == Advance(x, Returned)
             y == Fail(a, "outputFull")
  <2>1. /\ a \in BoundedSession /\ a.scheduled = x.scheduled
        /\ a.cache = Returned.cache /\ a.pending = SourceOf(Returned.work)
    BY <1>1, AdvanceType DEF Advance, BoundedSession, Session
  <2>2. session' = [session EXCEPT ![s] = y] /\ sched = "distribute"
    BY <1>7 DEF DistributeOverflow
  <2> HIDE DEF a
  <2>3. Kept(a, y)
    BY <2>1, OutputKept
  <2> HIDE DEF y
  <2> QED
    BY <1>2, <1>3, <1>4, <2>1, <2>2, <2>3, ReturnIntegrity DEF Kept
<1> QED
  BY <1>5, <1>6, <1>7

\* The audio that is delivered for the pending hop was computed from it.
LEMMA DeliveredIsOwn ==
    ASSUME BatchInv, sched = "distribute",
           RecordProduced(Returned.stream, session[Returned.stream])
    PROVE  AudioIsOwn'
<1> DEFINE s == Returned.stream
           x == session[s]
           e == Enhanced(x, Returned)
<1>1. s \in Streams /\ produced \in [Streams -> Seq(EnhancedHop)]
  BY ReturnedType DEF BatchInv, TypeInv, TypeOK, SchedulerTypeOK
<1>2. CASE x.pending = None
  BY <1>2 DEF BatchInv, AudioIsOwn, RecordProduced
<1>3. CASE x.pending # None
  <2>1. Returned.wav = x.cache
    <3>1. active \in Seq(ActiveEntry) /\ active # <<>>
      BY DEF BatchInv, TypeInv, TypeOK, SchedulerTypeOK, LoopShape
    <3>2. 1 \in DOMAIN active /\ Returned = active[1]
      BY <3>1, TailElements DEF Returned
    <3> QED
      BY <3>2 DEF BatchInv, CachesFollow
  <2>2. x.cache = [stream |-> s, start |-> x.pending.start]
    BY <1>1, <1>3 DEF BatchInv, CachesFollow
  <2>3. e.heard = [stream |-> s, start |-> e.start]
    BY <2>1, <2>2 DEF Enhanced
  <2>4. produced' = [produced EXCEPT ![s] = Append(@, e)]
    BY <1>3 DEF RecordProduced
  <2> HIDE DEF s, e
  <2>5. \A t \in Streams : produced'[t] = IF t = s THEN Append(produced[s], e) ELSE produced[t]
    BY <1>1, <2>4
  <2>6. \A i \in DOMAIN Append(produced[s], e) :
           \/ i \in DOMAIN produced[s] /\ Append(produced[s], e)[i] = produced[s][i]
           \/ Append(produced[s], e)[i] = e
    BY <1>1
  <2>7. \A t \in Streams : \A i \in DOMAIN produced[t] :
           produced[t][i].heard = [stream |-> t, start |-> produced[t][i].start]
    BY DEF BatchInv, AudioIsOwn
  <2>8. \A i \in DOMAIN Append(produced[s], e) :
           Append(produced[s], e)[i].heard =
              [stream |-> s, start |-> Append(produced[s], e)[i].start]
    BY <1>1, <2>3, <2>6, <2>7
  <2>9. \A t \in Streams : \A i \in DOMAIN produced'[t] :
           produced'[t][i].heard = [stream |-> t, start |-> produced'[t][i].start]
    BY <2>5, <2>7, <2>8
  <2> QED
    BY <2>9 DEF AudioIsOwn
<1> QED
  BY <1>2, <1>3

LEMMA DeliveryIntegrity ==
    ASSUME BatchInv, DistributeFlush \/ DistributeHop \/ DistributeDies
    PROVE  QueuedOnce' /\ InFlightOnce' /\ CachesFollow' /\ AudioIsOwn'
<1> DEFINE s == Returned.stream
           x == session[s]
           d == Deliver(x, Returned)
<1>1. /\ sched = "distribute" /\ Deliverable(x) /\ RecordProduced(s, x)
      /\ UNCHANGED batch
  BY DEF DistributeFlush, DistributeHop, DistributeDies
<1>2. s \in Streams /\ x \in BoundedSession /\ Returned \in ActiveEntry
  BY <1>1, ReturnedType DEF BatchInv
<1>3. AudioIsOwn'
  BY <1>1, DeliveredIsOwn
<1>4. /\ d \in BoundedSession /\ d.scheduled = x.scheduled
      /\ d.cache = Returned.cache /\ d.pending = SourceOf(Returned.work)
  BY <1>1, <1>2, DeliverType, DeliverKept
<1>5. session \in [Streams -> BoundedSession]
  BY DEF BatchInv, TypeInv, TypeOK, SessionTypeOK
<1>6. CASE DistributeFlush
  <2> DEFINE y == Complete(d, TRUE)
  <2>1. /\ session' = [session EXCEPT ![s] = y] /\ UNCHANGED ready
        /\ active' = Tail(active)
        /\ sched' = IF Len(active) > 1 THEN sched ELSE "idle"
    BY <1>6 DEF DistributeFlush, AfterDistribute
  <2> HIDE DEF d
  <2>2. Kept(d, y)
    BY <1>4, OutputKept
  <2> HIDE DEF y
  <2> QED
    BY <1>1, <1>3, <1>4, <2>1, <2>2, ReturnIntegrity DEF Kept
<1>7. CASE DistributeHop \/ DistributeDies
  <2> DEFINE y == Notified(d)
  <2>1. /\ session' = [session EXCEPT ![s] = y]
        /\ ready' = ReadyAfter(s, d) \/ UNCHANGED ready
        /\ \/ /\ active' = Tail(active)
              /\ sched' = IF Len(active) > 1 THEN sched ELSE "idle"
           \/ active' = <<>>
    BY <1>7 DEF DistributeHop, DistributeDies, AfterDistribute
  <2> HIDE DEF d
  <2>2. /\ y.scheduled = (d.scheduled \/ Notifiable(d))
        /\ y.cache = d.cache /\ y.pending = d.pending
    BY <1>4, NotifiedKept
  <2> HIDE DEF y
  <2>3. session'[s] = y
    BY <1>2, <1>5, <2>1
  <2>4. UNCHANGED ready \/ Queues(s)
    BY <1>4, <2>1, <2>2, <2>3 DEF ReadyAfter, Notifiable, Queues
  <2> QED
    BY <1>1, <1>3, <1>4, <2>1, <2>2, <2>4, ReturnIntegrity
<1> QED
  BY <1>6, <1>7

LEMMA SchedulerIntegrity ==
    ASSUME BatchInv, SchedulerStep
    PROVE  QueuedOnce' /\ InFlightOnce' /\ CachesFollow' /\ AudioIsOwn'
<1>1. CASE InferenceFails
  <2>1. /\ UNCHANGED <<session, ready, batch, active, produced>>
        /\ sched # "distribute" /\ sched' # "distribute"
    BY <1>1 DEF InferenceFails
  <2> QED
    BY <2>1 DEF BatchInv, QueuedOnce, InFlightOnce, CachesFollow, AudioIsOwn, Distinct
<1> QED
  BY <1>1, TakeIntegrity, DispatchSteps, InferenceDoneIntegrity, NothingDelivered,
     DeliveryIntegrity DEF SchedulerStep, RunStep

\* Closing the scheduler forgets the batch.
LEMMA ShutdownIntegrity ==
    ASSUME BatchInv, Shutdown
    PROVE  QueuedOnce' /\ InFlightOnce' /\ CachesFollow' /\ AudioIsOwn'
<1>1. /\ batch' = <<>> /\ active' = <<>>
      /\ UNCHANGED <<session, ready, produced>>
  BY DEF Shutdown, CloseScheduler
<1> QED
  BY <1>1 DEF BatchInv, QueuedOnce, InFlightOnce, CachesFollow, AudioIsOwn, Distinct

-----------------------------------------------------------------------------

LEMMA InitIntegrity == Init => BatchInv
<1> SUFFICES ASSUME Init PROVE BatchInv
  OBVIOUS
<1>1. /\ ready = <<>> /\ batch = <<>> /\ active = <<>>
      /\ session = [s \in Streams |-> FreshSession]
      /\ produced = [s \in Streams |-> <<>>]
  BY DEF Init, SchedulerInit
<1>2. QueuedOnce /\ InFlightOnce
  BY <1>1 DEF QueuedOnce, InFlightOnce, Distinct
<1>3. CachesFollow /\ AudioIsOwn
  BY <1>1 DEF CachesFollow, AudioIsOwn, FreshSession
<1> QED
  BY <1>2, <1>3, InitType DEF BatchInv

LEMMA NextIntegrity ==
    ASSUME BatchInv, [Next]_vars
    PROVE  BatchInv'
<1>1. TypeInv'
  BY NextType DEF BatchInv
<1>2. CASE SchedulerStep
  BY <1>1, <1>2, SchedulerIntegrity DEF BatchInv
<1>3. ASSUME NEW s \in Streams, Handler(s) PROVE BatchInv'
  BY <1>1, <1>3, HandlerIntegrity DEF BatchInv
<1>4. ASSUME NEW s \in Streams, Reader(s) PROVE BatchInv'
  BY <1>1, <1>4, ReaderIntegrity DEF BatchInv
<1>5. CASE StopServer \/ UNCHANGED vars
  <2>1. UNCHANGED <<session, ready, sched, batch, active, produced>>
    BY <1>5 DEF StopServer, vars, schedVars
  <2> QED
    BY <1>1, <2>1, IdleStep DEF BatchInv
<1>6. CASE Shutdown
  BY <1>1, <1>6, ShutdownIntegrity DEF BatchInv
<1> QED
  BY <1>2, <1>3, <1>4, <1>5, <1>6 DEF Next

\* A stream waits at most once for a batch, in the ready queue or collected,
\* and never has two hops in flight, for any interleaving of the scheduler with
\* the readers that notify it.
THEOREM EveryStreamWaitsOnce == Spec => []WaitsOnce
<1>1. BatchInv => WaitsOnce
  BY WaitsOnceHalves DEF BatchInv
<1>2. BatchInv /\ [Next]_vars => BatchInv'
  BY NextIntegrity
<1> QED
  BY <1>1, <1>2, InitIntegrity, PTL DEF Spec

\* Whatever batches the hops of a stream travel in, audio labelled with a hop
\* was computed from that hop of that stream.
THEOREM EveryStreamHearsItself == Spec => []AudioIsOwn
<1>1. BatchInv => AudioIsOwn
  BY DEF BatchInv
<1>2. BatchInv /\ [Next]_vars => BatchInv'
  BY NextIntegrity
<1> QED
  BY <1>1, <1>2, InitIntegrity, PTL DEF Spec

-----------------------------------------------------------------------------
(* No stream is forgotten (scheduler.py: notify, _dispatch, _distribute).      *)
(* NoLostWakeup is inductive together with what a closed scheduler is.         *)

ClosedIsStopped == closing => ~Running
WakeupInv == NoLostWakeup /\ ClosedIsStopped

\* What NoLostWakeup says of the next state, for a stream whose session is y.
WaitsNext(s) == s \in Elements(ready') \cup Elements(batch')
FliesNext(s) == \E i \in DOMAIN active' : active'[i].stream = s
AwakeNext(s, y) ==
    /\ y.scheduled /\ ~y.cancelled => WaitsNext(s)
    /\ y.inq # <<>> /\ ~y.cancelled /\ ~y.ended => y.scheduled \/ FliesNext(s)

\* A stream that is not the head of a list stays in it when the head leaves.
LEMMA NotTheHead ==
    ASSUME NEW S, NEW q \in Seq(S), q # <<>>, NEW i \in DOMAIN q, q[i] # Head(q)
    PROVE  \E j \in DOMAIN Tail(q) : Tail(q)[j] = q[i]
<1>1. /\ Len(q) \in Nat \ {0} /\ DOMAIN q = 1..Len(q) /\ q[1] = Head(q)
      /\ DOMAIN Tail(q) = 1..(Len(q) - 1)
  BY TailElements
<1>2. i - 1 \in DOMAIN Tail(q)
  BY <1>1
<1>3. Tail(q)[i - 1] = q[(i - 1) + 1]
  BY <1>2, TailElements
<1> QED
  BY <1>1, <1>2, <1>3

LEMMA AppendedElements ==
    ASSUME NEW S, NEW q \in Seq(S), NEW e \in S
    PROVE  Elements(q) \subseteq Elements(Append(q, e)) /\ e \in Elements(Append(q, e))
<1>1. /\ Len(q) \in Nat /\ DOMAIN q = 1..Len(q)
      /\ DOMAIN Append(q, e) = 1..(Len(q) + 1)
      /\ Append(q, e)[Len(q) + 1] = e
      /\ \A i \in DOMAIN q : Append(q, e)[i] = q[i]
  BY AppendElements
<1>2. \A i \in DOMAIN q : i \in DOMAIN Append(q, e)
  BY <1>1
<1>3. Len(q) + 1 \in DOMAIN Append(q, e)
  BY <1>1
<1> QED
  BY <1>1, <1>2, <1>3 DEF Elements

\* A step that changes no session and takes no stream from where it is.
LEMMA AllAwake ==
    ASSUME WakeupInv, UNCHANGED <<session, closing>>, Running' => Running,
           \A t \in Streams : /\ Waiting(t) => WaitsNext(t)
                              /\ InFlight(t) => FliesNext(t)
    PROVE  WakeupInv'
<1>1. Running' => \A t \in Streams : AwakeNext(t, session'[t])
  BY DEF WakeupInv, NoLostWakeup, AwakeNext
<1>2. NoLostWakeup'
  BY <1>1 DEF NoLostWakeup, AwakeNext, WaitsNext, FliesNext, Waiting, InFlight
<1> QED
  BY <1>2 DEF WakeupInv, ClosedIsStopped

\* A step that concerns one stream, and takes no other from where it waits.
LEMMA OneAwake ==
    ASSUME BatchInv, WakeupInv, NEW s \in Streams, NEW y,
           session' = [session EXCEPT ![s] = y],
           UNCHANGED closing, Running' => Running,
           \A t \in Streams \ {s} : /\ Waiting(t) => WaitsNext(t)
                                    /\ InFlight(t) => FliesNext(t),
           Running' => AwakeNext(s, y)
    PROVE  WakeupInv'
<1>1. session \in [Streams -> BoundedSession]
  BY DEF BatchInv, TypeInv, TypeOK, SessionTypeOK
<1>2. session'[s] = y /\ \A t \in Streams \ {s} : session'[t] = session[t]
  BY <1>1
<1>3. Running' => \A t \in Streams \ {s} : AwakeNext(t, session[t])
  BY DEF WakeupInv, NoLostWakeup, AwakeNext
<1>4. Running' => \A t \in Streams : AwakeNext(t, session'[t])
  BY <1>2, <1>3
<1>5. NoLostWakeup'
  BY <1>4 DEF NoLostWakeup, AwakeNext, WaitsNext, FliesNext, Waiting, InFlight
<1> QED
  BY <1>5 DEF WakeupInv, ClosedIsStopped

\* The session's flags and queue as notify and its callers see them: a step
\* that only cancels, ends or empties leaves a stream awake.
Calmer(x, y) ==
    \/ y.cancelled
    \/ /\ y.scheduled = x.scheduled
       /\ x.cancelled => y.cancelled
       /\ x.ended => y.ended
       /\ y.inq # <<>> => x.inq # <<>> \/ y.ended

LEMMA CalmStep ==
    ASSUME BatchInv, WakeupInv, NEW s \in Streams, NEW y,
           session' = [session EXCEPT ![s] = y], Calmer(session[s], y),
           UNCHANGED <<ready, sched, batch, active, closing>>
    PROVE  WakeupInv'
<1>1. \A t \in Streams : /\ Waiting(t) => WaitsNext(t)
                         /\ InFlight(t) => FliesNext(t)
  BY DEF Waiting, WaitsNext, InFlight, FliesNext, Elements
<1>2. Running' => Running
  BY DEF Running
<1>3. Running' => AwakeNext(s, y)
  BY <1>1, <1>2 DEF WakeupInv, NoLostWakeup, AwakeNext, Calmer
<1> QED
  BY <1>1, <1>2, <1>3, OneAwake

LEMMA SameFlags ==
    ASSUME NEW x \in BoundedSession
    PROVE  /\ \A reason : Fail(x, reason).cancelled
           /\ \A flushed : /\ Complete(x, flushed).ended
                           /\ x.cancelled => Complete(x, flushed).cancelled
<1>1. \A reason : Fail(x, reason).cancelled
  BY DEF Fail, BoundedSession, Session
<1>2. ASSUME NEW flushed
      PROVE  Complete(x, flushed).ended /\ (x.cancelled => Complete(x, flushed).cancelled)
  <2> DEFINE y == [x EXCEPT !.ended = TRUE]
  <2>1. y \in BoundedSession /\ y.ended /\ y.cancelled = x.cancelled
    <3>1. y \in BoundedSession
      BY FlagsType
    <3> QED
      BY <3>1 DEF BoundedSession, Session
  <2> HIDE DEF y
  <2>2. /\ Fail(y, "outputFull").ended /\ Fail(y, "outputFull").cancelled
        /\ Emit(y, Completion(y, flushed)).ended
        /\ Emit(y, Completion(y, flushed)).cancelled = x.cancelled
    BY <2>1 DEF Fail, Emit, BoundedSession, Session
  <2>3. \/ x.ended /\ Complete(x, flushed) = x
        \/ Complete(x, flushed) = Fail(y, "outputFull")
        \/ Complete(x, flushed) = Emit(y, Completion(y, flushed))
    BY DEF Complete, y
  <2> QED
    BY <2>2, <2>3
<1> QED
  BY <1>1, <1>2

LEMMA HandlerWakeup ==
    ASSUME BatchInv, WakeupInv, NEW s \in Streams, Handler(s)
    PROVE  WakeupInv'
<1> DEFINE x == session[s]
<1>1. x \in BoundedSession /\ session \in [Streams -> BoundedSession]
  BY DEF BatchInv, TypeInv, TypeOK, SessionTypeOK
<1>2. CASE \/ \E id \in StreamIds : Start(s, id) \/ RefuseStart(s, id)
           \/ RejectFirst(s) \/ MessageSent(s)
  <2>1. UNCHANGED schedVars
    BY <1>2 DEF Start, RefuseStart, RejectFirst, MessageSent
  <2>2. session' = [session EXCEPT ![s] = x] /\ Calmer(x, x)
    BY <1>1, <2>1 DEF Calmer, schedVars
  <2> QED
    BY <2>1, <2>2, CalmStep DEF schedVars
<1>3. CASE EndedSent(s) \/ AbortSent(s) \/ CancelRPC(s)
  <2> DEFINE y == [x EXCEPT !.cancelled = TRUE, !.inq = <<>>, !.outq = <<>>]
  <2>1. session' = [session EXCEPT ![s] = y]
    BY <1>1, <1>3 DEF EndedSent, AbortSent, CancelRPC, Finalize
  <2>2. UNCHANGED <<ready, sched, batch, active, closing>>
    BY <1>3 DEF EndedSent, AbortSent, CancelRPC, Finalize
  <2>3. Calmer(x, y)
    BY <1>1 DEF Calmer, BoundedSession, Session
  <2> HIDE DEF y
  <2> QED
    BY <2>1, <2>2, <2>3, CalmStep
<1>4. CASE TakeEvent(s)
  <2> DEFINE y == [x EXCEPT !.outq = Tail(@)]
  <2>1. session' = [session EXCEPT ![s] = y]
    BY <1>1, <1>4 DEF TakeEvent
  <2>2. UNCHANGED <<ready, sched, batch, active, closing>>
    BY <1>4 DEF TakeEvent
  <2>3. Calmer(x, y)
    BY <1>1 DEF Calmer, BoundedSession, Session
  <2> HIDE DEF y
  <2> QED
    BY <2>1, <2>2, <2>3, CalmStep
<1> QED
  BY <1>2, <1>3, <1>4 DEF Handler

\* notify: a stream that was not queued enters the ready queue, unless that is
\* full; a stream that was queued still is.
LEMMA NotifyWakes ==
    ASSUME BatchInv, WakeupInv, NEW s \in Streams, NEW y \in BoundedSession,
           session' = [session EXCEPT ![s] = Notified(y)],
           ready' = ReadyAfter(s, y), ~NotifyRaises(y),
           y.scheduled = session[s].scheduled,
           session[s].cancelled => y.cancelled,
           UNCHANGED <<batch, closing>>, Running' => Running,
           \A t \in Streams \ {s} : InFlight(t) => FliesNext(t)
    PROVE  WakeupInv'
<1>1. ready \in Seq(Streams)
  BY DEF BatchInv, TypeInv, TypeOK, SchedulerTypeOK
<1>2. Elements(ready) \subseteq Elements(ready') /\ Elements(batch') = Elements(batch)
  <2>1. CASE ready' = ready
    BY <2>1
  <2>2. CASE ready' = Append(ready, s)
    BY <1>1, <2>2, AppendedElements
  <2> QED
    BY <2>1, <2>2 DEF ReadyAfter
<1>3. \A t \in Streams : Waiting(t) => WaitsNext(t)
  BY <1>2 DEF Waiting, WaitsNext
<1>4. /\ Notified(y).scheduled = (y.scheduled \/ Notifiable(y))
      /\ Notified(y).cancelled = y.cancelled
      /\ Notified(y).inq = y.inq
  BY DEF Notified, Notifiable, BoundedSession, Session
<1>5. CASE Notifiable(y)
  <2>1. ready' = Append(ready, s)
    BY <1>5 DEF ReadyAfter, NotifyRaises
  <2>2. s \in Elements(ready')
    BY <1>1, <2>1, AppendedElements
  <2>3. AwakeNext(s, Notified(y))
    BY <1>4, <1>5, <2>2 DEF AwakeNext, Waiting, WaitsNext
  <2> QED
    BY <1>3, <2>3, OneAwake
<1>6. CASE ~Notifiable(y)
  <2>1. Running' => y.cancelled \/ y.scheduled \/ y.inq = <<>>
    BY <1>6 DEF Notifiable, WakeupInv, ClosedIsStopped
  <2>2. Running' => (y.scheduled /\ ~y.cancelled => WaitsNext(s))
    BY <1>3 DEF WakeupInv, NoLostWakeup
  <2>3. Running' => AwakeNext(s, Notified(y))
    BY <1>4, <1>6, <2>1, <2>2 DEF AwakeNext
  <2> QED
    BY <1>3, <2>3, OneAwake
<1> QED
  BY <1>5, <1>6

LEMMA PutWakeup ==
    ASSUME BatchInv, WakeupInv, NEW s \in Streams, ReaderUnchanged,
           NEW x \in BoundedSession, NEW works \in Seq(ModelWork),
           x.scheduled = session[s].scheduled, x.cancelled = session[s].cancelled,
           x.ended = session[s].ended, x.inq = session[s].inq,
           Put(s, x, works) \/ PutRaises(s, x, works)
    PROVE  WakeupInv'
<1> DEFINE k == Fitting(x, works)
           y == Enqueued(x, works, k)
<1>1. k \in Nat /\ k <= Room(x) /\ k <= Len(works)
  BY FittingBounds
<1>2. y \in BoundedSession
  BY <1>1, EnqueuedType
<1>3. /\ y.scheduled = x.scheduled /\ y.cancelled = x.cancelled /\ y.ended = x.ended
      /\ y.inq = x.inq \o SubSeq(works, 1, k)
  BY DEF Enqueued, BoundedSession, Session
<1> HIDE DEF y
<1>4. CASE Put(s, x, works)
  <2>1. /\ session' = [session EXCEPT ![s] = IF k = 0 THEN y ELSE Notified(y)]
        /\ ready' = IF k = 0 THEN ready ELSE ReadyAfter(s, y)
        /\ k = 0 \/ ~NotifyRaises(y)
        /\ UNCHANGED <<sched, batch, active, closing>>
    BY <1>4 DEF Put, ReaderUnchanged, y
  <2>2. CASE k = 0
    <3>1. y.inq = x.inq
      <4>1. x.inq \in Seq(ModelWork)
        BY DEF BoundedSession, Session
      <4>2. SubSeq(works, 1, 0) = <<>>
        BY SubSeqEmpty
      <4> QED
        BY <1>3, <2>2, <4>1, <4>2
    <3>2. Calmer(session[s], y)
      BY <1>3, <3>1 DEF Calmer
    <3> QED
      BY <2>1, <2>2, <3>2, CalmStep
  <2>3. CASE k # 0
    <3>1. Running' => Running
      BY <2>1 DEF Running
    <3>2. \A t \in Streams : InFlight(t) => FliesNext(t)
      BY <2>1 DEF InFlight, FliesNext
    <3> HIDE DEF k
    <3> QED
      BY <1>2, <1>3, <2>1, <2>3, <3>1, <3>2, NotifyWakes
  <2> QED
    BY <2>2, <2>3
<1>5. CASE PutRaises(s, x, works)
  <2> DEFINE z == Notified(Enqueued(x, works, 1))
  <2>1. session' = [session EXCEPT ![s] = Fail(z, "internal")]
    BY <1>5 DEF PutRaises, ReaderFails
  <2>2. z \in BoundedSession
    <3>1. Room(x) \in Int /\ Len(works) \in Nat /\ k > 0
      BY <1>5, SessionAssumption DEF PutRaises, Room, BoundedSession, Session
    <3>2. 1 \in Nat /\ 1 <= Room(x) /\ 1 <= Len(works)
      BY <1>1, <3>1
    <3> QED
      BY <3>2, EnqueuedType, NotifiedType
  <2> HIDE DEF z
  <2>3. Calmer(session[s], Fail(z, "internal"))
    BY <2>2, SameFlags DEF Calmer
  <2>4. UNCHANGED <<ready, sched, batch, active, closing>>
    BY <1>5 DEF PutRaises, ReaderUnchanged
  <2> QED
    BY <2>1, <2>3, <2>4, CalmStep
<1> QED
  BY <1>4, <1>5

\* What the reader does to a session before it enqueues leaves the flags and
\* the input queue alone.
LEMMA InputFlags ==
    ASSUME NEW x \in BoundedSession
    PROVE  /\ \A n \in Nat : /\ Accept(x, n).scheduled = x.scheduled
                             /\ Accept(x, n).cancelled = x.cancelled
                             /\ Accept(x, n).ended = x.ended
                             /\ Accept(x, n).inq = x.inq
           /\ FlushPartial(x).scheduled = x.scheduled
           /\ FlushPartial(x).cancelled = x.cancelled
           /\ FlushPartial(x).ended = x.ended
           /\ FlushPartial(x).inq = x.inq
<1>1. ASSUME NEW n \in Nat
      PROVE  /\ Accept(x, n).scheduled = x.scheduled
             /\ Accept(x, n).cancelled = x.cancelled
             /\ Accept(x, n).ended = x.ended
             /\ Accept(x, n).inq = x.inq
  BY DEF Accept, Rechunk, BoundedSession, Session
<1> QED
  BY <1>1 DEF FlushPartial, BoundedSession, Session

LEMMA ReaderWakeup ==
    ASSUME BatchInv, WakeupInv, NEW s \in Streams, Reader(s)
    PROVE  WakeupInv'
<1> DEFINE x == session[s]
<1>1. /\ x \in BoundedSession /\ toPut[s] \in Seq(ModelWork)
      /\ session \in [Streams -> BoundedSession]
  BY DEF BatchInv, TypeInv, TypeOK, SessionTypeOK, ServiceTypeOK
<1>2. ASSUME NEW n \in 1..MaxAudioChunkSamples, AcceptAudio(s, n) PROVE WakeupInv'
  <2>1. Accept(x, n) \in BoundedSession /\ FullHops(x, n) \in Seq(ModelWork)
    BY <1>1, RechunkType
  <2>2. /\ Accept(x, n).scheduled = x.scheduled /\ Accept(x, n).cancelled = x.cancelled
        /\ Accept(x, n).ended = x.ended /\ Accept(x, n).inq = x.inq
    BY <1>1, InputFlags
  <2> QED
    BY <1>2, <2>1, <2>2, PutWakeup DEF AcceptAudio
<1>3. CASE \/ \E n \in 1..MaxAudioChunkSamples : ChunkRefused(s, n)
           \/ ProtocolViolation(s) \/ IdleTimeout(s)
  <2>1. \E y \in BoundedSession, reason \in Reasons :
           session' = [session EXCEPT ![s] = Fail(y, reason)]
    <3>1. ASSUME NEW n \in 1..MaxAudioChunkSamples, ChunkRefused(s, n)
          PROVE  \E y \in BoundedSession, reason \in Reasons :
                    session' = [session EXCEPT ![s] = Fail(y, reason)]
      <4>1. x.inputSamples + n \in Nat
        BY <1>1 DEF BoundedSession, Session
      <4>2. [x EXCEPT !.inputSamples = @ + n] \in BoundedSession
        BY <1>1, <4>1, FieldType
      <4> QED
        BY <3>1, <4>2 DEF ChunkRefused, ReaderFails, Reasons
    <3> QED
      BY <1>1, <1>3, <3>1 DEF ProtocolViolation, IdleTimeout, ReaderFails, Reasons
  <2>2. UNCHANGED <<ready, sched, batch, active, closing>>
    BY <1>3 DEF ChunkRefused, ProtocolViolation, IdleTimeout, ReaderUnchanged
  <2> QED
    BY <2>1, <2>2, SameFlags, CalmStep DEF Calmer
<1>4. CASE EndWithoutFlush(s)
  <2>1. <<NoFlushWork>> \in Seq(ModelWork)
    BY DEF ModelWork
  <2> QED
    BY <1>1, <1>4, <2>1, PutWakeup DEF EndWithoutFlush
<1>5. CASE EndWithFlush(s)
  BY <1>1, <1>5, FlushType, InputFlags, PutWakeup DEF EndWithFlush
<1>6. CASE EndEmptyStream(s)
  <2> DEFINE y == Complete(x, TRUE)
  <2>1. session' = [session EXCEPT ![s] = y] /\ UNCHANGED <<ready, sched, batch, active, closing>>
    BY <1>6 DEF EndEmptyStream, ReaderUnchanged
  <2>2. y.scheduled = x.scheduled /\ y.ended /\ (x.cancelled => y.cancelled)
    BY <1>1, OutputKept, SameFlags DEF Kept
  <2> HIDE DEF y
  <2>3. Calmer(x, y)
    BY <2>2 DEF Calmer
  <2> QED
    BY <2>1, <2>3, CalmStep
<1>7. CASE ResumePut(s)
  BY <1>1, <1>7, PutWakeup DEF ResumePut
<1>8. CASE HalfClose(s)
  <2>1. session' = [session EXCEPT ![s] = x] /\ Calmer(x, x)
    BY <1>1, <1>8 DEF HalfClose, Calmer, schedVars
  <2> QED
    BY <1>8, <2>1, CalmStep DEF HalfClose, schedVars
<1> QED
  BY <1>2, <1>3, <1>4, <1>5, <1>6, <1>7, <1>8 DEF Reader

\* Taking a stream from the ready queue into the batch leaves it waiting.
LEMMA TakeWakeup ==
    ASSUME BatchInv, WakeupInv, TakeFirst \/ TakeMore
    PROVE  WakeupInv'
<1>1. /\ ready \in Seq(Streams) /\ batch \in Seq(Streams) /\ ready # <<>>
      /\ ready' = Tail(ready) /\ UNCHANGED <<session, active, closing>>
      /\ Running' /\ Running
      /\ \/ batch' = <<Head(ready)>> /\ batch = <<>>
         \/ batch' = Append(batch, Head(ready))
  BY DEF BatchInv, TypeInv, TypeOK, SchedulerTypeOK, LoopShape, TakeFirst, TakeMore, Running
<1>2. Elements(batch) \subseteq Elements(batch') /\ Head(ready) \in Elements(batch')
  <2>1. CASE batch' = <<Head(ready)>> /\ batch = <<>>
    BY <2>1 DEF Elements
  <2>2. CASE batch' = Append(batch, Head(ready))
    <3>1. Head(ready) \in Streams
      BY <1>1
    <3> QED
      BY <1>1, <2>2, <3>1, AppendedElements
  <2> QED
    BY <1>1, <2>1, <2>2
<1>3. \A t \in Elements(ready) : t = Head(ready) \/ t \in Elements(ready')
  BY <1>1, NotTheHead DEF Elements
<1>4. \A t \in Streams : Waiting(t) => WaitsNext(t)
  BY <1>2, <1>3 DEF Waiting, WaitsNext
<1> QED
  BY <1>1, <1>4, AllAwake DEF InFlight, FliesNext

\* The head of the batch leaves it, without the flag: ended, cancelled or
\* without work, or with its work in flight.
LEMMA DispatchWakeup ==
    ASSUME BatchInv, WakeupInv, DispatchSkip \/ DispatchNoFlush \/ DispatchWork
    PROVE  WakeupInv'
<1> DEFINE s == NextToDispatch
           x == session[s]
           d == Dequeued(x)
<1>1. s \in Streams /\ x \in BoundedSession /\ sched \in {"collect", "dispatch"}
  BY DispatchedStream DEF BatchInv, DispatchSkip, DispatchNoFlush, DispatchWork
<1>2. batch \in Seq(Streams) /\ batch # <<>> /\ active \in Seq(ActiveEntry)
  BY <1>1 DEF BatchInv, TypeInv, TypeOK, SchedulerTypeOK, LoopShape
<1>3. /\ batch' = Tail(batch) /\ UNCHANGED <<ready, closing>>
      /\ sched' \in {"dispatch", "idle", "infer"}
  BY DEF DispatchSkip, DispatchNoFlush, DispatchWork, AfterDispatch
<1>4. \A t \in Streams \ {s} : Waiting(t) => WaitsNext(t)
  BY <1>2, <1>3, NotTheHead DEF Waiting, WaitsNext, Elements, NextToDispatch
<1>5. Running /\ Running'
  BY <1>1, <1>3 DEF Running
<1>6. Unscheduled(x).scheduled = FALSE
  BY <1>1 DEF Unscheduled, BoundedSession, Session
<1>7. CASE DispatchSkip
  <2> DEFINE y == Unscheduled(x)
  <2>1. session' = [session EXCEPT ![s] = y] /\ active' = active
    BY <1>7 DEF DispatchSkip, AfterDispatch
  <2>2. \A t \in Streams : InFlight(t) => FliesNext(t)
    BY <2>1 DEF InFlight, FliesNext
  <2>3. y.cancelled \/ y.ended \/ y.inq = <<>>
    BY <1>1, <1>7 DEF DispatchSkip, NothingToDispatch, Unscheduled, BoundedSession, Session
  <2>4. AwakeNext(s, y)
    BY <1>6, <2>3 DEF AwakeNext
  <2> HIDE DEF y, s
  <2> QED
    BY <1>1, <1>3, <1>4, <1>5, <2>1, <2>2, <2>4, OneAwake
<1>8. CASE DispatchNoFlush
  <2> DEFINE p == [d EXCEPT !.pending = None]
             y == Complete(p, FALSE)
  <2>1. d \in BoundedSession
    BY <1>1, <1>8, DequeuedType DEF DispatchNoFlush, NothingToDispatch
  <2>2. d.scheduled = FALSE
    BY <1>1 DEF Dequeued, Unscheduled, BoundedSession, Session
  <2>3. session' = [session EXCEPT ![s] = y] /\ active' = active
    BY <1>8 DEF DispatchNoFlush, AfterDispatch, CompleteWithoutFlush
  <2> HIDE DEF d
  <2>4. p \in BoundedSession /\ p.scheduled = FALSE
    BY <2>1, <2>2 DEF BoundedSession, Session
  <2> HIDE DEF p
  <2>5. y.scheduled = FALSE /\ y.ended
    BY <2>4, OutputKept, SameFlags DEF Kept
  <2>6. AwakeNext(s, y)
    BY <2>5 DEF AwakeNext
  <2>7. \A t \in Streams : InFlight(t) => FliesNext(t)
    BY <2>3 DEF InFlight, FliesNext
  <2> HIDE DEF y, s
  <2> QED
    BY <1>1, <1>3, <1>4, <1>5, <2>3, <2>6, <2>7, OneAwake
<1>9. CASE DispatchWork
  <2> DEFINE e == [stream |-> s, work |-> Head(x.inq), wav |-> None, cache |-> x.cache]
  <2>1. session' = [session EXCEPT ![s] = d] /\ active' = Append(active, e)
    BY <1>9 DEF DispatchWork, AfterDispatch
  <2>2. d.scheduled = FALSE
    BY <1>1 DEF Dequeued, Unscheduled, BoundedSession, Session
  <2>3. e.stream = s
    OBVIOUS
  <2> HIDE DEF e
  <2>4. /\ DOMAIN active' = 1..(Len(active) + 1) /\ Len(active) \in Nat
        /\ active'[Len(active) + 1] = e
        /\ DOMAIN active = 1..Len(active)
        /\ \A i \in DOMAIN active : active'[i] = active[i]
    BY <1>2, <2>1
  <2>5. FliesNext(s) /\ \A t \in Streams : InFlight(t) => FliesNext(t)
    BY <2>3, <2>4 DEF InFlight, FliesNext
  <2>6. AwakeNext(s, d)
    BY <2>2, <2>5 DEF AwakeNext
  <2> HIDE DEF d, s
  <2> QED
    BY <1>1, <1>3, <1>4, <1>5, <2>1, <2>5, <2>6, OneAwake
<1> QED
  BY <1>7, <1>8, <1>9

\* A returned batch loses its head; the other streams stay in flight.
LEMMA OthersInFlight ==
    ASSUME BatchInv, sched \in {"distribute", "failing"}, active' = Tail(active)
    PROVE  \A t \in Streams \ {Returned.stream} : InFlight(t) => FliesNext(t)
<1>1. active \in Seq(ActiveEntry) /\ active # <<>>
  BY DEF BatchInv, TypeInv, TypeOK, SchedulerTypeOK, LoopShape
<1>2. \A i \in DOMAIN active :
         active[i].stream # Returned.stream => \E j \in DOMAIN Tail(active) : Tail(active)[j] = active[i]
  BY <1>1, NotTheHead DEF Returned
<1> QED
  BY <1>2 DEF InFlight, FliesNext

LEMMA ReturnWakeup ==
    ASSUME BatchInv, WakeupInv,
           \/ FailEntry \/ DistributeSkip \/ DistributeOverflow
           \/ DistributeFlush \/ DistributeHop
    PROVE  WakeupInv'
<1> DEFINE s == Returned.stream
           x == session[s]
           d == Deliver(x, Returned)
<1>1. /\ sched \in {"distribute", "failing"} /\ active' = Tail(active)
      /\ sched' \in {sched, "idle"} /\ UNCHANGED <<batch, closing>>
  BY DEF FailEntry, DistributeSkip, DistributeOverflow, DistributeFlush, DistributeHop,
         AfterDistribute
<1>2. /\ s \in Streams /\ x \in BoundedSession /\ Returned \in ActiveEntry
      /\ session \in [Streams -> BoundedSession]
  BY <1>1, ReturnedType DEF BatchInv, TypeInv, TypeOK, SessionTypeOK
<1>3. Running /\ Running'
  BY <1>1 DEF Running
<1>4. \A t \in Streams \ {s} : InFlight(t) => FliesNext(t)
  BY <1>1, OthersInFlight
<1>5. CASE FailEntry \/ DistributeOverflow
  <2> DEFINE y == session'[s]
  <2>1. session' = [session EXCEPT ![s] = y] /\ y.cancelled /\ UNCHANGED ready
    <3>1. CASE FailEntry
      BY <1>2, <3>1, SameFlags DEF FailEntry, Returned
    <3>2. CASE DistributeOverflow
      <4>1. Advance(x, Returned) \in BoundedSession
        BY <1>2, AdvanceType
      <4> QED
        BY <1>2, <3>2, <4>1, SameFlags DEF DistributeOverflow
    <3> QED
      BY <1>5, <3>1, <3>2
  <2>2. AwakeNext(s, y)
    BY <1>2, <2>1 DEF AwakeNext
  <2>3. \A t \in Streams : Waiting(t) => WaitsNext(t)
    BY <1>1, <2>1 DEF Waiting, WaitsNext
  <2> HIDE DEF s
  <2> QED
    BY <1>1, <1>2, <1>3, <1>4, <2>1, <2>2, <2>3, OneAwake
<1>6. CASE DistributeSkip
  <2>1. session' = [session EXCEPT ![s] = x] /\ UNCHANGED ready
    BY <1>2, <1>6 DEF DistributeSkip
  <2>2. x.cancelled \/ x.ended
    BY <1>6 DEF DistributeSkip, Unwanted
  <2>3. \A t \in Streams : Waiting(t) => WaitsNext(t)
    BY <1>1, <2>1 DEF Waiting, WaitsNext
  <2>4. session'[s] = x
    BY <1>2, <2>1
  <2>5. AwakeNext(s, x)
    BY <1>2, <1>3, <2>2, <2>3, <2>4 DEF AwakeNext, WakeupInv, NoLostWakeup
  <2> HIDE DEF s, x
  <2> QED
    BY <1>1, <1>2, <1>3, <1>4, <2>1, <2>3, <2>5, OneAwake
<1>7. CASE DistributeFlush \/ DistributeHop
  <2>1. Deliverable(x)
    BY <1>7 DEF DistributeFlush, DistributeHop
  <2>2. /\ d \in BoundedSession /\ d.scheduled = x.scheduled
    BY <1>2, <2>1, DeliverType, DeliverKept
  <2>3. ~x.cancelled
    BY <2>1 DEF Deliverable, Unwanted
  <2>4. CASE DistributeFlush
    <3> DEFINE y == Complete(d, TRUE)
    <3>1. session' = [session EXCEPT ![s] = y] /\ UNCHANGED ready
      BY <2>4 DEF DistributeFlush
    <3>2. \A t \in Streams : Waiting(t) => WaitsNext(t)
      BY <1>1, <3>1 DEF Waiting, WaitsNext
    <3> HIDE DEF d
    <3>3. y.scheduled = x.scheduled /\ y.ended
      BY <2>2, OutputKept, SameFlags DEF Kept
    <3> HIDE DEF y
    <3>4. (y.scheduled /\ ~y.cancelled => WaitsNext(s)) /\ y.ended
      BY <1>2, <1>3, <2>3, <3>2, <3>3 DEF WakeupInv, NoLostWakeup
    <3>5. AwakeNext(s, y)
      BY <3>3, <3>4, <1>2, <1>3, <2>3, <3>2 DEF AwakeNext, WakeupInv, NoLostWakeup
    <3> HIDE DEF s, x
    <3> QED
      BY <1>1, <1>2, <1>3, <1>4, <3>1, <3>2, <3>5, OneAwake
  <2>5. CASE DistributeHop
    <3>1. /\ session' = [session EXCEPT ![s] = Notified(d)]
          /\ ready' = ReadyAfter(s, d) /\ ~NotifyRaises(d)
      BY <2>5 DEF DistributeHop
    <3> HIDE DEF d, s
    <3> QED
      BY <1>1, <1>2, <1>3, <1>4, <2>2, <2>3, <3>1, NotifyWakes
  <2> QED
    BY <1>7, <2>4, <2>5
<1> QED
  BY <1>5, <1>6, <1>7

LEMMA SchedulerWakeup ==
    ASSUME BatchInv, WakeupInv, SchedulerStep
    PROVE  WakeupInv'
<1>1. CASE InferenceDone
  <2>1. /\ UNCHANGED <<session, ready, batch, closing>> /\ Running /\ Running'
        /\ active \in Seq(ActiveEntry) /\ active' = InferBatch(active)
    BY <1>1 DEF InferenceDone, Running, BatchInv, TypeInv, TypeOK, SchedulerTypeOK
  <2>2. DOMAIN active' = DOMAIN active /\ DOMAIN active = 1..Len(active)
    <3>1. DOMAIN active = 1..Len(active)
      BY <2>1
    <3> QED
      BY <2>1, <3>1 DEF InferBatch
  <2>3. ASSUME NEW i \in DOMAIN active PROVE active'[i].stream = active[i].stream
    <3>1. active'[i] = [active[i] EXCEPT !.wav = active[i].cache, !.cache = Absorbed(active[i])]
      BY <2>1, <2>2, InferBatchType
    <3>2. active[i] \in ActiveEntry
      BY <2>1, EntryTypes
    <3> QED
      BY <3>1, <3>2 DEF ActiveEntry
  <2>4. \A t \in Streams : InFlight(t) => FliesNext(t)
    BY <2>2, <2>3 DEF InFlight, FliesNext
  <2> QED
    BY <2>1, <2>4, AllAwake DEF Waiting, WaitsNext
<1>2. CASE InferenceFails
  <2>1. Running /\ Running'
    BY <1>2 DEF InferenceFails, Running
  <2> QED
    BY <1>2, <2>1, AllAwake DEF InferenceFails, Waiting, WaitsNext, InFlight, FliesNext
<1>3. CASE DistributeDies
  BY <1>3 DEF DistributeDies, WakeupInv, ClosedIsStopped, NoLostWakeup, Running
<1> QED
  BY <1>1, <1>2, <1>3, TakeWakeup, DispatchWakeup, ReturnWakeup DEF SchedulerStep, RunStep

\* As long as the scheduler's task runs, every stream that has input and is
\* neither cancelled nor ended waits for a batch or has a hop in flight whose
\* result notifies it, for every interleaving of readers, handlers and batches.
THEOREM NoStreamIsForgotten == Spec => []NoLostWakeup
<1>1. Init => WakeupInv
  BY DEF Init, SchedulerInit, WakeupInv, ClosedIsStopped, NoLostWakeup, FreshSession
<1>2. ASSUME BatchInv, WakeupInv, [Next]_vars PROVE WakeupInv'
  <2>1. CASE SchedulerStep
    BY <1>2, <2>1, SchedulerWakeup
  <2>2. ASSUME NEW s \in Streams, Handler(s) \/ Reader(s) PROVE WakeupInv'
    BY <1>2, <2>2, HandlerWakeup, ReaderWakeup
  <2>3. CASE StopServer \/ UNCHANGED vars
    <3>1. UNCHANGED schedVars
      BY <2>3 DEF StopServer, vars
    <3> QED
      BY <1>2, <3>1 DEF schedVars, WakeupInv, ClosedIsStopped, NoLostWakeup, Waiting, WaitsNext, InFlight, FliesNext, Running
  <2>4. CASE Shutdown
    BY <2>4 DEF Shutdown, CloseScheduler, WakeupInv, ClosedIsStopped, NoLostWakeup, Running
  <2> QED
    BY <1>2, <2>1, <2>2, <2>3, <2>4 DEF Next
<1>3. BatchInv /\ WakeupInv /\ [Next]_vars => BatchInv' /\ WakeupInv'
  BY <1>2, NextIntegrity
<1>4. WakeupInv => NoLostWakeup
  BY DEF WakeupInv
<1> QED
  BY <1>1, <1>3, <1>4, InitIntegrity, PTL DEF Spec

-----------------------------------------------------------------------------
(* The gauges (metrics.py): what every adjustment adds or takes is what the     *)
(* queue it belongs to gained or lost.                                          *)

\* What a queue of events and a queue of work hold, as totals.
AudioIndices(outq) == {i \in DOMAIN outq : IsAudio(outq[i])}
SourceIndices(works) == {i \in DOMAIN works : IsSource(works[i])}
Valid(outq) == [i \in AudioIndices(outq) |-> outq[i].valid]

LEMMA QueuedAudioIsTotal ==
    ASSUME NEW outq \in Seq(OutputEvent)
    PROVE  /\ IsFiniteSet(AudioIndices(outq))
           /\ Valid(outq) \in [AudioIndices(outq) -> Nat]
           /\ \E t : /\ IsTotal(t, Valid(outq), AudioIndices(outq))
                     /\ QueuedAudio(outq) = t[AudioIndices(outq)]
<1> DEFINE S == AudioIndices(outq)
           Sums(t) == t = [u \in SUBSET S |->
                             IF u = {} THEN 0
                             ELSE outq[Chosen(u)].valid + t[u \ {Chosen(u)}]]
<1>1. IsFiniteSet(S)
  <2>1. DOMAIN outq = 1..Len(outq) /\ Len(outq) \in Nat
    OBVIOUS
  <2>2. IsFiniteSet(DOMAIN outq)
    BY <2>1, FS_Interval
  <2>3. S \in SUBSET DOMAIN outq
    BY DEF AudioIndices
  <2> QED
    BY <2>2, <2>3, FS_Subset
<1>2. Valid(outq) \in [S -> Nat]
  <2>1. ASSUME NEW i \in S PROVE outq[i].valid \in Nat
    <3>1. outq[i] \in OutputEvent /\ outq[i].type = "audio"
      BY DEF AudioIndices, IsAudio
    <3>2. outq[i] \in OutputAudio
      BY <3>1 DEF OutputEvent, StreamCompletion, RPCFailure
    <3> QED
      BY <3>2, SessionAssumption DEF OutputAudio
  <2> QED
    BY <2>1 DEF Valid
<1>3. PICK t : IsTotal(t, Valid(outq), S)
  BY <1>1, TotalExists
<1>4. \A u \in SUBSET S : u # {} => Chosen(u) \in S
  BY Zenon DEF Chosen
<1>5. \A r : Sums(r) <=> IsTotal(r, Valid(outq), S)
  <2>1. \A u \in SUBSET S : u # {} => Valid(outq)[Chosen(u)] = outq[Chosen(u)].valid
    BY <1>4 DEF Valid
  <2> HIDE DEF S
  <2> QED
    BY <2>1 DEF IsTotal, Totals, WithoutChosen
<1>6. QueuedAudio(outq) = (CHOOSE r : Sums(r))[S]
  BY DEF QueuedAudio, MapThenSumSet, MapThenFoldSet, Chosen, AudioIndices
<1>7. Sums(CHOOSE r : Sums(r))
  <2>1. Sums(t)
    BY <1>3, <1>5
  <2> HIDE DEF Sums
  <2> QED
    BY <2>1, Zenon
<1>8. IsTotal(CHOOSE r : Sums(r), Valid(outq), S)
  <2> HIDE DEF Sums
  <2> QED
    BY <1>5, <1>7
<1> HIDE DEF Sums
<1> QED
  BY <1>1, <1>2, <1>6, <1>8

LEMMA NoAudio == QueuedAudio(<<>>) = 0
<1>1. <<>> \in Seq(OutputEvent) /\ AudioIndices(<<>>) = {}
  BY DEF AudioIndices
<1>2. PICK t : IsTotal(t, Valid(<<>>), {}) /\ QueuedAudio(<<>>) = t[{}]
  BY <1>1, QueuedAudioIsTotal
<1>3. IsFiniteSet({}) /\ Valid(<<>>) \in [{} -> Nat]
  BY <1>1, QueuedAudioIsTotal
<1> QED
  BY <1>2, <1>3, TotalIsNat

LEMMA AppendAudio ==
    ASSUME NEW outq \in Seq(OutputEvent), NEW event \in OutputEvent
    PROVE  /\ QueuedAudio(outq) \in Nat /\ DequeuedAudio(event) \in Nat
           /\ QueuedAudio(Append(outq, event)) = QueuedAudio(outq) + DequeuedAudio(event)
<1> DEFINE longer == Append(outq, event)
           A == AudioIndices(outq)
           B == AudioIndices(longer)
           last == Len(outq) + 1
<1>1. /\ longer \in Seq(OutputEvent) /\ Len(outq) \in Nat
      /\ DOMAIN outq = 1..Len(outq) /\ DOMAIN longer = 1..last
      /\ \A i \in DOMAIN outq : longer[i] = outq[i]
      /\ longer[last] = event
  OBVIOUS
<1> HIDE DEF longer
<1>2. last \notin A /\ B = IF IsAudio(event) THEN A \cup {last} ELSE A
  <2>1. \A i \in A : i \in DOMAIN longer /\ IsAudio(longer[i]) /\ i # last
    BY <1>1 DEF AudioIndices
  <2>2. \A i \in B : i = last \/ i \in A
    BY <1>1 DEF AudioIndices
  <2>3. last \in B <=> IsAudio(event)
    BY <1>1 DEF AudioIndices
  <2> HIDE DEF A, B, last
  <2>4. \A i \in A : i \in B
    BY <2>1 DEF A, B, AudioIndices
  <2>5. CASE IsAudio(event)
    <3>1. B = A \cup {last}
      BY <2>2, <2>3, <2>4, <2>5
    <3> QED
      BY <2>1, <2>5, <3>1
  <2>6. CASE ~IsAudio(event)
    <3>1. \A i \in B : i \in A
      BY <2>2, <2>3, <2>6
    <3>2. B = A
      BY <2>4, <3>1
    <3> QED
      BY <2>1, <2>6, <3>2
  <2> QED
    BY <2>5, <2>6
<1>3. \A i \in A : Valid(longer)[i] = Valid(outq)[i]
  <2>1. \A i \in A : i \in B /\ longer[i] = outq[i]
    BY <1>1, <1>2 DEF AudioIndices
  <2> QED
    BY <2>1 DEF Valid
<1>4. PICK t : IsTotal(t, Valid(outq), A) /\ QueuedAudio(outq) = t[A]
  BY QueuedAudioIsTotal
<1>5. PICK r : IsTotal(r, Valid(longer), B) /\ QueuedAudio(longer) = r[B]
  BY <1>1, QueuedAudioIsTotal
<1>6. IsFiniteSet(A) /\ Valid(outq) \in [A -> Nat] /\ IsFiniteSet(B) /\ Valid(longer) \in [B -> Nat]
  BY <1>1, QueuedAudioIsTotal
<1> HIDE DEF A, B, last
<1>7. t[A] = r[A]
  <2>1. A \subseteq B /\ A \subseteq A
    BY <1>2
  <2>2. \A i \in A : Valid(outq)[i] = Valid(longer)[i]
    BY <1>3
  <2> QED
    BY <1>4, <1>5, <1>6, <2>1, <2>2, TotalAgree
<1>8. t[A] \in Nat
  BY <1>4, <1>6, TotalIsNat
<1>9. CASE IsAudio(event)
  <2>1. last \in B /\ B \ {last} = A
    BY <1>2, <1>9
  <2>2. r[B] = Valid(longer)[last] + r[A]
    <3> DEFINE g == Valid(longer)
    <3>1. IsTotal(r, g, B) /\ g \in [B -> Nat] /\ IsFiniteSet(B) /\ B \in SUBSET B
      BY <1>5, <1>6
    <3> HIDE DEF g
    <3>2. last \in B
      BY <2>1
    <3>3. r[B] = g[last] + r[B \ {last}]
      BY <3>1, <3>2, TotalTakes
    <3> QED
      BY <2>1, <3>3 DEF g
  <2>3. Valid(longer)[last] = event.valid /\ Valid(longer)[last] \in Nat
    BY <1>1, <1>6, <2>1 DEF Valid, B, last
  <2> QED
    BY <1>4, <1>5, <1>7, <1>8, <1>9, <2>2, <2>3 DEF DequeuedAudio, longer
<1>10. CASE ~IsAudio(event)
  <2>1. QueuedAudio(longer) = QueuedAudio(outq) /\ QueuedAudio(outq) \in Nat
    BY <1>2, <1>4, <1>5, <1>7, <1>8, <1>10
  <2> QED
    BY <1>10, <2>1 DEF DequeuedAudio, longer
<1> QED
  BY <1>9, <1>10

\* What the rest of a queue holds, once its first event has left.
LEMMA HeadAudio ==
    ASSUME NEW outq \in Seq(OutputEvent), outq # <<>>
    PROVE  QueuedAudio(outq) = DequeuedAudio(Head(outq)) + QueuedAudio(Tail(outq))
<1> DEFINE Fore(k) == SubSeq(outq, 1, k)
           Rear(k) == SubSeq(outq, 2, k)
           first == outq[1]
           Split == {k \in Nat : QueuedAudio(Fore(k + 1))
                                   = DequeuedAudio(first) + QueuedAudio(Rear(k + 1))}
           size == Len(outq)
<1>1. size \in Nat /\ size >= 1 /\ \A i \in 1..size : outq[i] \in OutputEvent
  BY EmptySeq
<1>2. first \in OutputEvent /\ DequeuedAudio(first) \in Nat
  <2>1. first \in OutputEvent
    BY <1>1
  <2> QED
    BY <2>1, AppendAudio
<1>3. 0 \in Split
  <2>1. Fore(1) = Append(<<>>, first) /\ Rear(1) = <<>> /\ <<>> \in Seq(OutputEvent)
    <3>1. Fore(1) \in Seq(OutputEvent) /\ Len(Fore(1)) = 1 /\ Fore(1)[1] = first
      BY <1>1
    <3>2. Append(<<>>, first) \in Seq(OutputEvent) /\ Len(Append(<<>>, first)) = 1
          /\ Append(<<>>, first)[1] = first
      BY <1>2
    <3> HIDE DEF Fore, first
    <3>3. Fore(1) = Append(<<>>, first)
      BY <3>1, <3>2, SeqEqual
    <3>4. Rear(1) = <<>>
      BY SubSeqEmpty
    <3> QED
      BY <3>3, <3>4
  <2>2. QueuedAudio(Fore(1)) = 0 + DequeuedAudio(first) /\ QueuedAudio(Rear(1)) = 0
    BY <1>2, <2>1, AppendAudio, NoAudio
  <2>3. 0 + 1 = 1
    OBVIOUS
  <2> HIDE DEF Fore, Rear
  <2> QED
    BY <1>2, <2>2, <2>3
<1>4. ASSUME NEW k \in 0..((size - 1) - 1), k \in Split PROVE k + 1 \in Split
  <2> DEFINE n == k + 2
             last == outq[n]
  <2>1. n \in 2..size /\ n - 1 = k + 1 /\ (k + 1) + 1 = n
    BY <1>1
  <2>2. last \in OutputEvent
    BY <1>1, <2>1
  <2> HIDE DEF n
  <2>3. Fore(n) = Append(Fore(n - 1), last) /\ Fore(n - 1) \in Seq(OutputEvent)
    BY <1>1, <2>1
  <2>4. Rear(n) = Append(Rear(n - 1), last) /\ Rear(n - 1) \in Seq(OutputEvent)
    BY <1>1, <2>1
  <2> HIDE DEF Fore, Rear, last
  <2>5. /\ QueuedAudio(Fore(n)) = QueuedAudio(Fore(n - 1)) + DequeuedAudio(last)
        /\ QueuedAudio(Rear(n)) = QueuedAudio(Rear(n - 1)) + DequeuedAudio(last)
        /\ QueuedAudio(Rear(n - 1)) \in Nat /\ DequeuedAudio(last) \in Nat
    BY <2>2, <2>3, <2>4, AppendAudio
  <2>6. QueuedAudio(Fore(n - 1)) = DequeuedAudio(first) + QueuedAudio(Rear(n - 1))
    BY <1>4, <2>1
  <2>7. QueuedAudio(Fore(n)) = DequeuedAudio(first) + QueuedAudio(Rear(n))
    BY <1>2, <2>5, <2>6
  <2> QED
    BY <2>1, <2>7
<1>5. size - 1 \in Split
  <2> HIDE DEF Split
  <2>1. size - 1 \in Nat
    BY <1>1
  <2>2. 0..(size - 1) \subseteq Split
    BY <1>3, <1>4, <2>1, Counting
  <2> QED
    BY <2>1, <2>2
<1>6. Fore(size) = outq /\ Rear(size) = Tail(outq) /\ first = Head(outq) /\ (size - 1) + 1 = size
  BY <1>1, SubSeqFull, TailIsSubSeq
<1> HIDE DEF Fore, Rear, first, size
<1> QED
  BY <1>5, <1>6


LEMMA NoSources == QueuedSources(<<>>) = 0
<1>1. {i \in DOMAIN <<>> : IsSource(<<>>[i])} = {}
  OBVIOUS
<1> QED
  BY <1>1, FS_EmptySet DEF QueuedSources

One(work) == IF IsSource(work) THEN 1 ELSE 0

LEMMA AppendSources ==
    ASSUME NEW works \in Seq(ModelWork), NEW work \in ModelWork
    PROVE  /\ QueuedSources(works) \in Nat
           /\ QueuedSources(Append(works, work)) = QueuedSources(works) + One(work)
<1> DEFINE longer == Append(works, work)
           A == SourceIndices(works)
           B == SourceIndices(longer)
           last == Len(works) + 1
<1>1. /\ Len(works) \in Nat
      /\ DOMAIN works = 1..Len(works) /\ DOMAIN longer = 1..last
      /\ \A i \in DOMAIN works : longer[i] = works[i]
      /\ longer[last] = work
  OBVIOUS
<1> HIDE DEF longer
<1>2. /\ last \notin A
      /\ \A i : i \in B <=> i \in A \/ (i = last /\ IsSource(work))
  BY <1>1 DEF SourceIndices
<1>3. IsFiniteSet(A) /\ Cardinality(A) \in Nat
  <2>1. IsFiniteSet(1..Len(works)) /\ A \in SUBSET (1..Len(works))
    BY <1>1, FS_Interval DEF SourceIndices
  <2>2. IsFiniteSet(A)
    BY <2>1, FS_Subset
  <2> QED
    BY <2>2, FS_CardinalityType
<1>4. QueuedSources(works) = Cardinality(A) /\ QueuedSources(longer) = Cardinality(B)
  BY DEF QueuedSources, SourceIndices
<1> HIDE DEF A, B, last
<1>5. CASE IsSource(work)
  <2>1. B = A \cup {last}
    BY <1>2, <1>5
  <2>2. Cardinality(B) = Cardinality(A) + 1
    BY <1>2, <1>3, <2>1, FS_AddElement
  <2> QED
    BY <1>3, <1>4, <1>5, <2>2 DEF One, longer
<1>6. CASE ~IsSource(work)
  <2>1. B = A
    BY <1>2, <1>6
  <2> QED
    BY <1>3, <1>4, <1>6, <2>1 DEF One, longer
<1> QED
  BY <1>5, <1>6

\* A queue that is put behind another adds what it holds.
LEMMA JoinSources ==
    ASSUME NEW p \in Seq(ModelWork), NEW q \in Seq(ModelWork)
    PROVE  /\ QueuedSources(p) \in Nat /\ QueuedSources(q) \in Nat
           /\ QueuedSources(p \o q) = QueuedSources(p) + QueuedSources(q)
<1> DEFINE Fore(k) == SubSeq(q, 1, k)
           Sum == {k \in Nat : QueuedSources(p \o Fore(k)) = QueuedSources(p) + QueuedSources(Fore(k))}
           size == Len(q)
<1>1. size \in Nat /\ \A i \in 1..size : q[i] \in ModelWork
  OBVIOUS
<1>2. \A w \in Seq(ModelWork) : QueuedSources(w) \in Nat
  <2>1. FlushWork \in ModelWork
    BY DEF ModelWork
  <2> QED
    BY <2>1, AppendSources
<1>3. 0 \in Sum
  <2>1. Fore(0) = <<>>
    BY SubSeqEmpty
  <2>2. p \o <<>> = p
    BY ConcatEmptySeq
  <2>3. QueuedSources(p \o Fore(0)) = QueuedSources(p) /\ QueuedSources(Fore(0)) = 0
    BY <2>1, <2>2, NoSources
  <2>4. QueuedSources(p) \in Nat
    BY <1>2
  <2> HIDE DEF Fore
  <2> QED
    BY <2>3, <2>4
<1>4. ASSUME NEW k \in 0..(size - 1), k \in Sum PROVE k + 1 \in Sum
  <2> DEFINE front == Fore(k)
             work == q[k + 1]
  <2>1. /\ front \in Seq(ModelWork) /\ work \in ModelWork
        /\ Fore(k + 1) \in Seq(ModelWork) /\ Len(Fore(k + 1)) = k + 1 /\ Len(front) = k
        /\ \A i \in 1..k : Fore(k + 1)[i] = front[i]
        /\ Fore(k + 1)[k + 1] = work
    BY <1>1
  <2> HIDE DEF Fore, work
  <2>2. Fore(k + 1) = Append(front, work)
    <3> DEFINE longer == Append(front, work)
    <3>1. longer \in Seq(ModelWork) /\ Len(longer) = k + 1 /\ longer[k + 1] = work
          /\ \A i \in 1..k : longer[i] = front[i]
      BY <2>1
    <3> HIDE DEF longer
    <3>2. \A i \in 1..(k + 1) : Fore(k + 1)[i] = longer[i]
      BY <2>1, <3>1
    <3>3. Fore(k + 1) = longer
      BY <2>1, <3>1, <3>2, SeqEqual
    <3> QED
      BY <3>3 DEF longer
  <2>3. p \o Fore(k + 1) = Append(p \o front, work) /\ p \o front \in Seq(ModelWork)
    <3>1. p \o front \in Seq(ModelWork)
      BY <2>1, ConcatProperties
    <3>2. p \o Append(front, work) = Append(p \o front, work)
      BY <2>1, JoinLonger
    <3> QED
      BY <2>2, <3>1, <3>2
  <2>4. /\ QueuedSources(Fore(k + 1)) = QueuedSources(front) + One(work)
        /\ QueuedSources(p \o Fore(k + 1)) = QueuedSources(p \o front) + One(work)
        /\ One(work) \in Nat
    BY <2>1, <2>2, <2>3, AppendSources DEF One
  <2>5. QueuedSources(p \o front) = QueuedSources(p) + QueuedSources(front)
    BY <1>4
  <2>6. QueuedSources(p) \in Nat /\ QueuedSources(front) \in Nat
    BY <1>2, <2>1
  <2> QED
    BY <2>4, <2>5, <2>6
<1> HIDE DEF Sum
<1>5. size \in Sum
  <2>1. 0..size \subseteq Sum
    BY <1>1, <1>3, <1>4, Counting
  <2> QED
    BY <1>1, <2>1
<1>6. Fore(size) = q
  BY SubSeqFull
<1> HIDE DEF Fore, size
<1> QED
  BY <1>2, <1>5, <1>6 DEF Sum

LEMMA HeadSources ==
    ASSUME NEW works \in Seq(ModelWork), works # <<>>
    PROVE  /\ QueuedSources(works) = One(Head(works)) + QueuedSources(Tail(works))
           /\ QueuedSources(<<Head(works)>>) = One(Head(works))
<1> DEFINE first == Head(works)
           rest == Tail(works)
<1>1. first \in ModelWork /\ rest \in Seq(ModelWork) /\ works = <<first>> \o rest
  OBVIOUS
<1> HIDE DEF first, rest
<1>2. <<first>> = Append(<<>>, first) /\ <<>> \in Seq(ModelWork) /\ <<first>> \in Seq(ModelWork)
  BY <1>1
<1>3. QueuedSources(<<first>>) = 0 + One(first) /\ One(first) \in Nat
  BY <1>1, <1>2, AppendSources, NoSources DEF One
<1>4. QueuedSources(works) = QueuedSources(<<first>>) + QueuedSources(rest)
  BY <1>1, <1>2, JoinSources
<1> QED
  BY <1>3, <1>4 DEF first, rest


\* The sums the gauges stand for, of any assignment of sessions to streams.
HopsQueued(sess) == MapThenSumSet(LAMBDA s : QueuedSources(sess[s].inq), Streams)
AudioQueued(sess) == MapThenSumSet(LAMBDA s : QueuedAudio(sess[s].outq), Streams)
HopsOf(sess) == [s \in Streams |-> QueuedSources(sess[s].inq)]
AudioIn(sess) == [s \in Streams |-> QueuedAudio(sess[s].outq)]

LEMMA SumsAreTotals ==
    ASSUME NEW sess \in [Streams -> BoundedSession]
    PROVE  /\ HopsOf(sess) \in [Streams -> Nat] /\ AudioIn(sess) \in [Streams -> Nat]
           /\ \E t : IsTotal(t, HopsOf(sess), Streams) /\ HopsQueued(sess) = t[Streams]
           /\ \E t : IsTotal(t, AudioIn(sess), Streams) /\ AudioQueued(sess) = t[Streams]
<1>1. \A s \in Streams : sess[s].inq \in Seq(ModelWork) /\ sess[s].outq \in Seq(OutputEvent)
  BY DEF BoundedSession, Session
<1>2. HopsOf(sess) \in [Streams -> Nat]
  <2>1. \A s \in Streams : QueuedSources(sess[s].inq) \in Nat
    BY <1>1, JoinSources
  <2> QED
    BY <2>1 DEF HopsOf
<1>3. AudioIn(sess) \in [Streams -> Nat]
  <2>1. Failure("internal") \in OutputEvent
    BY DEF Failure, OutputEvent, RPCFailure, Reasons
  <2>2. \A s \in Streams : QueuedAudio(sess[s].outq) \in Nat
    BY <1>1, <2>1, AppendAudio
  <2> QED
    BY <2>2 DEF AudioIn
<1>4. \A u \in SUBSET Streams : u # {} => Chosen(u) \in Streams
  BY Zenon DEF Chosen
<1>5. \E t : IsTotal(t, HopsOf(sess), Streams) /\ HopsQueued(sess) = t[Streams]
  <2> DEFINE Sums(t) == t = [u \in SUBSET Streams |->
                               IF u = {} THEN 0
                               ELSE QueuedSources(sess[Chosen(u)].inq) + t[u \ {Chosen(u)}]]
  <2>1. PICK t : IsTotal(t, HopsOf(sess), Streams)
    BY TotalExists, StreamsAssumption
  <2>2. \A r : Sums(r) <=> IsTotal(r, HopsOf(sess), Streams)
    <3>1. \A u \in SUBSET Streams : u # {} =>
             HopsOf(sess)[Chosen(u)] = QueuedSources(sess[Chosen(u)].inq)
      BY <1>4 DEF HopsOf
    <3> QED
      BY <3>1 DEF IsTotal, Totals, WithoutChosen
  <2>3. HopsQueued(sess) = (CHOOSE r : Sums(r))[Streams]
    BY DEF HopsQueued, MapThenSumSet, MapThenFoldSet, Chosen
  <2> HIDE DEF Sums
  <2>4. Sums(CHOOSE r : Sums(r))
    <3>1. Sums(t)
      BY <2>1, <2>2
    <3> QED
      BY <3>1, Zenon
  <2> QED
    BY <2>2, <2>3, <2>4
<1>6. \E t : IsTotal(t, AudioIn(sess), Streams) /\ AudioQueued(sess) = t[Streams]
  <2> DEFINE Sums(t) == t = [u \in SUBSET Streams |->
                               IF u = {} THEN 0
                               ELSE QueuedAudio(sess[Chosen(u)].outq) + t[u \ {Chosen(u)}]]
  <2>1. PICK t : IsTotal(t, AudioIn(sess), Streams)
    BY TotalExists, StreamsAssumption
  <2>2. \A r : Sums(r) <=> IsTotal(r, AudioIn(sess), Streams)
    <3>1. \A u \in SUBSET Streams : u # {} =>
             AudioIn(sess)[Chosen(u)] = QueuedAudio(sess[Chosen(u)].outq)
      BY <1>4 DEF AudioIn
    <3> QED
      BY <3>1 DEF IsTotal, Totals, WithoutChosen
  <2>3. AudioQueued(sess) = (CHOOSE r : Sums(r))[Streams]
    BY DEF AudioQueued, MapThenSumSet, MapThenFoldSet, Chosen
  <2> HIDE DEF Sums
  <2>4. Sums(CHOOSE r : Sums(r))
    <3>1. Sums(t)
      BY <2>1, <2>2
    <3> QED
      BY <3>1, Zenon
  <2> QED
    BY <2>2, <2>3, <2>4
<1> QED
  BY <1>2, <1>3, <1>5, <1>6

\* What one session's queues gain or lose, the sums do.
LEMMA SumsChange ==
    ASSUME NEW a \in [Streams -> BoundedSession], NEW b \in [Streams -> BoundedSession],
           NEW s \in Streams, \A x \in Streams \ {s} : b[x] = a[x]
    PROVE  /\ HopsQueued(a) \in Nat /\ AudioQueued(a) \in Nat
           /\ QueuedSources(a[s].inq) \in Nat /\ QueuedSources(b[s].inq) \in Nat
           /\ QueuedAudio(a[s].outq) \in Nat /\ QueuedAudio(b[s].outq) \in Nat
           /\ HopsQueued(b) = HopsQueued(a) + (QueuedSources(b[s].inq) - QueuedSources(a[s].inq))
           /\ AudioQueued(b) = AudioQueued(a) + (QueuedAudio(b[s].outq) - QueuedAudio(a[s].outq))
<1>1. /\ HopsQueued(a) \in Nat
      /\ QueuedSources(a[s].inq) \in Nat /\ QueuedSources(b[s].inq) \in Nat
      /\ HopsQueued(b) = HopsQueued(a) + (QueuedSources(b[s].inq) - QueuedSources(a[s].inq))
  <2> DEFINE f == HopsOf(a)
             g == HopsOf(b)
  <2>1. PICK t : IsTotal(t, f, Streams) /\ HopsQueued(a) = t[Streams]
    BY SumsAreTotals
  <2>2. PICK r : IsTotal(r, g, Streams) /\ HopsQueued(b) = r[Streams]
    BY SumsAreTotals
  <2>3. f \in [Streams -> Nat] /\ g \in [Streams -> Nat]
    BY SumsAreTotals
  <2>4. /\ f[s] = QueuedSources(a[s].inq) /\ g[s] = QueuedSources(b[s].inq)
        /\ \A x \in Streams \ {s} : g[x] = f[x]
    BY DEF HopsOf
  <2> HIDE DEF f, g
  <2>5. t[Streams] \in Nat /\ f[s] \in Nat /\ g[s] \in Nat /\ r[Streams] = t[Streams] + (g[s] - f[s])
    BY <2>1, <2>2, <2>3, <2>4, TotalChanges, StreamsAssumption
  <2> QED
    BY <2>1, <2>2, <2>4, <2>5
<1>2. /\ AudioQueued(a) \in Nat
      /\ QueuedAudio(a[s].outq) \in Nat /\ QueuedAudio(b[s].outq) \in Nat
      /\ AudioQueued(b) = AudioQueued(a) + (QueuedAudio(b[s].outq) - QueuedAudio(a[s].outq))
  <2> DEFINE f == AudioIn(a)
             g == AudioIn(b)
  <2>1. PICK t : IsTotal(t, f, Streams) /\ AudioQueued(a) = t[Streams]
    BY SumsAreTotals
  <2>2. PICK r : IsTotal(r, g, Streams) /\ AudioQueued(b) = r[Streams]
    BY SumsAreTotals
  <2>3. f \in [Streams -> Nat] /\ g \in [Streams -> Nat]
    BY SumsAreTotals
  <2>4. /\ f[s] = QueuedAudio(a[s].outq) /\ g[s] = QueuedAudio(b[s].outq)
        /\ \A x \in Streams \ {s} : g[x] = f[x]
    BY DEF AudioIn
  <2> HIDE DEF f, g
  <2>5. t[Streams] \in Nat /\ f[s] \in Nat /\ g[s] \in Nat /\ r[Streams] = t[Streams] + (g[s] - f[s])
    BY <2>1, <2>2, <2>3, <2>4, TotalChanges, StreamsAssumption
  <2> QED
    BY <2>1, <2>2, <2>4, <2>5
<1> QED
  BY <1>1, <1>2

\* With empty queues there is nothing to sum.
LEMMA SumsOfFresh ==
    ASSUME NEW sess, sess = [s \in Streams |-> FreshSession]
    PROVE  HopsQueued(sess) = 0 /\ AudioQueued(sess) = 0
<1> DEFINE nothing == [s \in Streams |-> 0]
           r == [u \in SUBSET Streams |-> 0]
<1>1. FreshSession \in BoundedSession
  BY SessionAssumption DEF FreshSession, BoundedSession, Session, CacheContent
<1>2. sess \in [Streams -> BoundedSession]
  BY <1>1
<1>3. HopsOf(sess) = nothing /\ AudioIn(sess) = nothing
  BY NoSources, NoAudio DEF HopsOf, AudioIn, FreshSession
<1>4. IsTotal(r, nothing, Streams) /\ r[Streams] = 0
  <2>1. \A u \in SUBSET Streams : u # {} => Chosen(u) \in u /\ WithoutChosen(u) \in SUBSET Streams
    BY Zenon DEF Chosen, WithoutChosen
  <2>2. \A u \in SUBSET Streams : u # {} => nothing[Chosen(u)] + r[WithoutChosen(u)] = 0
    BY <2>1
  <2>3. r = [u \in SUBSET Streams |-> IF u = {} THEN 0 ELSE nothing[Chosen(u)] + r[WithoutChosen(u)]]
    BY <2>2
  <2> QED
    BY <2>3 DEF IsTotal, Totals
<1> HIDE DEF r, nothing
<1>5. \A t : IsTotal(t, nothing, Streams) => t[Streams] = r[Streams]
  BY <1>4, TotalAgree, StreamsAssumption
<1> QED
  BY <1>2, <1>3, <1>4, <1>5, SumsAreTotals

\* The operations that leave one or both queues of a session as they are, and
\* the one that replaces the output queue.
LEMMA QueueFields ==
    ASSUME NEW x \in BoundedSession
    PROVE  /\ Unscheduled(x).outq = x.outq /\ Unscheduled(x).inq = x.inq
           /\ Dequeued(x).outq = x.outq
           /\ Notified(x).outq = x.outq /\ Notified(x).inq = x.inq
           /\ FlushPartial(x).outq = x.outq /\ FlushPartial(x).inq = x.inq
           /\ \A works, k : Enqueued(x, works, k).outq = x.outq
           /\ \A entry : Advance(x, entry).outq = x.outq /\ Advance(x, entry).inq = x.inq
           /\ \A n \in Nat : Accept(x, n).outq = x.outq /\ Accept(x, n).inq = x.inq
<1>1. \A n \in Nat : Accept(x, n).outq = x.outq /\ Accept(x, n).inq = x.inq
  BY DEF Accept, Rechunk, BoundedSession, Session
<1> QED
  BY <1>1 DEF Unscheduled, Dequeued, Notified, FlushPartial, Enqueued, Advance, BoundedSession, Session

LEMMA FailedAudio ==
    ASSUME NEW x \in BoundedSession, NEW reason \in Reasons
    PROVE  /\ Fail(x, reason).inq = x.inq
           /\ QueuedAudio(Fail(x, reason).outq) = 0
<1> DEFINE e == Failure(reason)
<1>1. /\ Fail(x, reason).inq = x.inq /\ Fail(x, reason).outq = <<e>>
  BY DEF Fail, BoundedSession, Session
<1>2. e \in OutputEvent /\ ~IsAudio(e)
  BY DEF Failure, OutputEvent, RPCFailure, IsAudio
<1> HIDE DEF e
<1>3. <<e>> = Append(<<>>, e) /\ <<>> \in Seq(OutputEvent)
  BY <1>2
<1>4. QueuedAudio(<<e>>) = 0 + 0
  BY <1>2, <1>3, AppendAudio, NoAudio DEF DequeuedAudio
<1> QED
  BY <1>1, <1>4

\* What the operations on a session do to what its queues hold.
LEMMA CompletedAudio ==
    ASSUME NEW x \in BoundedSession, NEW flushed \in BOOLEAN
    PROVE  /\ Complete(x, flushed).inq = x.inq
           /\ QueuedAudio(x.outq) \in Nat /\ CompleteDiscards(x) \in Nat
           /\ QueuedAudio(Complete(x, flushed).outq) = QueuedAudio(x.outq) - CompleteDiscards(x)
<1> DEFINE y == [x EXCEPT !.ended = TRUE]
           e == Completion(y, flushed)
<1>1. /\ y \in BoundedSession /\ y.outq = x.outq /\ y.inq = x.inq /\ x.outq \in Seq(OutputEvent)
      /\ OutputFull(y) <=> OutputFull(x)
  BY DEF BoundedSession, Session, OutputFull
<1>2. e \in OutputEvent /\ ~IsAudio(e)
  BY <1>1 DEF Completion, OutputEvent, StreamCompletion, BoundedSession, Session, IsAudio
<1> HIDE DEF y, e
<1>3. /\ QueuedAudio(x.outq) \in Nat
      /\ QueuedAudio(Append(x.outq, e)) = QueuedAudio(x.outq) + 0
  BY <1>1, <1>2, AppendAudio DEF DequeuedAudio
<1>4. CASE x.ended
  BY <1>3, <1>4 DEF Complete, CompleteDiscards
<1>5. CASE ~x.ended /\ OutputFull(x)
  <2>1. Complete(x, flushed) = Fail(y, "outputFull")
    BY <1>1, <1>5 DEF Complete, y
  <2>2. Fail(y, "outputFull").inq = x.inq /\ QueuedAudio(Fail(y, "outputFull").outq) = 0
    <3>1. "outputFull" \in Reasons
      BY DEF Reasons
    <3> QED
      BY <1>1, <3>1, FailedAudio
  <2> QED
    BY <1>3, <1>5, <2>1, <2>2 DEF CompleteDiscards
<1>6. CASE ~x.ended /\ ~OutputFull(x)
  <2>1. Complete(x, flushed) = Emit(y, e)
    BY <1>1, <1>6 DEF Complete, y, e
  <2>2. Emit(y, e).inq = x.inq /\ Emit(y, e).outq = Append(x.outq, e)
    BY <1>1 DEF Emit, BoundedSession, Session
  <2> QED
    BY <1>3, <1>6, <2>1, <2>2 DEF CompleteDiscards
<1> QED
  BY <1>4, <1>5, <1>6

LEMMA DeliveredAudio ==
    ASSUME NEW x \in BoundedSession, NEW entry \in ActiveEntry, Deliverable(x)
    PROVE  /\ Deliver(x, entry).inq = x.inq
           /\ QueuedAudio(x.outq) \in Nat /\ DeliveredSamples(x) \in Nat
           /\ QueuedAudio(Deliver(x, entry).outq) = QueuedAudio(x.outq) + DeliveredSamples(x)
<1> DEFINE a == Advance(x, entry)
           e == AudioOf(Enhanced(x, entry))
<1>1. a \in BoundedSession /\ a.outq = x.outq /\ a.inq = x.inq /\ x.outq \in Seq(OutputEvent)
  BY AdvanceType DEF Advance, BoundedSession, Session
<1>2. Failure("internal") \in OutputEvent
  BY DEF Failure, OutputEvent, RPCFailure, Reasons
<1>3. QueuedAudio(x.outq) \in Nat
  BY <1>1, <1>2, AppendAudio
<1>4. CASE x.pending = None
  BY <1>1, <1>3, <1>4 DEF Deliver, DeliveredSamples
<1>5. CASE x.pending # None
  <2>1. Enhanced(x, entry) \in EnhancedHop
    BY <1>5, DeliverType
  <2>2. e \in OutputEvent /\ IsAudio(e) /\ e.valid = x.pending.valid
    BY <2>1 DEF EnhancedHop, AudioOf, OutputAudio, OutputEvent, IsAudio, Enhanced
  <2>3. Deliver(x, entry).outq = Append(x.outq, e) /\ Deliver(x, entry).inq = x.inq
    BY <1>1, <1>5 DEF Deliver, Emit, BoundedSession, Session
  <2> HIDE DEF e
  <2>4. QueuedAudio(Append(x.outq, e)) = QueuedAudio(x.outq) + x.pending.valid /\ x.pending.valid \in Nat
    BY <1>1, <2>2, AppendAudio DEF DequeuedAudio
  <2> QED
    BY <1>3, <1>5, <2>3, <2>4 DEF DeliveredSamples
<1> QED
  BY <1>4, <1>5

LEMMA DequeuedSources ==
    ASSUME NEW x \in BoundedSession, x.inq # <<>>
    PROVE  /\ Dequeued(x).outq = x.outq
           /\ QueuedSources(x.inq) \in Nat /\ QueuedSources(Dequeued(x).inq) \in Nat
           /\ QueuedSources(x.inq) = One(Head(x.inq)) + QueuedSources(Dequeued(x).inq)
<1>1. x.inq \in Seq(ModelWork) /\ Tail(x.inq) \in Seq(ModelWork)
  BY DEF BoundedSession, Session
<1>2. Dequeued(x).inq = Tail(x.inq)
  BY DEF Dequeued, Unscheduled, BoundedSession, Session
<1> QED
  BY <1>1, <1>2, HeadSources, JoinSources, QueueFields

LEMMA EnqueuedSources ==
    ASSUME NEW x \in BoundedSession, NEW works \in Seq(ModelWork), NEW k \in Nat, k <= Len(works)
    PROVE  /\ Enqueued(x, works, k).outq = x.outq
           /\ QueuedSources(x.inq) \in Nat /\ QueuedSources(SubSeq(works, 1, k)) \in Nat
           /\ QueuedSources(Enqueued(x, works, k).inq)
                = QueuedSources(x.inq) + QueuedSources(SubSeq(works, 1, k))
<1> DEFINE put == SubSeq(works, 1, k)
<1>1. x.inq \in Seq(ModelWork) /\ put \in Seq(ModelWork)
  BY DEF BoundedSession, Session
<1>2. Enqueued(x, works, k).inq = x.inq \o put
  BY DEF Enqueued, BoundedSession, Session
<1>3. Enqueued(x, works, k).outq = x.outq
  BY QueueFields
<1> HIDE DEF put
<1>4. /\ QueuedSources(x.inq) \in Nat /\ QueuedSources(put) \in Nat
      /\ QueuedSources(x.inq \o put) = QueuedSources(x.inq) + QueuedSources(put)
  BY <1>1, JoinSources
<1> QED
  BY <1>2, <1>3, <1>4 DEF put

(* The input and output gauges, step by step. *)

QueueGauges ==
    /\ inputGauge = HopSamples * HopsQueued(session)
    /\ outputGauge = AudioQueued(session)

\* A step that changes one session keeps the gauges right if it adjusts them by
\* what the session's queues gained or lost.
LEMMA GaugesFollow ==
    ASSUME SessionTypeOK, SessionTypeOK', QueueGauges, NEW s \in Streams, NEW y,
           session' = [session EXCEPT ![s] = y],
           inputGauge' = inputGauge
               + HopSamples * (QueuedSources(y.inq) - QueuedSources(session[s].inq)),
           outputGauge' = outputGauge + (QueuedAudio(y.outq) - QueuedAudio(session[s].outq))
    PROVE  QueueGauges'
<1>1. session \in [Streams -> BoundedSession] /\ session' \in [Streams -> BoundedSession]
  BY DEF SessionTypeOK
<1>2. session'[s] = y /\ \A x \in Streams \ {s} : session'[x] = session[x]
  BY <1>1
<1>3. PICK a : a = session
  OBVIOUS
<1>4. PICK b : b = session'
  OBVIOUS
<1>5. /\ HopsQueued(a) \in Nat /\ AudioQueued(a) \in Nat
      /\ QueuedSources(a[s].inq) \in Nat /\ QueuedSources(b[s].inq) \in Nat
      /\ QueuedAudio(a[s].outq) \in Nat /\ QueuedAudio(b[s].outq) \in Nat
      /\ HopsQueued(b) = HopsQueued(a) + (QueuedSources(b[s].inq) - QueuedSources(a[s].inq))
      /\ AudioQueued(b) = AudioQueued(a) + (QueuedAudio(b[s].outq) - QueuedAudio(a[s].outq))
  BY <1>1, <1>2, <1>3, <1>4, SumsChange
<1>6. PICK h, p, q : h = HopsQueued(a) /\ p = QueuedSources(b[s].inq) /\ q = QueuedSources(a[s].inq)
  OBVIOUS
<1>7. h \in Nat /\ p \in Nat /\ q \in Nat /\ HopsQueued(b) = h + (p - q) /\ HopSamples \in Nat
  BY <1>5, <1>6, SessionAssumption
<1>8. inputGauge = HopSamples * h /\ inputGauge' = inputGauge + HopSamples * (p - q)
  BY <1>2, <1>3, <1>4, <1>6 DEF QueueGauges
<1>9. inputGauge' = HopSamples * (h + (p - q))
  <2>1. HopSamples * h + HopSamples * (p - q) = HopSamples * (h + (p - q))
    BY <1>7
  <2> QED
    BY <1>8, <2>1
<1>10. outputGauge' = AudioQueued(a) + (QueuedAudio(b[s].outq) - QueuedAudio(a[s].outq))
  BY <1>2, <1>3, <1>4 DEF QueueGauges
<1>11. inputGauge' = HopSamples * HopsQueued(session') /\ outputGauge' = AudioQueued(session')
  BY <1>4, <1>5, <1>7, <1>9, <1>10
<1> QED
  BY <1>11 DEF QueueGauges

LEMMA GaugesStay ==
    ASSUME QueueGauges, UNCHANGED <<session, inputGauge, outputGauge>>
    PROVE  QueueGauges'
BY DEF QueueGauges

LEMMA HoldsNat ==
    ASSUME NEW x \in BoundedSession
    PROVE  QueuedSources(x.inq) \in Nat /\ QueuedAudio(x.outq) \in Nat
<1>1. x.inq \in Seq(ModelWork) /\ x.outq \in Seq(OutputEvent)
  BY DEF BoundedSession, Session
<1>2. Failure("internal") \in OutputEvent
  BY DEF Failure, OutputEvent, RPCFailure, Reasons
<1> QED
  BY <1>1, <1>2, JoinSources, AppendAudio

\* The gauges are integers as long as they match.
LEMMA GaugeTypes ==
    ASSUME SessionTypeOK, QueueGauges, Streams # {}
    PROVE  inputGauge \in Int /\ outputGauge \in Int
<1>1. session \in [Streams -> BoundedSession]
  BY DEF SessionTypeOK
<1>2. PICK s : s \in Streams
  OBVIOUS
<1>3. HopsQueued(session) \in Nat /\ AudioQueued(session) \in Nat
  BY <1>1, <1>2, SumsChange
<1> QED
  BY <1>3, SessionAssumption DEF QueueGauges

\* The forms in which the actions meet GaugesFollow: a stream's session changes,
\* its input queue loses or gains hops or its output queue samples, the gauges too.
LEMMA GaugesAdjusted ==
    ASSUME SessionTypeOK, SessionTypeOK', QueueGauges, NEW s \in Streams, NEW y,
           session' = [session EXCEPT ![s] = y],
           NEW hops \in Int, NEW samples \in Int,
           inputGauge' = inputGauge + HopSamples * hops, outputGauge' = outputGauge + samples,
           QueuedSources(y.inq) = QueuedSources(session[s].inq) + hops,
           QueuedAudio(y.outq) = QueuedAudio(session[s].outq) + samples
    PROVE  QueueGauges'
<1>1. session[s] \in BoundedSession
  BY DEF SessionTypeOK
<1>2. QueuedSources(session[s].inq) \in Nat /\ QueuedAudio(session[s].outq) \in Nat
  BY <1>1, HoldsNat
<1>3. PICK a, b : a = QueuedSources(session[s].inq) /\ b = QueuedAudio(session[s].outq)
  OBVIOUS
<1>4. (a + hops) - a = hops /\ (b + samples) - b = samples
  BY <1>2, <1>3
<1> QED
  BY <1>3, <1>4, GaugesFollow

LEMMA SourceGauge ==
    ASSUME NEW work
    PROVE  /\ One(work) \in Nat /\ GaugedHop(work) = HopSamples * One(work)
           /\ One(NoFlushWork) = 0
BY SessionAssumption DEF One, GaugedHop, IsSource, NoFlushWork

\* No input queue changes.
LEMMA OutputAdjusted ==
    ASSUME SessionTypeOK, SessionTypeOK', QueueGauges, NEW s \in Streams, NEW y,
           session' = [session EXCEPT ![s] = y], NEW samples \in Int,
           inputGauge' = inputGauge, outputGauge' = outputGauge + samples,
           QueuedSources(y.inq) = QueuedSources(session[s].inq),
           QueuedAudio(y.outq) = QueuedAudio(session[s].outq) + samples
    PROVE  QueueGauges'
<1>1. inputGauge \in Int
  BY GaugeTypes
<1>2. session[s] \in BoundedSession
  BY DEF SessionTypeOK
<1>3. QueuedSources(session[s].inq) \in Nat
  BY <1>2, HoldsNat
<1>4. inputGauge' = inputGauge + HopSamples * 0
  BY <1>1, SessionAssumption
<1>5. QueuedSources(y.inq) = QueuedSources(session[s].inq) + 0
  BY <1>3
<1>6. 0 \in Int
  OBVIOUS
<1> QED
  BY <1>4, <1>5, <1>6, GaugesAdjusted

\* No output queue changes.
LEMMA InputAdjusted ==
    ASSUME SessionTypeOK, SessionTypeOK', QueueGauges, NEW s \in Streams, NEW y,
           session' = [session EXCEPT ![s] = y], NEW hops \in Int,
           inputGauge' = inputGauge + HopSamples * hops, outputGauge' = outputGauge,
           QueuedSources(y.inq) = QueuedSources(session[s].inq) + hops,
           QueuedAudio(y.outq) = QueuedAudio(session[s].outq)
    PROVE  QueueGauges'
<1>1. outputGauge \in Int
  BY GaugeTypes
<1>2. session[s] \in BoundedSession
  BY DEF SessionTypeOK
<1>3. QueuedAudio(session[s].outq) \in Nat
  BY <1>2, HoldsNat
<1>4. outputGauge' = outputGauge + 0
  BY <1>1
<1>5. QueuedAudio(y.outq) = QueuedAudio(session[s].outq) + 0
  BY <1>3
<1>6. 0 \in Int
  OBVIOUS
<1> QED
  BY <1>4, <1>5, <1>6, GaugesAdjusted

LEMMA DispatchGauges ==
    ASSUME TypeInv, TypeInv', QueueGauges, DispatchSkip \/ DispatchNoFlush \/ DispatchWork
    PROVE  QueueGauges'
<1> SUFFICES ASSUME NEW s, s = NextToDispatch, NEW x, x = session[s]
             PROVE  QueueGauges'
  OBVIOUS
<1>1. s \in Streams /\ x \in BoundedSession
  BY DispatchedStream DEF DispatchSkip, DispatchNoFlush, DispatchWork
<1>2. SessionTypeOK /\ SessionTypeOK' /\ inputGauge \in Int /\ outputGauge \in Int
  BY <1>1, GaugeTypes DEF TypeInv, TypeOK
<1>3. QueuedSources(x.inq) \in Nat /\ QueuedAudio(x.outq) \in Nat
  BY <1>1, HoldsNat
<1>4. CASE DispatchSkip
  <2> DEFINE y == Unscheduled(x)
  <2>1. session' = [session EXCEPT ![s] = y] /\ UNCHANGED <<inputGauge, outputGauge>>
    BY <1>4 DEF DispatchSkip
  <2>2. y.outq = x.outq /\ y.inq = x.inq
    BY <1>1, QueueFields
  <2> HIDE DEF y
  <2>3. /\ 0 \in Int /\ outputGauge' = outputGauge + 0
        /\ QueuedAudio(y.outq) = QueuedAudio(x.outq) + 0
        /\ QueuedSources(y.inq) = QueuedSources(x.inq)
    BY <1>2, <1>3, <2>1, <2>2
  <2> QED
    BY <1>1, <1>2, <2>1, <2>3, OutputAdjusted
<1>5. CASE DispatchWork
  <2> DEFINE y == Dequeued(x)
             work == Head(x.inq)
  <2>1. /\ session' = [session EXCEPT ![s] = y] /\ UNCHANGED outputGauge
        /\ inputGauge' = inputGauge - GaugedHop(work) /\ x.inq # <<>>
    BY <1>5 DEF DispatchWork, NothingToDispatch
  <2>2. /\ y.outq = x.outq /\ QueuedSources(y.inq) \in Nat
        /\ QueuedSources(x.inq) = One(work) + QueuedSources(y.inq)
    BY <1>1, <2>1, DequeuedSources
  <2>3. One(work) \in Nat /\ GaugedHop(work) = HopSamples * One(work)
    BY SourceGauge
  <2> HIDE DEF y, work
  <2>4. PICK n \in Nat : n = One(work)
    BY <2>3
  <2>5. inputGauge' = inputGauge + HopSamples * (-n)
    <3>1. HopSamples * n \in Int /\ HopSamples * (-n) = -(HopSamples * n)
      BY SessionAssumption
    <3> QED
      BY <1>2, <2>1, <2>3, <2>4, <3>1
  <2>6. QueuedSources(y.inq) = QueuedSources(x.inq) + (-n) /\ -n \in Int
    BY <1>3, <2>2, <2>4
  <2>7. QueuedAudio(y.outq) = QueuedAudio(x.outq)
    BY <2>2
  <2> QED
    BY <1>1, <1>2, <2>1, <2>5, <2>6, <2>7, InputAdjusted
<1>6. CASE DispatchNoFlush
  <2> DEFINE d == Dequeued(x)
             p == [d EXCEPT !.pending = None]
             y == Complete(p, FALSE)
             discarded == CompleteDiscards(d)
  <2>1. /\ session' = [session EXCEPT ![s] = y] /\ UNCHANGED inputGauge
        /\ outputGauge' = outputGauge - discarded
        /\ x.inq # <<>> /\ Head(x.inq) = NoFlushWork
    BY <1>6 DEF DispatchNoFlush, CompleteWithoutFlush, NothingToDispatch
  <2>2. d \in BoundedSession
    BY <1>1, <2>1, DequeuedType
  <2>3. d.outq = x.outq /\ QueuedSources(x.inq) = QueuedSources(d.inq)
    <3>1. /\ d.outq = x.outq /\ QueuedSources(d.inq) \in Nat
          /\ QueuedSources(x.inq) = One(NoFlushWork) + QueuedSources(d.inq)
      BY <1>1, <2>1, DequeuedSources
    <3> QED
      BY <3>1, SourceGauge
  <2> HIDE DEF d
  <2>4. /\ p \in BoundedSession /\ p.outq = d.outq /\ p.inq = d.inq
        /\ CompleteDiscards(p) = discarded
    BY <2>2 DEF BoundedSession, Session, CompleteDiscards, OutputFull
  <2> HIDE DEF p, discarded
  <2>5. /\ y.inq = p.inq /\ discarded \in Nat
        /\ QueuedAudio(y.outq) = QueuedAudio(p.outq) - discarded
    BY <2>4, CompletedAudio
  <2> HIDE DEF y
  <2>6. /\ -discarded \in Int /\ outputGauge' = outputGauge + (-discarded)
        /\ QueuedAudio(y.outq) = QueuedAudio(x.outq) + (-discarded)
        /\ QueuedSources(y.inq) = QueuedSources(x.inq)
    BY <1>2, <1>3, <2>1, <2>3, <2>4, <2>5
  <2> QED
    BY <1>1, <1>2, <2>1, <2>6, OutputAdjusted
<1> QED
  BY <1>4, <1>5, <1>6

LEMMA ReturnGauges ==
    ASSUME TypeInv, TypeInv', QueueGauges,
           \/ FailEntry \/ DistributeOverflow
           \/ DistributeFlush \/ DistributeHop \/ DistributeDies
    PROVE  QueueGauges'
<1> SUFFICES ASSUME NEW entry, entry = Returned, NEW s, s = entry.stream, NEW x, x = session[s]
             PROVE  QueueGauges'
  OBVIOUS
<1>1. s \in Streams /\ x \in BoundedSession /\ entry \in ActiveEntry
  BY ReturnedType
     DEF FailEntry, DistributeOverflow, DistributeFlush, DistributeHop, DistributeDies
<1>2. SessionTypeOK /\ SessionTypeOK' /\ inputGauge \in Int /\ outputGauge \in Int
  BY <1>1, GaugeTypes DEF TypeInv, TypeOK
<1>3. QueuedSources(x.inq) \in Nat /\ QueuedAudio(x.outq) \in Nat
  BY <1>1, HoldsNat
<1>4. CASE FailEntry \/ DistributeOverflow
  <2>1. \E z \in BoundedSession, reason \in Reasons :
           /\ session' = [session EXCEPT ![s] = Fail(z, reason)]
           /\ z.inq = x.inq
    <3>1. "inference" \in Reasons /\ "outputFull" \in Reasons
      BY DEF Reasons
    <3>2. Advance(x, entry) \in BoundedSession /\ Advance(x, entry).inq = x.inq
      BY <1>1, AdvanceType, QueueFields
    <3> QED
      BY <1>1, <1>4, <3>1, <3>2 DEF FailEntry, DistributeOverflow, Returned
  <2>2. PICK z \in BoundedSession, reason \in Reasons :
           /\ session' = [session EXCEPT ![s] = Fail(z, reason)]
           /\ z.inq = x.inq
    BY <2>1
  <2> DEFINE y == Fail(z, reason)
             lost == QueuedAudio(x.outq)
  <2>3. UNCHANGED inputGauge /\ outputGauge' = outputGauge - lost
    BY <1>4 DEF FailEntry, DistributeOverflow, Returned
  <2>4. y.inq = x.inq /\ QueuedAudio(y.outq) = 0
    BY <2>2, FailedAudio
  <2>5. session' = [session EXCEPT ![s] = y] /\ lost \in Nat
    BY <1>3, <2>2
  <2> HIDE DEF y, lost
  <2>6. /\ -lost \in Int /\ outputGauge' = outputGauge + (-lost)
        /\ QueuedAudio(y.outq) = lost + (-lost)
        /\ QueuedSources(y.inq) = QueuedSources(x.inq)
    BY <1>2, <2>3, <2>4, <2>5
  <2> QED
    BY <1>1, <1>2, <2>3, <2>5, <2>6, OutputAdjusted DEF lost
<1>5. CASE DistributeFlush \/ DistributeHop \/ DistributeDies
  <2> DEFINE d == Deliver(x, entry)
             given == DeliveredSamples(x)
  <2>1. Deliverable(x)
    BY <1>5 DEF DistributeFlush, DistributeHop, DistributeDies
  <2>2. /\ d \in BoundedSession /\ d.inq = x.inq /\ given \in Nat
        /\ QueuedAudio(d.outq) = QueuedAudio(x.outq) + given
    BY <1>1, <2>1, DeliverType, DeliveredAudio
  <2>3. CASE DistributeFlush
    <3> DEFINE y == Complete(d, TRUE)
               discarded == CompleteDiscards(d)
    <3>1. /\ session' = [session EXCEPT ![s] = y] /\ UNCHANGED inputGauge
          /\ outputGauge' = outputGauge + given - discarded
      BY <2>3 DEF DistributeFlush
    <3> HIDE DEF d
    <3>2. /\ y.inq = d.inq /\ discarded \in Nat
          /\ QueuedAudio(y.outq) = QueuedAudio(d.outq) - discarded
      BY <2>2, CompletedAudio
    <3> HIDE DEF y, given, discarded
    <3>3. /\ given - discarded \in Int /\ outputGauge' = outputGauge + (given - discarded)
          /\ QueuedAudio(y.outq) = QueuedAudio(x.outq) + (given - discarded)
          /\ QueuedSources(y.inq) = QueuedSources(x.inq)
      BY <1>2, <1>3, <2>2, <3>1, <3>2
    <3> QED
      BY <1>1, <1>2, <3>1, <3>3, OutputAdjusted
  <2>4. CASE DistributeHop \/ DistributeDies
    <3> DEFINE y == Notified(d)
    <3>1. /\ session' = [session EXCEPT ![s] = y] /\ UNCHANGED inputGauge
          /\ outputGauge' = outputGauge + given
      BY <2>4 DEF DistributeHop, DistributeDies
    <3> HIDE DEF d
    <3>2. y.inq = d.inq /\ y.outq = d.outq
      BY <2>2, QueueFields
    <3> HIDE DEF y, given
    <3>3. /\ given \in Int
          /\ QueuedAudio(y.outq) = QueuedAudio(x.outq) + given
          /\ QueuedSources(y.inq) = QueuedSources(x.inq)
      BY <2>2, <3>2
    <3> QED
      BY <1>1, <1>2, <3>1, <3>3, OutputAdjusted
  <2> QED
    BY <1>5, <2>3, <2>4
<1> QED
  BY <1>4, <1>5

LEMMA SchedulerGauges ==
    ASSUME TypeInv, TypeInv', QueueGauges, SchedulerStep
    PROVE  QueueGauges'
<1>1. CASE TakeFirst \/ TakeMore \/ InferenceDone \/ InferenceFails \/ DistributeSkip
  BY <1>1, GaugesStay DEF TakeFirst, TakeMore, InferenceDone, InferenceFails, DistributeSkip
<1> QED
  BY <1>1, DispatchGauges, ReturnGauges DEF SchedulerStep, RunStep

LEMMA FinalizeGauges ==
    ASSUME TypeInv, TypeInv', QueueGauges, NEW s \in Streams, Finalize(s)
    PROVE  QueueGauges'
<1> DEFINE x == session[s]
           y == [x EXCEPT !.cancelled = TRUE, !.inq = <<>>, !.outq = <<>>]
           hops == QueuedSources(x.inq)
           samples == QueuedAudio(x.outq)
<1>1. SessionTypeOK /\ SessionTypeOK' /\ inputGauge \in Int /\ outputGauge \in Int
  BY GaugeTypes DEF TypeInv, TypeOK
<1>2. x \in BoundedSession
  BY <1>1 DEF SessionTypeOK
<1>3. hops \in Nat /\ samples \in Nat
  BY <1>2, HoldsNat
<1>4. /\ session' = [session EXCEPT ![s] = y]
      /\ inputGauge' = inputGauge - HopSamples * hops /\ outputGauge' = outputGauge - samples
  BY DEF Finalize
<1>5. y.inq = <<>> /\ y.outq = <<>>
  BY <1>2 DEF BoundedSession, Session
<1>6. QueuedSources(y.inq) = 0 /\ QueuedAudio(y.outq) = 0
  BY <1>5, NoSources, NoAudio
<1> HIDE DEF y, hops, samples
<1>7. /\ -hops \in Int /\ -samples \in Int
      /\ outputGauge' = outputGauge + (-samples)
      /\ QueuedSources(y.inq) = hops + (-hops) /\ QueuedAudio(y.outq) = samples + (-samples)
  BY <1>1, <1>3, <1>4, <1>6
<1>8. inputGauge' = inputGauge + HopSamples * (-hops)
  <2>1. HopSamples * hops \in Int /\ HopSamples * (-hops) = -(HopSamples * hops)
    BY <1>3, SessionAssumption
  <2> QED
    BY <1>1, <1>4, <2>1
<1> QED
  BY <1>1, <1>4, <1>7, <1>8, GaugesAdjusted DEF hops, samples

LEMMA TakeEventGauges ==
    ASSUME TypeInv, TypeInv', QueueGauges, NEW s \in Streams, TakeEvent(s)
    PROVE  QueueGauges'
<1> DEFINE x == session[s]
           y == [x EXCEPT !.outq = Tail(@)]
           taken == DequeuedAudio(Head(x.outq))
<1>1. SessionTypeOK /\ SessionTypeOK' /\ inputGauge \in Int /\ outputGauge \in Int
  BY GaugeTypes DEF TypeInv, TypeOK
<1>2. x \in BoundedSession
  BY <1>1 DEF SessionTypeOK
<1>3. /\ session' = [session EXCEPT ![s] = y] /\ UNCHANGED inputGauge
      /\ outputGauge' = outputGauge - taken /\ x.outq # <<>>
  BY DEF TakeEvent
<1>4. /\ y.inq = x.inq /\ y.outq = Tail(x.outq)
      /\ x.outq \in Seq(OutputEvent) /\ Head(x.outq) \in OutputEvent
      /\ Tail(x.outq) \in Seq(OutputEvent)
  BY <1>2, <1>3 DEF BoundedSession, Session
<1>5. /\ taken \in Nat /\ QueuedAudio(Tail(x.outq)) \in Nat
      /\ QueuedAudio(x.outq) = taken + QueuedAudio(Tail(x.outq))
  BY <1>3, <1>4, HeadAudio, AppendAudio
<1> HIDE DEF y, taken
<1>6. /\ -taken \in Int /\ outputGauge' = outputGauge + (-taken)
      /\ QueuedAudio(y.outq) = QueuedAudio(x.outq) + (-taken)
      /\ QueuedSources(y.inq) = QueuedSources(x.inq)
  BY <1>1, <1>3, <1>4, <1>5
<1> QED
  BY <1>1, <1>3, <1>6, OutputAdjusted

LEMMA HandlerGauges ==
    ASSUME TypeInv, TypeInv', QueueGauges, NEW s \in Streams, Handler(s)
    PROVE  QueueGauges'
<1>1. CASE \/ \E id \in StreamIds : Start(s, id) \/ RefuseStart(s, id)
           \/ RejectFirst(s) \/ MessageSent(s)
  BY <1>1, GaugesStay DEF Start, RefuseStart, RejectFirst, MessageSent, schedVars
<1> QED
  BY <1>1, FinalizeGauges, TakeEventGauges DEF Handler, EndedSent, AbortSent, CancelRPC

\* The reader's failures empty the output queue; "hops" were put before.
LEMMA ReaderFailsGauges ==
    ASSUME TypeInv, TypeInv', QueueGauges, NEW s \in Streams,
           NEW x \in BoundedSession, x.outq = session[s].outq, NEW hops \in Int,
           QueuedSources(x.inq) = QueuedSources(session[s].inq) + hops,
           NEW reason \in Reasons, ReaderFails(s, x, reason),
           inputGauge' = inputGauge + HopSamples * hops
    PROVE  QueueGauges'
<1> DEFINE y == Fail(x, reason)
           samples == QueuedAudio(x.outq)
<1>1. SessionTypeOK /\ SessionTypeOK' /\ inputGauge \in Int /\ outputGauge \in Int
  BY GaugeTypes DEF TypeInv, TypeOK
<1>2. samples \in Nat
  BY HoldsNat
<1>3. session' = [session EXCEPT ![s] = y] /\ outputGauge' = outputGauge - samples
  BY DEF ReaderFails
<1>4. y.inq = x.inq /\ QueuedAudio(y.outq) = 0
  BY FailedAudio
<1> HIDE DEF y, samples
<1>5. /\ -samples \in Int /\ outputGauge' = outputGauge + (-samples)
      /\ QueuedAudio(y.outq) = samples + (-samples)
      /\ QueuedSources(y.inq) = QueuedSources(session[s].inq) + hops
  BY <1>1, <1>2, <1>3, <1>4
<1>6. QueuedAudio(y.outq) = QueuedAudio(session[s].outq) + (-samples)
  BY <1>5 DEF samples
<1> QED
  BY <1>1, <1>3, <1>5, <1>6, GaugesAdjusted

LEMMA PutGauges ==
    ASSUME TypeInv, TypeInv', QueueGauges, NEW s \in Streams,
           NEW x \in BoundedSession, x.inq = session[s].inq, x.outq = session[s].outq,
           NEW works \in Seq(ModelWork),
           Put(s, x, works) \/ PutRaises(s, x, works)
    PROVE  QueueGauges'
<1> DEFINE k == Fitting(x, works)
           put == QueuedSources(SubSeq(works, 1, k))
<1>1. SessionTypeOK /\ SessionTypeOK' /\ inputGauge \in Int /\ outputGauge \in Int
  BY GaugeTypes DEF TypeInv, TypeOK
<1>2. k \in Nat /\ k <= Room(x) /\ k <= Len(works)
  BY FittingBounds
<1>3. CASE Put(s, x, works)
  <2> DEFINE e == Enqueued(x, works, k)
             y == IF k = 0 THEN e ELSE Notified(e)
  <2>1. /\ session' = [session EXCEPT ![s] = y] /\ UNCHANGED outputGauge
        /\ inputGauge' = inputGauge + HopSamples * put
    BY <1>3 DEF Put
  <2>2. e \in BoundedSession
    BY <1>2, EnqueuedType
  <2>3. e.outq = x.outq /\ put \in Nat /\ QueuedSources(e.inq) = QueuedSources(x.inq) + put
    BY <1>2, EnqueuedSources
  <2> HIDE DEF e, k
  <2>4. y.outq = e.outq /\ y.inq = e.inq
    BY <2>2, QueueFields
  <2> HIDE DEF y, put
  <2>5. /\ put \in Int /\ QueuedAudio(y.outq) = QueuedAudio(session[s].outq)
        /\ QueuedSources(y.inq) = QueuedSources(session[s].inq) + put
    BY <2>3, <2>4
  <2> QED
    BY <1>1, <2>1, <2>5, InputAdjusted
<1>4. CASE PutRaises(s, x, works)
  <2> DEFINE e == Enqueued(x, works, 1)
             y == Notified(e)
             first == Head(works)
  <2>1. /\ ReaderFails(s, y, "internal") /\ k > 0
        /\ inputGauge' = inputGauge + GaugedHop(first)
    BY <1>4 DEF PutRaises
  <2>2. /\ Room(x) \in Int /\ Len(works) \in Nat
    BY SessionAssumption DEF Room, BoundedSession, Session
  <2>3. 1 \in Nat /\ 1 <= Room(x) /\ 1 <= Len(works)
    BY <1>2, <2>1, <2>2
  <2>4. e \in BoundedSession
    BY <2>3, EnqueuedType
  <2>5. /\ e.outq = x.outq
        /\ QueuedSources(e.inq) = QueuedSources(x.inq) + QueuedSources(SubSeq(works, 1, 1))
    BY <2>3, EnqueuedSources
  <2>6. QueuedSources(SubSeq(works, 1, 1)) = One(first)
    <3>1. works # <<>> /\ first \in ModelWork /\ first = works[1]
      BY <2>3
    <3>2. SubSeq(works, 1, 1) = Append(<<>>, first)
      <4>1. 1 \in 1..Len(works)
        BY <2>3
      <4>2. SubSeq(works, 1, 1) = SubSeq(works, 1, 1 - 1) \o <<works[1]>>
        BY <4>1, SubSeqRecursiveSecond
      <4>3. SubSeq(works, 1, 1 - 1) = <<>>
        BY SubSeqEmpty
      <4>4. <<>> \in Seq(ModelWork)
        OBVIOUS
      <4>5. Append(<<>>, first) = <<>> \o <<first>>
        BY <3>1, <4>4, AppendIsConcat
      <4> QED
        BY <3>1, <4>2, <4>3, <4>5
    <3> HIDE DEF first
    <3>3. Append(<<>>, first) = <<first>>
      BY <3>1
    <3> QED
      BY <3>1, <3>2, <3>3, HeadSources DEF first
  <2> HIDE DEF e
  <2>7. y \in BoundedSession /\ y.outq = e.outq /\ y.inq = e.inq
    BY <2>4, NotifiedType, QueueFields
  <2> HIDE DEF y, first
  <2>8. PICK n \in Nat : n = One(first) /\ GaugedHop(first) = HopSamples * n
    BY SourceGauge
  <2>9. /\ n \in Int /\ QueuedSources(y.inq) = QueuedSources(session[s].inq) + n
        /\ y.outq = session[s].outq /\ inputGauge' = inputGauge + HopSamples * n
        /\ "internal" \in Reasons
    BY <2>1, <2>5, <2>6, <2>7, <2>8 DEF Reasons
  <2> QED
    BY <2>1, <2>7, <2>9, ReaderFailsGauges
<1> QED
  BY <1>3, <1>4

LEMMA ReaderGauges ==
    ASSUME TypeInv, TypeInv', QueueGauges, NEW s \in Streams, Reader(s)
    PROVE  QueueGauges'
<1> DEFINE x == session[s]
<1>1. SessionTypeOK /\ SessionTypeOK' /\ inputGauge \in Int /\ outputGauge \in Int
  BY GaugeTypes DEF TypeInv, TypeOK
<1>2. x \in BoundedSession /\ toPut[s] \in Seq(ModelWork)
  BY DEF TypeInv, TypeOK, SessionTypeOK, ServiceTypeOK
<1>3. MaxAudioChunkSamples \in Nat
  BY ServiceAssumption
<1>4. ASSUME NEW n \in 1..MaxAudioChunkSamples, AcceptAudio(s, n) PROVE QueueGauges'
  <2> DEFINE y == Accept(x, n)
             works == FullHops(x, n)
  <2>1. Put(s, y, works) \/ PutRaises(s, y, works)
    BY <1>4 DEF AcceptAudio
  <2>2. n \in Nat
    BY <1>3
  <2>3. y \in BoundedSession /\ works \in Seq(ModelWork) /\ y.inq = x.inq /\ y.outq = x.outq
    BY <1>2, <2>2, RechunkType, QueueFields
  <2> HIDE DEF y, works
  <2> QED
    BY <2>1, <2>3, PutGauges
<1>5. ASSUME NEW y \in BoundedSession, y.inq = x.inq, y.outq = x.outq, NEW reason \in Reasons,
             ReaderFails(s, y, reason), inputGauge' = inputGauge
      PROVE  QueueGauges'
  <2>1. QueuedSources(x.inq) \in Nat
    BY <1>2, HoldsNat
  <2>2. /\ 0 \in Int /\ QueuedSources(y.inq) = QueuedSources(x.inq) + 0
        /\ inputGauge' = inputGauge + HopSamples * 0
    BY <1>1, <1>5, <2>1, SessionAssumption
  <2> QED
    BY <1>5, <2>2, ReaderFailsGauges
<1>6. ASSUME NEW n \in 1..MaxAudioChunkSamples, ChunkRefused(s, n) PROVE QueueGauges'
  <2> DEFINE y == [x EXCEPT !.inputSamples = @ + n]
  <2>1. x.inputSamples + n \in Nat
    BY <1>2, <1>3 DEF BoundedSession, Session
  <2>2. y \in BoundedSession /\ y.inq = x.inq /\ y.outq = x.outq
    BY <1>2, <2>1, FieldType DEF BoundedSession, Session
  <2>3. ReaderFails(s, y, "inputFull") /\ inputGauge' = inputGauge /\ "inputFull" \in Reasons
    BY <1>6 DEF ChunkRefused, Reasons
  <2> HIDE DEF y
  <2> QED
    BY <1>5, <2>2, <2>3
<1>7. CASE ProtocolViolation(s) \/ IdleTimeout(s)
  <2>1. ReaderFails(s, x, "protocol") /\ inputGauge' = inputGauge /\ "protocol" \in Reasons
    BY <1>7 DEF ProtocolViolation, IdleTimeout, Reasons
  <2> QED
    BY <1>2, <1>5, <2>1
<1>8. CASE EndWithoutFlush(s)
  <2>1. <<NoFlushWork>> \in Seq(ModelWork)
    BY DEF ModelWork
  <2> QED
    BY <1>2, <1>8, <2>1, PutGauges DEF EndWithoutFlush
<1>9. CASE EndWithFlush(s)
  <2> DEFINE y == FlushPartial(x)
             works == TerminalWorks(x)
  <2>1. Put(s, y, works) \/ PutRaises(s, y, works)
    BY <1>9 DEF EndWithFlush
  <2>2. y \in BoundedSession /\ works \in Seq(ModelWork) /\ y.inq = x.inq /\ y.outq = x.outq
    BY <1>2, FlushType, QueueFields
  <2> HIDE DEF y, works
  <2> QED
    BY <2>1, <2>2, PutGauges
<1>10. CASE EndEmptyStream(s)
  <2> DEFINE y == Complete(x, TRUE)
             discarded == CompleteDiscards(x)
  <2>1. /\ session' = [session EXCEPT ![s] = y] /\ UNCHANGED inputGauge
        /\ outputGauge' = outputGauge - discarded
    BY <1>10 DEF EndEmptyStream
  <2>2. /\ y.inq = x.inq /\ discarded \in Nat /\ QueuedAudio(x.outq) \in Nat
        /\ QueuedAudio(y.outq) = QueuedAudio(x.outq) - discarded
    BY <1>2, CompletedAudio
  <2> HIDE DEF y, discarded
  <2>3. /\ -discarded \in Int /\ outputGauge' = outputGauge + (-discarded)
        /\ QueuedAudio(y.outq) = QueuedAudio(x.outq) + (-discarded)
        /\ QueuedSources(y.inq) = QueuedSources(x.inq)
    BY <1>1, <2>1, <2>2
  <2> QED
    BY <1>1, <2>1, <2>3, OutputAdjusted
<1>11. CASE ResumePut(s)
  BY <1>2, <1>11, PutGauges DEF ResumePut
<1>12. CASE HalfClose(s)
  BY <1>12, GaugesStay DEF HalfClose, schedVars
<1> QED
  BY <1>4, <1>6, <1>7, <1>8, <1>9, <1>10, <1>11, <1>12 DEF Reader

(* The gauge of active streams: the registry has as many entries. *)

ActiveMatches == IsFiniteSet(RegisteredIds) /\ activeGauge = Cardinality(RegisteredIds)

LEMMA StartActive ==
    ASSUME TypeInv, ActiveMatches, NEW s \in Streams, NEW id \in StreamIds, Start(s, id)
    PROVE  ActiveMatches'
<1>1. /\ registry \in [StreamIds -> Streams \cup {None}]
      /\ registry[id] = None /\ registry' = [registry EXCEPT ![id] = s]
      /\ activeGauge' = activeGauge + 1
  BY DEF TypeInv, TypeOK, ServiceTypeOK, Start, Refused
<1> DEFINE now == RegisteredIds
<1>2. id \notin now /\ RegisteredIds' = now \cup {id}
  BY <1>1, NoneAssumption DEF RegisteredIds
<1>3. IsFiniteSet(now) /\ activeGauge = Cardinality(now)
  BY DEF ActiveMatches
<1> HIDE DEF now
<1>4. IsFiniteSet(now \cup {id}) /\ Cardinality(now \cup {id}) = Cardinality(now) + 1
  BY <1>2, <1>3, FS_AddElement
<1> QED
  BY <1>1, <1>2, <1>3, <1>4 DEF ActiveMatches

LEMMA FinalizeActive ==
    ASSUME TypeInv, RegistryInv, ActiveMatches, NEW s \in Streams, Finalize(s)
    PROVE  ActiveMatches'
<1>1. registry' = [id \in StreamIds |-> IF registry[id] = s THEN None ELSE registry[id]]
  BY DEF Finalize, RegistryWithout
<1>2. CASE ~Registered(s)
  <2>1. RegisteredIds' = RegisteredIds /\ activeGauge' = activeGauge
    BY <1>1, <1>2 DEF RegisteredIds, Registered, Finalize
  <2> QED
    BY <2>1 DEF ActiveMatches
<1>3. CASE Registered(s)
  <2>1. PICK id \in StreamIds : registry[id] = s
    BY <1>3 DEF Registered
  <2>2. \A other \in StreamIds : registry[other] = s => other = id
    BY <2>1 DEF RegistryInv, RegistryExact
  <2> DEFINE now == RegisteredIds
  <2>3. id \in now /\ RegisteredIds' = now \ {id}
    BY <1>1, <2>1, <2>2, NoneAssumption DEF RegisteredIds
  <2>4. IsFiniteSet(now) /\ activeGauge = Cardinality(now) /\ activeGauge' = activeGauge - 1
    BY <1>3 DEF ActiveMatches, Finalize
  <2> HIDE DEF now
  <2>5. IsFiniteSet(now \ {id}) /\ Cardinality(now \ {id}) = Cardinality(now) - 1
    BY <2>3, <2>4, FS_RemoveElement
  <2> QED
    BY <2>3, <2>4, <2>5 DEF ActiveMatches
<1> QED
  BY <1>2, <1>3

LEMMA NextActive ==
    ASSUME TypeInv, RegistryInv, ActiveMatches, [Next]_vars
    PROVE  ActiveMatches'
<1>1. CASE UNCHANGED <<registry, activeGauge>>
  BY <1>1 DEF ActiveMatches, RegisteredIds
<1>2. ASSUME NEW s \in Streams, Handler(s) PROVE ActiveMatches'
  <2>1. CASE EndedSent(s) \/ AbortSent(s) \/ CancelRPC(s)
    BY <2>1, FinalizeActive DEF EndedSent, AbortSent, CancelRPC
  <2>2. ASSUME NEW id \in StreamIds, Start(s, id) PROVE ActiveMatches'
    BY <2>2, StartActive
  <2>3. CASE RejectFirst(s) \/ TakeEvent(s) \/ MessageSent(s) \/ \E id \in StreamIds : RefuseStart(s, id)
    BY <1>1, <2>3 DEF RejectFirst, TakeEvent, MessageSent, RefuseStart
  <2> QED
    BY <1>2, <2>1, <2>2, <2>3 DEF Handler
<1>3. ASSUME NEW s \in Streams, Reader(s) PROVE UNCHANGED <<registry, activeGauge>>
  BY <1>3 DEF Reader, AcceptAudio, ChunkRefused, EndWithoutFlush, EndWithFlush, EndEmptyStream,
              ResumePut, ProtocolViolation, IdleTimeout, HalfClose, ReaderUnchanged
<1>4. CASE SchedulerStep \/ Shutdown \/ StopServer \/ UNCHANGED vars
  <2>1. UNCHANGED <<registry, activeGauge>>
    BY <1>4 DEF SchedulerStep, Shutdown, StopServer, vars, serviceVars
  <2> QED
    BY <1>1, <2>1
<1> QED
  BY <1>1, <1>2, <1>3, <1>4 DEF Next

\* Whatever the interleaving of readers, handlers, batches and failures, the three
\* gauges equal what the queues and the registry hold (metrics.py and the dozen
\* places of scheduler.py, session.py and service.py that adjust them).
THEOREM GaugesNeverDrift == Spec => []GaugesMatchQueues
<1>1. Init => QueueGauges /\ ActiveMatches
  <2> SUFFICES ASSUME Init PROVE QueueGauges /\ ActiveMatches
    OBVIOUS
  <2>1. /\ session = [s \in Streams |-> FreshSession] /\ inputGauge = 0 /\ outputGauge = 0
        /\ registry = [id \in StreamIds |-> None] /\ activeGauge = 0
    BY DEF Init, SchedulerInit
  <2>2. HopsQueued(session) = 0 /\ AudioQueued(session) = 0
    BY <2>1, SumsOfFresh
  <2>3. RegisteredIds = {}
    BY <2>1 DEF RegisteredIds
  <2> QED
    BY <2>1, <2>2, <2>3, FS_EmptySet, SessionAssumption DEF QueueGauges, ActiveMatches
<1>2. ASSUME TypeInv, RegistryInv, QueueGauges, ActiveMatches, [Next]_vars
      PROVE  TypeInv' /\ RegistryInv' /\ QueueGauges' /\ ActiveMatches'
  <2>1. TypeInv' /\ RegistryInv' /\ ActiveMatches'
    BY <1>2, NextType, NextRegistry, NextActive
  <2>2. ASSUME SchedulerStep PROVE QueueGauges'
    BY <1>2, <2>1, <2>2, SchedulerGauges
  <2>3. ASSUME NEW s \in Streams, Handler(s) \/ Reader(s) PROVE QueueGauges'
    BY <1>2, <2>1, <2>3, HandlerGauges, ReaderGauges
  <2>4. ASSUME StopServer \/ Shutdown \/ UNCHANGED vars PROVE QueueGauges'
    <3>1. UNCHANGED <<session, inputGauge, outputGauge>>
      BY <2>4 DEF StopServer, Shutdown, CloseScheduler, vars, schedVars
    <3>2. QueueGauges
      BY <1>2
    <3> QED
      BY <3>1, <3>2, GaugesStay
  <2> QED
    BY <1>2, <2>1, <2>2, <2>3, <2>4 DEF Next
<1>3. Init => RegistryInv
  BY NoneAssumption DEF Init, RegistryInv, RegistryExact, NewHasNoReader
<1>4. QueueGauges /\ ActiveMatches => GaugesMatchQueues
  BY DEF QueueGauges, ActiveMatches, GaugesMatchQueues, HopsQueued, AudioQueued
<1> QED
  BY <1>1, <1>2, <1>3, <1>4, InitType, PTL DEF Spec

-----------------------------------------------------------------------------
(* The ready queue has a slot for every live stream (scheduler.py: notify;     *)
(* service.py: StreamRegistry.add).  The registry admits as many streams as    *)
(* the queue has slots, so notify can find it full only because streams that   *)
(* have left the registry still hold slots.                                    *)

\* A stream that was cancelled while it waited still waits.
CancelledWaits == \E i \in DOMAIN ready : session[ready[i]].cancelled

\* Otherwise every registered stream that is not scheduled finds a free slot.
SlotForEveryLiveStream ==
    ReadyFull /\ ~CancelledWaits =>
        \A s \in Streams : Registered(s) => session[s].scheduled

\* A session has nothing to be scheduled for, now or by a result in flight.
Idle(x) == x.cancelled \/ (x.inq = <<>> /\ ~x.scheduled)

\* Only a registered RPC has a live reader, or a session the scheduler may
\* still have to queue.
WorkIsRegistered ==
    \A s \in Streams : \/ Registered(s)
                       \/ reader[s] \notin {"reading", "putting"} /\ Idle(session[s])
WithinCapacity == Cardinality(RegisteredIds) <= MaxActiveStreams
SlotsInv == WorkIsRegistered /\ ActiveMatches /\ WithinCapacity

\* What the scheduler makes of a session never gives it work.
Idler(x, y) ==
    /\ x.cancelled => y.cancelled
    /\ x.inq = <<>> => y.inq = <<>>
    /\ y.scheduled => x.scheduled \/ x.inq # <<>>

LEMMA IdlerStaysIdle ==
    ASSUME NEW x \in BoundedSession, NEW y, Idler(x, y), Idle(x)
    PROVE  Idle(y)
BY DEF Idler, Idle, BoundedSession, Session

LEMMA IdlerChain ==
    ASSUME NEW x, NEW y, NEW z, Idler(x, y), Idler(y, z)
    PROVE  Idler(x, z)
BY DEF Idler

LEMMA OutputIdles ==
    ASSUME NEW x \in BoundedSession
    PROVE  /\ \A reason : Idler(x, Fail(x, reason))
           /\ \A event : Idler(x, Emit(x, event))
           /\ \A flushed : Idler(x, Complete(x, flushed))
<1>1. \A reason : Idler(x, Fail(x, reason))
  BY DEF Idler, Fail, BoundedSession, Session
<1>2. \A event : Idler(x, Emit(x, event))
  BY DEF Idler, Emit, BoundedSession, Session
<1>3. ASSUME NEW flushed PROVE Idler(x, Complete(x, flushed))
  <2> DEFINE y == [x EXCEPT !.ended = TRUE]
  <2>1. y \in BoundedSession
    BY FlagsType
  <2>2. Idler(x, y)
    BY DEF Idler, BoundedSession, Session
  <2>3. /\ Idler(y, Fail(y, "outputFull"))
        /\ Idler(y, Emit(y, Completion(y, flushed)))
    BY <2>1 DEF Idler, Fail, Emit, BoundedSession, Session
  <2>4. \/ Complete(x, flushed) = x
        \/ Complete(x, flushed) = Fail(y, "outputFull")
        \/ Complete(x, flushed) = Emit(y, Completion(y, flushed))
    BY DEF Complete
  <2> QED
    BY <2>2, <2>3, <2>4 DEF Idler
<1> QED
  BY <1>1, <1>2, <1>3

LEMMA DeliverIdles ==
    ASSUME NEW x \in BoundedSession, NEW entry \in ActiveEntry
    PROVE  Idler(x, Advance(x, entry)) /\ Idler(x, Deliver(x, entry))
<1> DEFINE a == Advance(x, entry)
           b == Emit(a, AudioOf(Enhanced(x, entry)))
           n == x.pending.valid
<1>1. a \in BoundedSession
  BY AdvanceType
<1>2. Idler(x, a)
  BY DEF Idler, Advance, BoundedSession, Session
<1>3. Idler(a, b) /\ Idler(a, [b EXCEPT !.outputSamples = @ + n])
  <2> HIDE DEF a, n
  <2> QED
    BY <1>1 DEF Idler, Emit, BoundedSession, Session
<1>4. Deliver(x, entry) = a \/ Deliver(x, entry) = [b EXCEPT !.outputSamples = @ + n]
  BY DEF Deliver
<1> HIDE DEF a, b, n
<1> QED
  BY <1>2, <1>3, <1>4, IdlerChain DEF a

LEMMA NotifiedIdles ==
    ASSUME NEW x \in BoundedSession
    PROVE  Idler(x, Notified(x))
BY DEF Idler, Notified, Notifiable, BoundedSession, Session

\* Dispatching and distributing only take work from sessions.
LEMMA DispatchIdles ==
    ASSUME TypeInv, DispatchSkip \/ DispatchNoFlush \/ DispatchWork
    PROVE  \E s \in Streams : \E y : session' = [session EXCEPT ![s] = y] /\ Idler(session[s], y)
<1> DEFINE s == NextToDispatch
           x == session[s]
           d == Dequeued(x)
<1>1. s \in Streams /\ x \in BoundedSession
  BY DispatchedStream DEF DispatchSkip, DispatchNoFlush, DispatchWork
<1> HIDE DEF s
<1>2. CASE DispatchSkip
  <2>1. session' = [session EXCEPT ![s] = Unscheduled(x)]
    BY <1>2 DEF DispatchSkip, s
  <2>2. Idler(x, Unscheduled(x))
    BY <1>1 DEF Idler, Unscheduled, BoundedSession, Session
  <2> QED
    BY <1>1, <2>1, <2>2
<1>3. CASE DispatchNoFlush \/ DispatchWork
  <2>1. ~NothingToDispatch(x)
    BY <1>3 DEF DispatchNoFlush, DispatchWork, s
  <2>2. d \in BoundedSession
    BY <1>1, <2>1, DequeuedType DEF NothingToDispatch
  <2>3. Idler(x, d)
    BY <1>1, <2>1 DEF Idler, Dequeued, Unscheduled, NothingToDispatch, BoundedSession, Session
  <2>4. CASE DispatchWork
    <3>1. session' = [session EXCEPT ![s] = d]
      BY <2>4 DEF DispatchWork, s
    <3> QED
      BY <1>1, <2>3, <3>1
  <2>5. CASE DispatchNoFlush
    <3> DEFINE p == [d EXCEPT !.pending = None]
               y == Complete(p, FALSE)
    <3>1. session' = [session EXCEPT ![s] = y]
      BY <2>5 DEF DispatchNoFlush, CompleteWithoutFlush, s
    <3> HIDE DEF d
    <3>2. p \in BoundedSession /\ Idler(d, p)
      BY <2>2 DEF Idler, BoundedSession, Session
    <3> HIDE DEF p
    <3>3. Idler(p, y)
      BY <3>2, OutputIdles
    <3>4. Idler(x, y)
      BY <2>3, <3>2, <3>3, IdlerChain
    <3> QED
      BY <1>1, <3>1, <3>4
  <2> QED
    BY <1>3, <2>4, <2>5
<1> QED
  BY <1>2, <1>3

LEMMA ReturnIdles ==
    ASSUME TypeInv,
           \/ FailEntry \/ DistributeSkip \/ DistributeOverflow
           \/ DistributeFlush \/ DistributeHop \/ DistributeDies
    PROVE  \E s \in Streams : \E y : session' = [session EXCEPT ![s] = y] /\ Idler(session[s], y)
<1> DEFINE s == Returned.stream
           x == session[s]
           a == Advance(x, Returned)
           d == Deliver(x, Returned)
<1>1. sched \in {"distribute", "failing"}
  BY DEF FailEntry, DistributeSkip, DistributeOverflow, DistributeFlush, DistributeHop,
         DistributeDies
<1>2. /\ s \in Streams /\ x \in BoundedSession /\ Returned \in ActiveEntry
      /\ session \in [Streams -> BoundedSession]
  BY <1>1, ReturnedType DEF TypeInv, TypeOK, SessionTypeOK
<1>3. CASE FailEntry
  <2>1. session' = [session EXCEPT ![s] = Fail(x, "inference")]
    BY <1>3 DEF FailEntry, Returned
  <2> HIDE DEF s
  <2> QED
    BY <1>2, <2>1, OutputIdles
<1>4. CASE DistributeSkip
  <2>1. session' = [session EXCEPT ![s] = x] /\ Idler(x, x)
    BY <1>2, <1>4 DEF DistributeSkip, Idler
  <2> HIDE DEF s
  <2> QED
    BY <1>2, <2>1
<1>5. CASE DistributeOverflow
  <2>1. session' = [session EXCEPT ![s] = Fail(a, "outputFull")]
    BY <1>5 DEF DistributeOverflow
  <2>2. a \in BoundedSession /\ Idler(x, a)
    BY <1>2, AdvanceType, DeliverIdles
  <2> HIDE DEF s, a
  <2>3. Idler(a, Fail(a, "outputFull"))
    BY <2>2, OutputIdles
  <2>4. Idler(x, Fail(a, "outputFull"))
    BY <2>2, <2>3, IdlerChain
  <2> QED
    BY <1>2, <2>1, <2>4
<1>6. CASE DistributeFlush \/ DistributeHop \/ DistributeDies
  <2>1. \/ session' = [session EXCEPT ![s] = Complete(d, TRUE)]
        \/ session' = [session EXCEPT ![s] = Notified(d)]
    BY <1>6 DEF DistributeFlush, DistributeHop, DistributeDies
  <2>2. Deliverable(x)
    BY <1>6 DEF DistributeFlush, DistributeHop, DistributeDies
  <2>3. d \in BoundedSession /\ Idler(x, d)
    BY <1>2, <2>2, DeliverType, DeliverIdles
  <2> HIDE DEF s, d
  <2>4. Idler(d, Complete(d, TRUE)) /\ Idler(d, Notified(d))
    BY <2>3, OutputIdles, NotifiedIdles
  <2>5. Idler(x, Complete(d, TRUE)) /\ Idler(x, Notified(d))
    BY <2>3, <2>4, IdlerChain
  <2> QED
    BY <1>2, <2>1, <2>5
<1> QED
  BY <1>3, <1>4, <1>5, <1>6

LEMMA SchedulerIdles ==
    ASSUME TypeInv, WorkIsRegistered, SchedulerStep
    PROVE  WorkIsRegistered'
<1>1. /\ session \in [Streams -> BoundedSession]
      /\ UNCHANGED <<registry, reader>>
  BY DEF TypeInv, TypeOK, SessionTypeOK, SchedulerStep, serviceVars
<1>2. \/ UNCHANGED session
      \/ \E s \in Streams : \E y : session' = [session EXCEPT ![s] = y] /\ Idler(session[s], y)
  <2>1. CASE TakeFirst \/ TakeMore \/ InferenceDone \/ InferenceFails
    BY <2>1 DEF TakeFirst, TakeMore, InferenceDone, InferenceFails
  <2> QED
    BY <2>1, DispatchIdles, ReturnIdles DEF SchedulerStep, RunStep
<1>3. \A t \in Streams : Idle(session[t]) => Idle(session'[t])
  <2>1. ASSUME NEW s \in Streams, NEW y, session' = [session EXCEPT ![s] = y],
               Idler(session[s], y), NEW t \in Streams, Idle(session[t])
        PROVE  Idle(session'[t])
    <3>1. session'[s] = y /\ (t # s => session'[t] = session[t])
      BY <1>1, <2>1
    <3>2. Idle(session[s]) => Idle(y)
      BY <1>1, <2>1, IdlerStaysIdle
    <3> QED
      BY <2>1, <3>1, <3>2
  <2> QED
    BY <1>2, <2>1
<1> QED
  BY <1>1, <1>3 DEF WorkIsRegistered, Registered

\* A reader that is at work belongs to a registered RPC, and stays so.
LEMMA ReaderSlots ==
    ASSUME TypeInv, WorkIsRegistered, NEW s \in Streams, Reader(s)
    PROVE  WorkIsRegistered' /\ UNCHANGED registry
<1>1. session \in [Streams -> BoundedSession] /\ reader \in [Streams -> ReaderStates]
  BY DEF TypeInv, TypeOK, SessionTypeOK, ServiceTypeOK
<1>2. reader[s] \in {"reading", "putting"} /\ UNCHANGED registry
  BY DEF Reader, AcceptAudio, ChunkRefused, EndWithoutFlush, EndWithFlush, EndEmptyStream,
         ResumePut, ProtocolViolation, IdleTimeout, HalfClose, ReaderUnchanged
<1>3. /\ UNCHANGED session \/ \E y : session' = [session EXCEPT ![s] = y]
      /\ UNCHANGED reader \/ \E r : reader' = [reader EXCEPT ![s] = r]
  BY DEF Reader, AcceptAudio, ChunkRefused, EndWithoutFlush, EndWithFlush, EndEmptyStream,
         ResumePut, ProtocolViolation, IdleTimeout, HalfClose, Put, PutRaises, ReaderFails,
         schedVars
<1>4. \A t \in Streams \ {s} : session'[t] = session[t] /\ reader'[t] = reader[t]
  BY <1>1, <1>3
<1>5. Registered(s)
  BY <1>2 DEF WorkIsRegistered
<1> QED
  BY <1>2, <1>4, <1>5 DEF WorkIsRegistered, Registered

\* A stream that registers finds the registry below its capacity.
LEMMA StartSlots ==
    ASSUME TypeInv, SlotsInv, NEW s \in Streams, NEW id \in StreamIds, Start(s, id)
    PROVE  WorkIsRegistered' /\ WithinCapacity'
<1>1. /\ registry \in [StreamIds -> Streams \cup {None}] /\ reader \in [Streams -> ReaderStates]
      /\ registry[id] = None /\ registry' = [registry EXCEPT ![id] = s]
      /\ reader' = [reader EXCEPT ![s] = "reading"]
      /\ UNCHANGED session
  BY DEF TypeInv, TypeOK, ServiceTypeOK, Start, Refused, schedVars
<1>2. WorkIsRegistered'
  <2>1. Registered(s)' /\ \A t \in Streams : Registered(t) => Registered(t)'
    BY <1>1, NoneAssumption DEF Registered
  <2>2. \A t \in Streams \ {s} : reader'[t] = reader[t]
    BY <1>1
  <2> QED
    BY <1>1, <2>1, <2>2 DEF SlotsInv, WorkIsRegistered
<1> DEFINE now == RegisteredIds
<1>3. id \notin now /\ RegisteredIds' = now \cup {id}
  BY <1>1, NoneAssumption DEF RegisteredIds
<1>4. IsFiniteSet(now) /\ ~(Cardinality(now) >= MaxActiveStreams)
  BY DEF SlotsInv, ActiveMatches, Start, Refused
<1> HIDE DEF now
<1>5. Cardinality(now \cup {id}) = Cardinality(now) + 1 /\ Cardinality(now) \in Nat
  BY <1>3, <1>4, FS_AddElement, FS_CardinalityType
<1> QED
  BY <1>2, <1>3, <1>4, <1>5, SchedulerAssumption DEF WithinCapacity

\* What the finally clause leaves has no work.
LEMMA FinalizeSlots ==
    ASSUME TypeInv, SlotsInv, NEW s \in Streams, Finalize(s)
    PROVE  WorkIsRegistered' /\ WithinCapacity'
<1>1. /\ session \in [Streams -> BoundedSession] /\ reader \in [Streams -> ReaderStates]
      /\ registry \in [StreamIds -> Streams \cup {None}]
  BY DEF TypeInv, TypeOK, SessionTypeOK, ServiceTypeOK
<1>2. /\ registry' = [id \in StreamIds |-> IF registry[id] = s THEN None ELSE registry[id]]
      /\ reader' = [reader EXCEPT ![s] = IF @ = "none" THEN "none" ELSE "stopped"]
      /\ session' = [session EXCEPT ![s].cancelled = TRUE, ![s].inq = <<>>, ![s].outq = <<>>]
  BY DEF Finalize, RegistryWithout
<1>3. session'[s].cancelled
  BY <1>1, <1>2 DEF BoundedSession, Session
<1>4. reader'[s] \notin {"reading", "putting"}
  BY <1>1, <1>2
<1>5. \A t \in Streams \ {s} : /\ session'[t] = session[t] /\ reader'[t] = reader[t]
                               /\ Registered(t) => Registered(t)'
  BY <1>1, <1>2 DEF Registered
<1>6. WorkIsRegistered'
  BY <1>3, <1>4, <1>5 DEF SlotsInv, WorkIsRegistered, Idle
<1> DEFINE now == RegisteredIds
           next == RegisteredIds'
<1>7. next \in SUBSET now
  BY <1>2 DEF RegisteredIds
<1>8. IsFiniteSet(now) /\ Cardinality(now) <= MaxActiveStreams
  BY DEF SlotsInv, ActiveMatches, WithinCapacity
<1> HIDE DEF now, next
<1>9. Cardinality(next) <= Cardinality(now) /\ Cardinality(next) \in Nat /\ Cardinality(now) \in Nat
  BY <1>7, <1>8, FS_Subset, FS_CardinalityType
<1> QED
  BY <1>6, <1>8, <1>9, SchedulerAssumption DEF WithinCapacity, next

LEMMA NextSlots ==
    ASSUME TypeInv, RegistryInv, SlotsInv, [Next]_vars
    PROVE  SlotsInv'
<1>1. ActiveMatches'
  BY NextActive DEF SlotsInv
<1>2. UNCHANGED registry => WithinCapacity'
  BY DEF SlotsInv, WithinCapacity, RegisteredIds
<1>3. ASSUME NEW s \in Streams, Handler(s) PROVE WorkIsRegistered' /\ WithinCapacity'
  <2>1. CASE EndedSent(s) \/ AbortSent(s) \/ CancelRPC(s)
    BY <2>1, FinalizeSlots DEF EndedSent, AbortSent, CancelRPC
  <2>2. ASSUME NEW id \in StreamIds, Start(s, id) PROVE WorkIsRegistered' /\ WithinCapacity'
    BY <2>2, StartSlots
  <2>3. CASE RejectFirst(s) \/ MessageSent(s) \/ \E id \in StreamIds : RefuseStart(s, id)
    <3>1. UNCHANGED <<session, registry, reader>>
      BY <2>3 DEF RejectFirst, MessageSent, RefuseStart, schedVars
    <3> QED
      BY <1>2, <3>1 DEF SlotsInv, WorkIsRegistered, Registered
  <2>4. CASE TakeEvent(s)
    <3>1. UNCHANGED <<registry, reader>>
      BY <2>4 DEF TakeEvent
    <3>2. session \in [Streams -> BoundedSession]
      BY DEF TypeInv, TypeOK, SessionTypeOK
    <3>3. session' = [session EXCEPT ![s].outq = Tail(@)]
      BY <2>4 DEF TakeEvent
    <3>4. \A t \in Streams : /\ session'[t].cancelled = session[t].cancelled
                             /\ session'[t].inq = session[t].inq
                             /\ session'[t].scheduled = session[t].scheduled
      BY <3>2, <3>3 DEF BoundedSession, Session
    <3> QED
      BY <1>2, <3>1, <3>4 DEF SlotsInv, WorkIsRegistered, Registered, Idle
  <2> QED
    BY <1>3, <2>1, <2>2, <2>3, <2>4 DEF Handler
<1>4. ASSUME NEW s \in Streams, Reader(s) PROVE WorkIsRegistered' /\ WithinCapacity'
  BY <1>2, <1>4, ReaderSlots DEF SlotsInv
<1>5. CASE SchedulerStep
  BY <1>1, <1>2, <1>5, SchedulerIdles DEF SlotsInv, SchedulerStep, serviceVars
<1>6. CASE Shutdown \/ StopServer \/ UNCHANGED vars
  <2>1. UNCHANGED <<session, registry, reader>>
    BY <1>6 DEF Shutdown, CloseScheduler, StopServer, vars, schedVars, serviceVars
  <2> QED
    BY <1>1, <1>2, <2>1 DEF SlotsInv, WorkIsRegistered, Registered
<1> QED
  BY <1>1, <1>3, <1>4, <1>5, <1>6 DEF Next, SlotsInv

\* The streams of the ready queue and one that does not wait in it all have
\* entries of their own in the registry.
LEMMA SlotsSuffice ==
    ASSUME TypeInv, RegistryInv, QueuedOnce, SlotsInv, ~CancelledWaits,
           NEW s \in Streams, Registered(s), ~session[s].scheduled
    PROVE  ~ReadyFull
<1>1. /\ ready \in Seq(Streams) /\ Len(ready) \in Nat
      /\ streamId \in [Streams -> StreamIds \cup {None}]
  BY DEF TypeInv, TypeOK, SchedulerTypeOK, ServiceTypeOK
<1> DEFINE n == Len(ready)
           Holder(i) == IF i <= n THEN ready[i] ELSE s
           f == [i \in 1..(n + 1) |-> streamId[Holder(i)]]
<1>2. ASSUME NEW i \in 1..n
      PROVE  ready[i] \in Streams /\ Registered(ready[i]) /\ ready[i] # s
  <2>1. i \in DOMAIN ready /\ ready[i] \in Streams
    BY <1>1
  <2>2. session[ready[i]].scheduled /\ ~session[ready[i]].cancelled
    BY <2>1 DEF QueuedOnce, CancelledWaits
  <2> QED
    BY <2>1, <2>2 DEF SlotsInv, WorkIsRegistered, Idle
<1>3. ASSUME NEW i \in 1..(n + 1)
      PROVE  Holder(i) \in Streams /\ Registered(Holder(i))
  BY <1>1, <1>2
<1>4. ASSUME NEW i \in 1..(n + 1), NEW j \in 1..(n + 1), Holder(i) = Holder(j)
      PROVE  i = j
  <2>1. i \in 1..n \/ i = n + 1
    BY <1>1
  <2>2. j \in 1..n \/ j = n + 1
    BY <1>1
  <2>3. DOMAIN ready = 1..n
    BY <1>1
  <2> QED
    BY <1>1, <1>2, <1>4, <2>1, <2>2, <2>3 DEF QueuedOnce, Distinct
<1>5. \A t \in Streams : Registered(t) => streamId[t] \in RegisteredIds /\ registry[streamId[t]] = t
  BY NoneAssumption DEF RegistryInv, RegistryExact, Registered, RegisteredIds
<1> HIDE DEF Holder
<1>6. f \in [1..(n + 1) -> RegisteredIds]
  BY <1>3, <1>5
<1>7. \A i, j \in 1..(n + 1) : f[i] = f[j] => i = j
  BY <1>3, <1>4, <1>5
<1> HIDE DEF f
<1>8. f \in Injection(1..(n + 1), RegisteredIds)
  BY <1>6, <1>7 DEF Injection, IsInjective
<1>9. IsFiniteSet(RegisteredIds) /\ Cardinality(RegisteredIds) <= MaxActiveStreams
  BY DEF SlotsInv, ActiveMatches, WithinCapacity
<1>10. Cardinality(1..(n + 1)) <= Cardinality(RegisteredIds)
  BY <1>8, <1>9, FS_Injection
<1>11. Cardinality(1..(n + 1)) = n + 1
  <2>1. 1 \in Int /\ n + 1 \in Int /\ ~(1 > n + 1) /\ (n + 1) - 1 + 1 = n + 1
    BY <1>1
  <2> QED
    BY <2>1, FS_Interval
<1>12. Cardinality(RegisteredIds) \in Nat
  BY <1>9, FS_CardinalityType
<1> QED
  BY <1>1, <1>9, <1>10, <1>11, <1>12, SchedulerAssumption DEF ReadyFull

LEMMA SlotsFromTheStart == Init => RegistryInv /\ SlotsInv
<1> SUFFICES ASSUME Init PROVE RegistryInv /\ SlotsInv
  OBVIOUS
<1>1. RegistryInv
  BY NoneAssumption DEF Init, RegistryInv, RegistryExact, NewHasNoReader
<1>2. /\ session = [s \in Streams |-> FreshSession] /\ reader = [s \in Streams |-> "none"]
      /\ registry = [id \in StreamIds |-> None] /\ activeGauge = 0
  BY DEF Init, SchedulerInit
<1>3. WorkIsRegistered
  BY <1>2 DEF WorkIsRegistered, Idle, FreshSession
<1>4. RegisteredIds = {}
  BY <1>2 DEF RegisteredIds
<1> QED
  BY <1>1, <1>2, <1>3, <1>4, FS_EmptySet, SchedulerAssumption
  DEF SlotsInv, ActiveMatches, WithinCapacity

\* Unless a cancelled stream still waits in the ready queue, every registered
\* stream that is not scheduled yet finds a free slot there: notify does not
\* raise QueueFull (scheduler.py: notify; service.py: StreamRegistry.add).
THEOREM LiveStreamsFindASlot == Spec => []SlotForEveryLiveStream
<1>1. TypeInv /\ RegistryInv /\ QueuedOnce /\ SlotsInv => SlotForEveryLiveStream
  BY SlotsSuffice DEF SlotForEveryLiveStream
<1>2. BatchInv => TypeInv /\ QueuedOnce
  BY DEF BatchInv
<1>3. BatchInv /\ RegistryInv /\ SlotsInv /\ [Next]_vars => BatchInv' /\ RegistryInv' /\ SlotsInv'
  BY <1>2, NextIntegrity, NextRegistry, NextSlots
<1> QED
  BY <1>1, <1>2, <1>3, InitIntegrity, SlotsFromTheStart, PTL DEF Spec

\* The scheduler's task ends with an exception only in a step in which a
\* cancelled stream still holds a slot of the ready queue: a stream that left
\* the registry while it waited is the one way to the full queue that _run
\* does not survive (scheduler.py: _distribute, notify).
DiesOnlyOverTheCancelled == [][sched' = "dead" => sched = "dead" \/ CancelledWaits]_vars

LEMMA DeathNeedsCancelled ==
    ASSUME BatchInv, RegistryInv, SlotsInv, [Next]_vars, sched' = "dead", sched # "dead"
    PROVE  CancelledWaits
<1>1. DistributeDies
  <2>1. ASSUME NEW s \in Streams, Handler(s) \/ Reader(s) PROVE UNCHANGED sched
    <3>1. CASE Handler(s)
      BY <3>1 DEF Handler, Start, RefuseStart, RejectFirst, TakeEvent, MessageSent, EndedSent,
                  AbortSent, CancelRPC, Finalize, schedVars
    <3>2. CASE Reader(s)
      BY <3>2 DEF Reader, AcceptAudio, ChunkRefused, EndWithoutFlush, EndWithFlush,
                  EndEmptyStream, ResumePut, ProtocolViolation, IdleTimeout, HalfClose,
                  ReaderUnchanged, schedVars
    <3> QED
      BY <2>1, <3>1, <3>2
  <2>2. SchedulerStep
    BY <2>1 DEF Next, StopServer, Shutdown, CloseScheduler, vars, schedVars
  <2> QED
    BY <2>2 DEF SchedulerStep, RunStep, TakeFirst, TakeMore, DispatchSkip, DispatchNoFlush,
                DispatchWork, AfterDispatch, InferenceDone, InferenceFails, FailEntry,
                DistributeSkip, DistributeOverflow, DistributeFlush, DistributeHop,
                AfterDistribute
<1> DEFINE s == Returned.stream
           x == session[s]
           d == Deliver(x, Returned)
<1>2. /\ s \in Streams /\ x \in BoundedSession /\ Returned \in ActiveEntry
  BY <1>1, ReturnedType DEF BatchInv, DistributeDies
<1>3. Deliverable(x) /\ Notifiable(d) /\ ReadyFull
  BY <1>1 DEF DistributeDies, NotifyRaises
<1>4. d.scheduled = x.scheduled /\ Idler(x, d)
  BY <1>2, <1>3, DeliverKept, DeliverIdles
<1> HIDE DEF d, s
<1>5. ~x.scheduled /\ x.inq # <<>> /\ ~x.cancelled
  BY <1>3, <1>4 DEF Notifiable, Idler, Deliverable, Unwanted
<1>6. Registered(s)
  BY <1>2, <1>5 DEF SlotsInv, WorkIsRegistered, Idle
<1> QED
  BY <1>2, <1>3, <1>5, <1>6, SlotsSuffice DEF BatchInv

THEOREM SchedulerOutlivesTheLive == Spec => DiesOnlyOverTheCancelled
<1>1. BatchInv /\ RegistryInv /\ SlotsInv /\ [Next]_vars => BatchInv' /\ RegistryInv' /\ SlotsInv'
  BY NextIntegrity, NextRegistry, NextSlots DEF BatchInv
<1>2. BatchInv /\ RegistryInv /\ SlotsInv /\ [Next]_vars
      => (sched' = "dead" => sched = "dead" \/ CancelledWaits)
  BY DeathNeedsCancelled
<1> QED
  BY <1>1, <1>2, InitIntegrity, SlotsFromTheStart, PTL DEF Spec, DiesOnlyOverTheCancelled

=============================================================================
