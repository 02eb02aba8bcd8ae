-------------------------- MODULE EnhancementService --------------------------
(***************************************************************************)
(* The Enhance RPCs of the server (service.py) composed with the batch     *)
(* scheduler.  Every RPC has two tasks: the handler, which yields messages *)
(* to the client from the output queue, and the request reader, which      *)
(* turns the client's messages into model work and blocks while the input  *)
(* queue is full.  A stream here is one RPC; stream IDs are what a client  *)
(* puts into StartStream and may collide.                                  *)
(*                                                                         *)
(* The client is the environment: which message comes next, when it reads, *)
(* and whether it goes away are free choices.                              *)
(***************************************************************************)
EXTENDS BatchScheduler

CONSTANTS
    StreamIds,              \* values of StartStream.stream_id
    MaxAudioChunkSamples,   \* settings.max_audio_chunk_samples
    MaxSamples,             \* bound: most samples one client sends
    MayStop,                \* bound: whether the server is shut down
    SlowClients             \* clients that may stop taking their messages

ASSUME ServiceAssumption ==
    /\ MaxAudioChunkSamples \in Nat \ {0}
    /\ MaxSamples \in Nat
    /\ MayStop \in BOOLEAN
    /\ SlowClients \subseteq Streams

VARIABLES
    registry,      \* StreamRegistry._sessions, None where an ID is free
    activeGauge,   \* metrics.active_streams
    streamId,      \* the ID of each RPC's StartStream
    handler,       \* where each RPC's handler stands
    sending,       \* the message the handler is yielding or aborting with
    reader,        \* where each RPC's request reader stands
    toPut,         \* work the reader still has to enqueue
    sawEnd,        \* _read_requests.saw_end
    stopping,      \* the gRPC server no longer takes RPCs
    received       \* history: enhanced samples yielded to each client

serviceVars == <<registry, activeGauge, streamId, handler, sending,
                 reader, toPut, sawEnd, stopping, received>>
vars == <<schedVars, serviceVars>>

HandlerStates == {"new", "sending", "waiting", "aborting", "closed"}
ReaderStates == {"none", "reading", "putting", "stopped"}
Accepted == [type |-> "accepted"]

Init ==
    /\ SchedulerInit
    /\ registry = [id \in StreamIds |-> None]
    /\ activeGauge = 0
    /\ streamId = [s \in Streams |-> None]
    /\ handler = [s \in Streams |-> "new"]
    /\ sending = [s \in Streams |-> None]
    /\ reader = [s \in Streams |-> "none"]
    /\ toPut = [s \in Streams |-> <<>>]
    /\ sawEnd = [s \in Streams |-> FALSE]
    /\ stopping = FALSE
    /\ received = [s \in Streams |-> 0]

Registered(s) == \E id \in StreamIds : registry[id] = s
RegisteredIds == {id \in StreamIds : registry[id] # None}

-----------------------------------------------------------------------------
(* The first message of an RPC. *)

\* registry.add refuses an ID that is active, and any ID at capacity.
Refused(id) ==
    \/ registry[id] # None
    \/ Cardinality(RegisteredIds) >= MaxActiveStreams

\* A valid StartStream is registered, its reader starts and the handler
\* yields the capabilities.
\* ~stopping here and below loses no behaviour: stopping only enables GraceOver
\* and Shutdown, so of a stop whose grace period lets an accepted RPC's first
\* message arrive, StopServer is the end of that wait.
Start(s, id) ==
    /\ LoopFree
    /\ ~stopping
    /\ handler[s] = "new"
    /\ ~Refused(id)
    /\ registry' = [registry EXCEPT ![id] = s]
    /\ activeGauge' = activeGauge + 1
    /\ streamId' = [streamId EXCEPT ![s] = id]
    /\ handler' = [handler EXCEPT ![s] = "sending"]
    /\ sending' = [sending EXCEPT ![s] = Accepted]
    /\ reader' = [reader EXCEPT ![s] = "reading"]
    /\ UNCHANGED <<schedVars, toPut, sawEnd, stopping, received>>

\* The registry refuses it.
RefuseStart(s, id) ==
    /\ LoopFree
    /\ ~stopping
    /\ handler[s] = "new"
    /\ Refused(id)
    /\ streamId' = [streamId EXCEPT ![s] = id]
    /\ handler' = [handler EXCEPT ![s] = "aborting"]
    /\ sending' = [sending EXCEPT ![s] = Failure("refused")]
    /\ UNCHANGED <<schedVars, registry, activeGauge, reader, toPut, sawEnd, stopping, received>>

\* Authentication fails, no first message comes, or it is no valid
\* StartStream: the RPC is aborted before it owns a session.
RejectFirst(s) ==
    /\ LoopFree
    /\ ~stopping
    /\ handler[s] = "new"
    /\ handler' = [handler EXCEPT ![s] = "aborting"]
    /\ sending' = [sending EXCEPT ![s] = Failure("protocol")]
    /\ UNCHANGED <<schedVars, registry, activeGauge, streamId, reader, toPut, sawEnd,
                   stopping, received>>

-----------------------------------------------------------------------------
(* The handler's event loop and its finally clause. *)

\* finally: the session is cancelled, both queues are emptied into the
\* gauges, the registry entry this RPC made is removed and the reader is
\* cancelled; the local variables of both tasks go with them.  No await in it
\* ever suspends with the work half done.
\* (fault: whatever session holds the ID is removed)
RegistryWithout_AnyHolder(s) ==
    [id \in StreamIds |-> IF streamId[s] = id THEN None ELSE registry[id]]
RegistryWithout(s) == [id \in StreamIds |-> IF registry[id] = s THEN None ELSE registry[id]]
Finalize(s) ==
    /\ session' = [session EXCEPT ![s].cancelled = TRUE,
                                  ![s].inq = <<>>, ![s].outq = <<>>]
    /\ inputGauge' = inputGauge - HopSamples * QueuedSources(session[s].inq)
    /\ outputGauge' = outputGauge - QueuedAudio(session[s].outq)
    /\ registry' = RegistryWithout(s)
    /\ activeGauge' = IF Registered(s) THEN activeGauge - 1 ELSE activeGauge
    /\ handler' = [handler EXCEPT ![s] = "closed"]
    /\ sending' = [sending EXCEPT ![s] = None]
    /\ reader' = [reader EXCEPT ![s] = IF @ = "none" THEN "none" ELSE "stopped"]
    /\ toPut' = [toPut EXCEPT ![s] = <<>>]
    /\ sawEnd' = [sawEnd EXCEPT ![s] = FALSE]
    /\ streamId' = [streamId EXCEPT ![s] = None]
    /\ UNCHANGED <<ready, sched, batch, active, closing, produced, stopping>>

\* The next event leaves the output queue.
\* (fault: the gauge is not lowered)
DequeuedAudio_Missing(event) == 0
DequeuedAudio(event) == IF IsAudio(event) THEN event.valid ELSE 0
TakeEvent(s) ==
    /\ LoopFree
    /\ handler[s] = "waiting"
    /\ session[s].outq # <<>>
    /\ LET event == Head(session[s].outq)
       IN  /\ session' = [session EXCEPT ![s].outq = Tail(@)]
           /\ outputGauge' = outputGauge - DequeuedAudio(event)
           /\ sending' = [sending EXCEPT ![s] = event]
           /\ handler' = [handler EXCEPT ![s] =
                            IF event.type = "failure" THEN "aborting" ELSE "sending"]
    /\ UNCHANGED <<ready, sched, batch, active, closing, inputGauge, produced,
                   registry, activeGauge, streamId, reader, toPut, sawEnd, stopping, received>>

\* gRPC has taken the yielded message; the handler waits for another event.
SampleCount(message) == IF message.type = "audio" THEN message.valid ELSE 0
MessageSent(s) ==
    /\ LoopFree
    /\ handler[s] = "sending"
    /\ sending[s].type # "ended"
    /\ handler' = [handler EXCEPT ![s] = "waiting"]
    /\ sending' = [sending EXCEPT ![s] = None]
    /\ received' = [received EXCEPT ![s] = @ + SampleCount(sending[s])]
    /\ UNCHANGED <<schedVars, registry, activeGauge, streamId, reader, toPut, sawEnd, stopping>>

\* StreamEnded was the last message.
EndedSent(s) ==
    /\ LoopFree
    /\ handler[s] = "sending"
    /\ sending[s].type = "ended"
    /\ Finalize(s)
    /\ UNCHANGED received

AbortSent(s) ==
    /\ LoopFree
    /\ handler[s] = "aborting"
    /\ Finalize(s)
    /\ UNCHANGED received

\* The client disconnects or cancels, or the server's grace period is over.
CancelRPC(s) ==
    /\ LoopFree
    /\ handler[s] \in {"sending", "waiting", "aborting"}
    /\ Finalize(s)
    /\ UNCHANGED received

-----------------------------------------------------------------------------
(* The request reader. *)

ReaderUnchanged ==
    UNCHANGED <<sched, batch, active, closing, produced, registry, activeGauge,
                streamId, handler, sending, stopping, received>>

\* The except clauses of _read_requests: the session is cancelled, its
\* queued output discarded and the reader ends.
ReaderFails(s, x, reason) ==
    /\ session' = [session EXCEPT ![s] = Fail(x, reason)]
    /\ outputGauge' = outputGauge - QueuedAudio(x.outq)
    /\ reader' = [reader EXCEPT ![s] = "stopped"]
    /\ toPut' = [toPut EXCEPT ![s] = <<>>]

\* The reader enqueues work item by item and notifies the scheduler after
\* each; it awaits only where the queue is full.  Only the first notify can
\* find the stream not scheduled.
\* (fault: one slot too many)
Room_OffByOne(x) == InputQueueHops + 1 - Len(x.inq)
Room(x) == InputQueueHops - Len(x.inq)
Fitting(x, works) == Min({Room(x), Len(works)})
Enqueued(x, works, k) == [x EXCEPT !.inq = @ \o SubSeq(works, 1, k)]
Put(s, x, works) ==
    LET k == Fitting(x, works)
        y == Enqueued(x, works, k)
        rest == SubSeq(works, k + 1, Len(works))
    IN  /\ k = 0 \/ ~NotifyRaises(y)
        /\ session' = [session EXCEPT ![s] = IF k = 0 THEN y ELSE Notified(y)]
        /\ ready' = IF k = 0 THEN ready ELSE ReadyAfter(s, y)
        /\ inputGauge' = inputGauge + HopSamples * QueuedSources(SubSeq(works, 1, k))
        /\ toPut' = [toPut EXCEPT ![s] = rest]
        /\ reader' = [reader EXCEPT ![s] = IF rest = <<>> THEN "reading" ELSE "putting"]
        /\ UNCHANGED outputGauge

\* The ready queue is full: the first item is enqueued, then QueueFull ends
\* the reader through its generic except clause.
PutRaises(s, x, works) ==
    LET y == Enqueued(x, works, 1)
    IN  /\ Fitting(x, works) > 0
        /\ NotifyRaises(y)
        /\ ReaderFails(s, Notified(y), "internal")
        /\ inputGauge' = inputGauge + GaugedHop(Head(works))
        /\ UNCHANGED ready

\* An audio chunk whose sequence and offset continue the stream.
Accept(x, n) == Rechunk([x EXCEPT !.inputSamples = @ + n], n)
AcceptAudio(s, n) ==
    /\ LoopFree
    /\ reader[s] = "reading"
    /\ ~sawEnd[s]
    /\ n \in 1..MaxAudioChunkSamples
    /\ session[s].inputSamples + n <= MaxSamples
    /\ ChunkFits(session[s], n)
    /\ LET works == FullHops(session[s], n)
           x == Accept(session[s], n)
       IN  Put(s, x, works) \/ PutRaises(s, x, works)
    /\ ReaderUnchanged
    /\ UNCHANGED sawEnd

\* The rechunker has no room for the chunk: the stream fails.
ChunkRefused(s, n) ==
    /\ LoopFree
    /\ reader[s] = "reading"
    /\ ~sawEnd[s]
    /\ n \in 1..MaxAudioChunkSamples
    /\ session[s].inputSamples + n <= MaxSamples
    /\ ~ChunkFits(session[s], n)
    /\ ReaderFails(s, [session[s] EXCEPT !.inputSamples = @ + n], "inputFull")
    /\ ReaderUnchanged
    /\ UNCHANGED <<ready, inputGauge, sawEnd>>

\* EndStream(flush = false): the marker queues behind the stream's hops.
EndWithoutFlush(s) ==
    /\ LoopFree
    /\ reader[s] = "reading"
    /\ ~sawEnd[s]
    /\ sawEnd' = [sawEnd EXCEPT ![s] = TRUE]
    /\ \/ Put(s, session[s], <<NoFlushWork>>)
       \/ PutRaises(s, session[s], <<NoFlushWork>>)
    /\ ReaderUnchanged

\* EndStream(flush = true): the partial hop, then the flush hop.
TerminalWorks(x) == PartialHop(x) \o <<FlushWork>>
EndWithFlush(s) ==
    /\ LoopFree
    /\ reader[s] = "reading"
    /\ ~sawEnd[s]
    /\ session[s].inputSamples > 0
    /\ sawEnd' = [sawEnd EXCEPT ![s] = TRUE]
    /\ LET works == TerminalWorks(session[s])
           x == FlushPartial(session[s])
       IN  Put(s, x, works) \/ PutRaises(s, x, works)
    /\ ReaderUnchanged

\* ... of a stream without a sample: completed by the reader itself.
EndEmptyStream(s) ==
    /\ LoopFree
    /\ reader[s] = "reading"
    /\ ~sawEnd[s]
    /\ session[s].inputSamples = 0
    /\ sawEnd' = [sawEnd EXCEPT ![s] = TRUE]
    /\ session' = [session EXCEPT ![s] = Complete(@, TRUE)]
    /\ outputGauge' = outputGauge - CompleteDiscards(session[s])
    /\ ReaderUnchanged
    /\ UNCHANGED <<ready, inputGauge, reader, toPut>>

\* A slot of the input queue became free for a blocked reader.
ResumePut(s) ==
    /\ LoopFree
    /\ reader[s] = "putting"
    /\ Room(session[s]) > 0
    /\ Put(s, session[s], toPut[s]) \/ PutRaises(s, session[s], toPut[s])
    /\ ReaderUnchanged
    /\ UNCHANGED sawEnd

\* A message the protocol forbids: malformed or discontiguous audio, a second
\* StartStream, anything after EndStream, or a half-close before it.
ProtocolViolation(s) ==
    /\ LoopFree
    /\ reader[s] = "reading"
    /\ ReaderFails(s, session[s], "protocol")
    /\ ReaderUnchanged
    /\ UNCHANGED <<ready, inputGauge, sawEnd>>

\* No message for stream_idle_timeout_s, whether or not EndStream was seen.
IdleTimeout(s) ==
    /\ LoopFree
    /\ reader[s] = "reading"
    /\ ReaderFails(s, session[s], "protocol")
    /\ ReaderUnchanged
    /\ UNCHANGED <<ready, inputGauge, sawEnd>>

\* The client half-closes after EndStream: the reader returns.
HalfClose(s) ==
    /\ LoopFree
    /\ reader[s] = "reading"
    /\ sawEnd[s]
    /\ reader' = [reader EXCEPT ![s] = "stopped"]
    /\ UNCHANGED <<schedVars, registry, activeGauge, streamId, handler, sending,
                   toPut, sawEnd, stopping, received>>

-----------------------------------------------------------------------------
(* The shutdown of main.run, as far as streams notice it: no new RPC, then  *)
(* every RPC left is cancelled, then the scheduler is closed, which need not *)
(* wait for the tasks of the cancelled RPCs to have run.                     *)

StopServer ==
    /\ MayStop
    /\ ~stopping
    /\ stopping' = TRUE
    /\ UNCHANGED <<schedVars, registry, activeGauge, streamId, handler, sending,
                   reader, toPut, sawEnd, received>>

GraceOver(s) == stopping /\ CancelRPC(s)

Shutdown == stopping /\ CloseScheduler /\ UNCHANGED serviceVars

-----------------------------------------------------------------------------

Handler(s) ==
    \/ \E id \in StreamIds : Start(s, id) \/ RefuseStart(s, id)
    \/ RejectFirst(s)
    \/ TakeEvent(s) \/ MessageSent(s) \/ EndedSent(s) \/ AbortSent(s) \/ CancelRPC(s)

Reader(s) ==
    \/ \E n \in 1..MaxAudioChunkSamples : AcceptAudio(s, n) \/ ChunkRefused(s, n)
    \/ EndWithoutFlush(s) \/ EndWithFlush(s) \/ EndEmptyStream(s) \/ ResumePut(s)
    \/ ProtocolViolation(s) \/ IdleTimeout(s) \/ HalfClose(s)

SchedulerStep == RunStep /\ UNCHANGED serviceVars

Next ==
    \/ SchedulerStep
    \/ \E s \in Streams : Handler(s) \/ Reader(s)
    \/ StopServer
    \/ Shutdown

Spec == Init /\ [][Next]_vars

-----------------------------------------------------------------------------
(* Properties. *)

\* Values have their types and no queue exceeds its capacity.  The gauges are
\* not typed here: GaugesMatchQueues says what they are.
SessionTypeOK == session \in [Streams -> BoundedSession]
SchedulerTypeOK ==
    /\ ready \in Seq(Streams) /\ Len(ready) <= MaxActiveStreams
    /\ sched \in SchedulerStates
    /\ batch \in Seq(Streams) /\ Len(batch) <= MaxBatchSize
    /\ active \in Seq(ActiveEntry)
    /\ closing \in BOOLEAN
    /\ produced \in [Streams -> Seq(EnhancedHop)]
ServiceTypeOK ==
    /\ registry \in [StreamIds -> Streams \cup {None}]
    /\ streamId \in [Streams -> StreamIds \cup {None}]
    /\ handler \in [Streams -> HandlerStates]
    /\ sending \in [Streams -> OutputEvent \cup {Accepted, None}]
    /\ reader \in [Streams -> ReaderStates]
    /\ toPut \in [Streams -> Seq(ModelWork)]
    /\ sawEnd \in [Streams -> BOOLEAN]
    /\ stopping \in BOOLEAN
    /\ received \in [Streams -> Nat]
TypeOK == SessionTypeOK /\ SchedulerTypeOK /\ ServiceTypeOK

\* The three gauges are adjusted at a dozen places, by the reader, the
\* scheduler, the handler and the finally clause; whatever the interleaving,
\* they equal what the queues and the registry hold.
GaugesMatchQueues ==
    /\ inputGauge = HopSamples * MapThenSumSet(LAMBDA s : QueuedSources(session[s].inq), Streams)
    /\ outputGauge = MapThenSumSet(LAMBDA s : QueuedAudio(session[s].outq), Streams)
    /\ activeGauge = Cardinality(RegisteredIds)

\* The registry holds exactly the accepted RPCs whose handler has not ended,
\* each under its own ID: an RPC that was refused for a duplicate ID does not
\* remove the entry of the RPC it collided with.
RegistryExact ==
    \A s \in Streams, id \in StreamIds :
        registry[id] = s <=> /\ streamId[s] = id
                             /\ reader[s] # "none"
                             /\ handler[s] # "closed"

Elements(seq) == {seq[i] : i \in DOMAIN seq}
Waiting(s) == s \in Elements(ready) \cup Elements(batch)
Distinct(seq) == \A i, j \in DOMAIN seq : seq[i] = seq[j] => i = j
Running == sched \notin {"dead", "closed"}
InFlight(s) == \E i \in DOMAIN active : active[i].stream = s

\* The fairness of the scheduler rests on every stream waiting at most once,
\* and its correctness on every stream being in at most one place of a batch:
\* two hops of one stream in flight would use the same caches.
WaitsOnce ==
    /\ Distinct(ready)
    /\ Distinct(batch)
    /\ \A i \in DOMAIN ready, j \in DOMAIN batch : ready[i] # batch[j]
    /\ \A i, j \in DOMAIN active : active[i].stream = active[j].stream => i = j
    /\ \A i \in DOMAIN batch, j \in DOMAIN active : batch[i] # active[j].stream
    /\ \A i \in DOMAIN ready : session[ready[i]].scheduled
    /\ \A i \in DOMAIN batch : session[batch[i]].scheduled

\* A stream with input is never forgotten: as long as the scheduler runs it
\* waits in the ready queue or the batch, or its result will renotify it.
NoLostWakeup ==
    Running =>
        \A s \in Streams :
            LET x == session[s]
            IN  /\ x.scheduled /\ ~x.cancelled => Waiting(s)
                /\ x.inq # <<>> /\ ~x.cancelled /\ ~x.ended => x.scheduled \/ InFlight(s)

(* The samples of a stream, as intervals in stream order. *)

EndOf(hop) == hop.start + hop.valid

\* The first n elements of seq are hops that tile [first, end).
Tile(seq, n, first, end) ==
    /\ \A i \in 1..n : seq[i].start = IF i = 1 THEN first ELSE EndOf(seq[i - 1])
    /\ end = IF n = 0 THEN first ELSE EndOf(seq[n])

\* Queues of events and of work end in at most one element that is no hop.
Audible(outq) ==
    IF outq # <<>> /\ ~IsAudio(outq[Len(outq)]) THEN Len(outq) - 1 ELSE Len(outq)
Sourced(works) ==
    IF works # <<>> /\ ~IsSource(works[Len(works)]) THEN Len(works) - 1 ELSE Len(works)

\* What a client of a stream that was not cut off has received, is being
\* sent and has queued are contiguous samples, ending where the server's
\* output count says.
SendingAudio(s) == handler[s] = "sending" /\ IsAudio(sending[s])
SentUpTo(s) == IF SendingAudio(s) THEN EndOf(sending[s]) ELSE received[s]
OutputContiguous ==
    \A s \in Streams :
        LET x == session[s]
        IN  ~x.cancelled =>
                /\ SendingAudio(s) => sending[s].start = received[s]
                /\ \A i \in 1..Audible(x.outq) : IsAudio(x.outq[i])
                /\ Tile(x.outq, Audible(x.outq), SentUpTo(s), x.outputSamples)

\* The work of a stream that is queued, or waits in a blocked put, continues
\* from sample "first" up to the samples still in the rechunker.
QueueContinues(x, put, first) ==
    LET works == x.inq \o put
    IN  /\ \A i \in 1..Sourced(works) : IsSource(works[i])
        /\ Tile(works, Sourced(works), first, x.nextSample)

\* The pending hop is the next to be delivered, the hop in flight comes after
\* it, then the queue, then the rechunker's remainder.
AfterPending(x) == IF x.pending = None THEN 0 ELSE EndOf(x.pending)
InputChain(x, put, flight) ==
    /\ x.inputSamples = x.nextSample + x.buffered
    /\ x.outputSamples = IF x.pending = None THEN 0 ELSE x.pending.start
    /\ flight = {} => QueueContinues(x, put, AfterPending(x))
    /\ \A work \in flight :
          IF IsSource(work)
          THEN work.start = AfterPending(x) /\ QueueContinues(x, put, EndOf(work))
          ELSE QueueContinues(x, put, AfterPending(x))

\* No accepted sample is lost or duplicated on its way through the rechunker,
\* a blocked put, the input queue, the model and the pending hop.
WorkInFlight(s) == {active[i].work : i \in {j \in DOMAIN active : active[j].stream = s}}
Live(s) == Running /\ ~session[s].cancelled /\ ~session[s].ended
InputConserved ==
    \A s \in Streams : Live(s) => InputChain(session[s], toPut[s], WorkInFlight(s))

\* Together: from the first sample the client sent to the last one it has
\* received nothing is missing, repeated or out of order.
SampleChain == OutputContiguous /\ InputConserved

\* The audio that is labelled with a hop was computed from that hop of that
\* stream, for whatever batches the stream's hops travelled in.
AudioIsOwn ==
    \A s \in Streams : \A i \in DOMAIN produced[s] :
        produced[s][i].heard = [stream |-> s, start |-> produced[s][i].start]

\* StreamEnded and failures are last in the queue, and the totals StreamEnded
\* reports are what the client has then received; with flush, of everything.
CompletionAccounts ==
    \A s \in Streams : \A i \in DOMAIN session[s].outq :
        LET e == session[s].outq[i]
        IN  /\ ~IsAudio(e) => i = Len(session[s].outq)
            /\ e.type = "ended" =>
                 /\ e.output = session[s].outputSamples
                 /\ e.input = session[s].inputSamples
                 /\ IF e.flushed THEN e.output = e.input ELSE e.output <= e.input

\* Once a stream was cancelled nothing but a failure enters its output queue,
\* though the scheduler may still hold its hops.
CancelledIsFinal ==
    [][\A s \in Streams :
        session[s].cancelled =>
            /\ produced'[s] = produced[s]
            /\ \A i \in DOMAIN session'[s].outq :
                 \/ session'[s].outq[i].type = "failure"
                 \/ session'[s].outq[i] \in Elements(session[s].outq)]_vars

\* docs/architecture.md: closing a stream discards only that stream's state; so
\* the scheduler outlives the streams it serves.
SchedulerSurvives == sched # "dead"

-----------------------------------------------------------------------------
(* The service implements one StreamingPipeline per stream: batching,        *)
(* interleaving, overflow and cancellation never change what a stream hears. *)

PipelineClosed(s) == session[s].cancelled \/ session[s].ended
Pipeline == INSTANCE StreamingPipeline WITH
    pending <- [s \in Streams |-> IF PipelineClosed(s) THEN None ELSE session[s].pending],
    caches <- [s \in Streams |-> IF PipelineClosed(s) THEN None ELSE session[s].cache],
    produced <- produced,
    closed <- [s \in Streams |-> PipelineClosed(s)],
    Nothing <- None

ImplementsPipeline == Pipeline!Spec

-----------------------------------------------------------------------------
(* Fairness: every task of the event loop is run, the executor answers, a   *)
(* client that is not slow takes its messages or leaves, and idle timers     *)
(* expire.                                                                  *)

Fairness ==
    /\ WF_vars(SchedulerStep)
    /\ \A s \in Streams :
         /\ WF_vars(TakeEvent(s))
         /\ s \notin SlowClients =>
              WF_vars(MessageSent(s) \/ EndedSent(s) \/ AbortSent(s))
         /\ WF_vars(ResumePut(s))
         /\ WF_vars(IdleTimeout(s))
         /\ WF_vars(GraceOver(s))

FairSpec == Spec /\ Fairness

\* Every RPC that was opened comes to its end: no stream waits forever for an
\* event, whichever of its three tasks failed first, and though another
\* stream's client has stopped reading (docs/architecture.md: a slow client
\* cannot block every other stream).
OpenedRPCsClose == \A s \in Streams \ SlowClients : (handler[s] # "new") ~> (handler[s] = "closed")

=============================================================================
