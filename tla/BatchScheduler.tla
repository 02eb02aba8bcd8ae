---------------------------- MODULE BatchScheduler ----------------------------
(***************************************************************************)
(* The micro-batch scheduler (scheduler.py): one task that takes ready     *)
(* streams from a bounded queue, dispatches one hop of each to the model   *)
(* and hands the results back.                                             *)
(*                                                                         *)
(* The task shares the event loop with every RPC handler and request       *)
(* reader.  Its loops over the batch contain no await, so they are written *)
(* one stream per step and the other tasks wait for LoopFree; the only     *)
(* places where they interleave with the scheduler are the awaits: waiting *)
(* for a ready stream, waiting for more of them, waiting for the model.    *)
(*                                                                         *)
(* Of the model only the delay is kept: inference returns, for each entry  *)
(* of the batch, audio that depends on what that entry's caches had        *)
(* absorbed and caches that have absorbed the new hop, as the signal cache *)
(* of the network and the repository's IdentityDelayModel do.              *)
(***************************************************************************)
EXTENDS StreamSession

CONSTANTS
    MaxActiveStreams,   \* capacity of the ready queue (and of the registry)
    MaxBatchSize        \* most streams in one batch

ASSUME SchedulerAssumption ==
    /\ MaxActiveStreams \in Nat \ {0}
    /\ MaxBatchSize \in Nat \ {0}

VARIABLES
    session,       \* the session of each RPC
    ready,         \* BatchScheduler._ready
    sched,         \* where the scheduler's task stands
    batch,         \* streams taken from ready and not dispatched yet
    active,        \* dispatched work: what the model computes and returns
    closing,       \* BatchScheduler._closing
    inputGauge,    \* metrics.input_queue_samples
    outputGauge,   \* metrics.output_queue_samples
    produced       \* history: the enhanced hops each stream's queue was given

schedVars == <<session, ready, sched, batch, active, closing,
               inputGauge, outputGauge, produced>>

SchedulerStates == {"idle", "collect", "dispatch", "infer", "distribute",
                    "failing", "dead", "closed"}

\* No task runs between two steps of a loop that contains no await.
LoopFree == sched \notin {"dispatch", "distribute", "failing"}

\* One element of a batch: "cache" is what the model is given, then what it
\* returns; "wav" is the audio it returns.
ActiveEntry == [stream : Streams, work : ModelWork,
                wav : CacheContent, cache : CacheContent]

EnhancedHop == [start : Nat, valid : 1..HopSamples, heard : CacheContent]

SchedulerInit ==
    /\ session = [s \in Streams |-> FreshSession]
    /\ ready = <<>>
    /\ sched = "idle"
    /\ batch = <<>>
    /\ active = <<>>
    /\ closing = FALSE
    /\ inputGauge = 0
    /\ outputGauge = 0
    /\ produced = [s \in Streams |-> <<>>]

-----------------------------------------------------------------------------
(* notify: a stream enters the ready queue at most once.  put_nowait raises *)
(* QueueFull when the queue is full, after scheduled has been set.          *)

\* (fault: a stream that waits already is queued again)
Notifiable_Again(x) == ~closing /\ ~x.cancelled /\ x.inq # <<>>
Notifiable(x) == ~closing /\ ~x.cancelled /\ ~x.scheduled /\ x.inq # <<>>
ReadyFull == Len(ready) >= MaxActiveStreams
NotifyRaises(x) == Notifiable(x) /\ ReadyFull
Notified(x) == IF Notifiable(x) THEN [x EXCEPT !.scheduled = TRUE] ELSE x
\* (fault: the stream is marked and not queued)
ReadyAfter_Lost(s, x) == ready
ReadyAfter(s, x) == IF Notifiable(x) /\ ~ReadyFull THEN Append(ready, s) ELSE ready

-----------------------------------------------------------------------------
(* Collecting a batch. *)

\* The first ready stream opens a batch.
TakeFirst ==
    /\ sched = "idle"
    /\ ready # <<>>
    /\ batch' = <<Head(ready)>>
    /\ ready' = Tail(ready)
    /\ sched' = "collect"
    /\ UNCHANGED <<session, active, closing, inputGauge, outputGauge, produced>>

\* Until the batch deadline, further ready streams join it.
TakeMore ==
    /\ sched = "collect"
    /\ Len(batch) < MaxBatchSize
    /\ ready # <<>>
    /\ batch' = Append(batch, Head(ready))
    /\ ready' = Tail(ready)
    /\ UNCHANGED <<session, sched, active, closing, inputGauge, outputGauge, produced>>

-----------------------------------------------------------------------------
(* Dispatching: the deadline may pass at any time, so dispatch may begin    *)
(* as soon as one stream was collected.                                     *)

NextToDispatch == Head(batch)

AfterDispatch(entries) ==
    /\ batch' = Tail(batch)
    /\ active' = entries
    /\ sched' = IF Len(batch) > 1 THEN "dispatch"
                ELSE IF entries = <<>> THEN "idle" ELSE "infer"
    /\ UNCHANGED <<ready, closing, produced>>

\* Streams that ended or were cancelled while they waited, and streams whose
\* queue was emptied meanwhile, leave the batch.
NothingToDispatch(x) == x.cancelled \/ x.ended \/ x.inq = <<>>

\* A stream that leaves the batch may be notified again, and gives one work
\* item to the batch if it has one.
Unscheduled(x) == [x EXCEPT !.scheduled = FALSE]
\* (fault: the flag is cleared only for streams without work)
Dequeued_StillScheduled(x) == [x EXCEPT !.inq = Tail(@)]
Dequeued(x) == [Unscheduled(x) EXCEPT !.inq = Tail(@)]

DispatchSkip ==
    /\ sched \in {"collect", "dispatch"}
    /\ LET s == NextToDispatch
           x == session[s]
       IN  /\ NothingToDispatch(x)
           /\ session' = [session EXCEPT ![s] = Unscheduled(x)]
    /\ AfterDispatch(active)
    /\ UNCHANGED <<inputGauge, outputGauge>>

\* EndStream(flush = false) completes the stream at its turn in the queue.
\* The samples of a completion that does not fit are discarded with it.
\* (fault: the drain of a completion that does not fit is not gauged)
CompleteDiscards_Forgotten(x) == 0
CompleteDiscards(x) ==
    IF ~x.ended /\ OutputFull(x) THEN QueuedAudio(x.outq) ELSE 0

DispatchNoFlush ==
    /\ sched \in {"collect", "dispatch"}
    /\ LET s == NextToDispatch
           x == session[s]
           y == Dequeued(x)
       IN  /\ ~NothingToDispatch(x)
           /\ Head(x.inq) = NoFlushWork
           /\ session' = [session EXCEPT ![s] = CompleteWithoutFlush(y)]
           /\ outputGauge' = outputGauge - CompleteDiscards(y)
    /\ AfterDispatch(active)
    /\ UNCHANGED inputGauge

\* One work item of the stream goes to the model with the stream's caches.
GaugedHop(work) == IF IsSource(work) THEN HopSamples ELSE 0

DispatchWork ==
    /\ sched \in {"collect", "dispatch"}
    /\ LET s == NextToDispatch
           x == session[s]
           work == Head(x.inq)
       IN  /\ ~NothingToDispatch(x)
           /\ work # NoFlushWork
           /\ session' = [session EXCEPT ![s] = Dequeued(x)]
           /\ inputGauge' = inputGauge - GaugedHop(work)
           /\ AfterDispatch(Append(active, [stream |-> s, work |-> work,
                                            wav |-> None, cache |-> x.cache]))
    /\ UNCHANGED outputGauge

-----------------------------------------------------------------------------
(* Inference, in the executor thread: infer_batch keeps rows apart.         *)

Absorbed(entry) ==
    IF IsSource(entry.work) THEN [stream |-> entry.stream, start |-> entry.work.start]
                            ELSE None
\* (fault: the caches of row 1 are given to every stream)
InferBatch_SharedRow(entries) ==
    [i \in DOMAIN entries |->
        [entries[i] EXCEPT !.wav = entries[i].cache, !.cache = Absorbed(entries[1])]]
InferBatch(entries) ==
    [i \in DOMAIN entries |->
        [entries[i] EXCEPT !.wav = entries[i].cache, !.cache = Absorbed(entries[i])]]

InferenceDone ==
    /\ sched = "infer"
    /\ active' = InferBatch(active)
    /\ sched' = "distribute"
    /\ UNCHANGED <<session, ready, batch, closing, inputGauge, outputGauge, produced>>

\* A CUDA error, or a non-finite result of any row, raises for the batch.
InferenceFails ==
    /\ sched = "infer"
    /\ sched' = "failing"
    /\ UNCHANGED <<session, ready, batch, active, closing, inputGauge, outputGauge, produced>>

FailEntry ==
    /\ sched = "failing"
    /\ LET s == Head(active).stream
       IN  /\ session' = [session EXCEPT ![s] = Fail(@, "inference")]
           /\ outputGauge' = outputGauge - QueuedAudio(session[s].outq)
    /\ active' = Tail(active)
    /\ sched' = IF Len(active) > 1 THEN "failing" ELSE "idle"
    /\ UNCHANGED <<ready, batch, closing, inputGauge, produced>>

-----------------------------------------------------------------------------
(* Distribution: the audio computed now belongs to the hop before.          *)

Returned == Head(active)
AfterDistribute ==
    /\ active' = Tail(active)
    /\ sched' = IF Len(active) > 1 THEN "distribute" ELSE "idle"

\* Whoever was cancelled or ended during inference gets nothing.
\* (fault: a cancelled stream still gets its result)
Unwanted_IfEnded(x) == x.ended
Unwanted(x) == x.cancelled \/ x.ended

DistributeSkip ==
    /\ sched = "distribute"
    /\ Unwanted(session[Returned.stream])
    /\ AfterDistribute
    /\ UNCHANGED <<session, ready, batch, closing, inputGauge, outputGauge, produced>>

\* The session once the result's caches and source have been stored in it.
\* (faults: the updated caches, or the source, are not stored)
Advance_KeepsCaches(x, entry) == [x EXCEPT !.pending = SourceOf(entry.work)]
Advance_KeepsSource(x, entry) == [x EXCEPT !.cache = entry.cache]
Advance(x, entry) ==
    [x EXCEPT !.cache = entry.cache, !.pending = SourceOf(entry.work)]
\* (fault: the audio is labelled with the hop that was just absorbed)
Enhanced_NotDelayed(x, entry) ==
    [start |-> IF IsSource(entry.work) THEN entry.work.start ELSE x.pending.start,
     valid |-> x.pending.valid, heard |-> entry.wav]
Enhanced(x, entry) ==
    [start |-> x.pending.start, valid |-> x.pending.valid, heard |-> entry.wav]

DistributeOverflow ==
    /\ sched = "distribute"
    /\ LET s == Returned.stream
           x == session[s]
       IN  /\ ~Unwanted(x)
           /\ x.pending # None
           /\ OutputFull(x)
           /\ session' = [session EXCEPT ![s] = Fail(Advance(x, Returned), "outputFull")]
           /\ outputGauge' = outputGauge - QueuedAudio(x.outq)
    /\ AfterDistribute
    /\ UNCHANGED <<ready, batch, closing, inputGauge, produced>>

\* Results are emitted for the previous hop.
AudioOf(hop) ==
    [type |-> "audio", start |-> hop.start, valid |-> hop.valid, heard |-> hop.heard]
Deliver(x, entry) ==
    IF x.pending = None THEN Advance(x, entry)
    ELSE [Emit(Advance(x, entry), AudioOf(Enhanced(x, entry)))
            EXCEPT !.outputSamples = @ + x.pending.valid]
DeliveredSamples(x) == IF x.pending = None THEN 0 ELSE x.pending.valid

\* What is delivered when nothing overflows, and its trace in the history.
Deliverable(x) == ~Unwanted(x) /\ (x.pending = None \/ ~OutputFull(x))
RecordProduced(s, x) ==
    produced' = IF x.pending = None THEN produced
                ELSE [produced EXCEPT ![s] = Append(@, Enhanced(x, Returned))]

\* The flush result completes the stream.
DistributeFlush ==
    /\ sched = "distribute"
    /\ Returned.work = FlushWork
    /\ LET s == Returned.stream
           x == session[s]
           y == Deliver(x, Returned)
       IN  /\ Deliverable(x)
           /\ session' = [session EXCEPT ![s] = Complete(y, TRUE)]
           /\ outputGauge' = outputGauge + DeliveredSamples(x) - CompleteDiscards(y)
           /\ RecordProduced(s, x)
    /\ AfterDistribute
    /\ UNCHANGED <<ready, batch, closing, inputGauge>>

\* Any other result leaves the stream ready again if it has more input.
DistributeHop ==
    /\ sched = "distribute"
    /\ Returned.work # FlushWork
    /\ LET s == Returned.stream
           x == session[s]
           y == Deliver(x, Returned)
       IN  /\ Deliverable(x)
           /\ ~NotifyRaises(y)
           /\ session' = [session EXCEPT ![s] = Notified(y)]
           /\ ready' = ReadyAfter(s, y)
           /\ outputGauge' = outputGauge + DeliveredSamples(x)
           /\ RecordProduced(s, x)
    /\ AfterDistribute
    /\ UNCHANGED <<batch, closing, inputGauge>>

\* notify raises QueueFull into _run, which nothing catches: the task ends.
DistributeDies ==
    /\ sched = "distribute"
    /\ Returned.work # FlushWork
    /\ LET s == Returned.stream
           x == session[s]
           y == Deliver(x, Returned)
       IN  /\ Deliverable(x)
           /\ NotifyRaises(y)
           /\ session' = [session EXCEPT ![s] = Notified(y)]
           /\ outputGauge' = outputGauge + DeliveredSamples(x)
           /\ RecordProduced(s, x)
    /\ sched' = "dead"
    /\ active' = <<>>
    /\ UNCHANGED <<ready, batch, closing, inputGauge>>

-----------------------------------------------------------------------------
(* close: the task is cancelled at the await it stands at.                  *)

CloseScheduler ==
    /\ LoopFree
    /\ ~closing
    /\ closing' = TRUE
    /\ sched' = IF sched = "dead" THEN "dead" ELSE "closed"
    /\ batch' = <<>>
    /\ active' = <<>>
    /\ UNCHANGED <<session, ready, inputGauge, outputGauge, produced>>

\* The steps of _run.
RunStep ==
    \/ TakeFirst \/ TakeMore
    \/ DispatchSkip \/ DispatchNoFlush \/ DispatchWork
    \/ InferenceDone \/ InferenceFails \/ FailEntry
    \/ DistributeSkip \/ DistributeOverflow
    \/ DistributeFlush \/ DistributeHop \/ DistributeDies

=============================================================================
