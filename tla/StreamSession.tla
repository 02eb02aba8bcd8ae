---------------------------- MODULE StreamSession ----------------------------
(***************************************************************************)
(* The state of one Enhance RPC (session.py) and what its helpers do to    *)
(* it.  A session is a record; the operators below take a session and      *)
(* return the session the code leaves behind, so that the scheduler and    *)
(* the request reader, which share sessions, are written with the same     *)
(* vocabulary.                                                             *)
(*                                                                         *)
(* Audio is abstracted to positions: a source hop is the interval          *)
(* [start, start + valid) of its own stream.  What an enhanced hop really  *)
(* contains is named by "heard", the hop the recurrent caches had absorbed *)
(* when it was computed.                                                   *)
(***************************************************************************)
EXTENDS Integers, Sequences, FiniteSets, FiniteSetsExt

CONSTANTS
    Streams,          \* the Enhance RPCs of a behaviour
    None,             \* Python's None
    HopSamples,       \* HOP_SAMPLES: samples of one model hop
    InputQueueHops,   \* capacity of a session's input queue
    OutputQueueHops   \* capacity of a session's output queue

\* A process serves finitely many RPCs: the gauges are sums over them.
ASSUME StreamsAssumption == IsFiniteSet(Streams)

ASSUME SessionAssumption ==
    /\ HopSamples \in Nat \ {0}
    /\ InputQueueHops \in Nat \ {0}
    /\ OutputQueueHops \in Nat \ {0}

-----------------------------------------------------------------------------
(* Model work and source hops. *)

SourceHop == [start : Nat, valid : 1..HopSamples]

\* None is neither a session nor a hop.
ASSUME NoneAssumption == None \notin Streams /\ None \notin SourceHop

SourceWork(start, valid) == [kind |-> "source", start |-> start, valid |-> valid]
FlushWork == [kind |-> "flush"]
NoFlushWork == [kind |-> "noFlush"]

ModelWork == [kind : {"source"}, start : Nat, valid : 1..HopSamples]
             \cup {FlushWork, NoFlushWork}

IsSource(work) == work.kind = "source"

\* The SourceHop a work item carries; the two terminal items carry none.
SourceOf(work) ==
    IF IsSource(work) THEN [start |-> work.start, valid |-> work.valid] ELSE None

(* What the recurrent caches have absorbed last. *)
CacheContent == [stream : Streams, start : Nat] \cup {None}

(* Output events. *)
OutputAudio == [type : {"audio"}, start : Nat, valid : 1..HopSamples, heard : CacheContent]
StreamCompletion == [type : {"ended"}, input : Nat, output : Nat, flushed : BOOLEAN]
\* Why an RPC is aborted: what the client did or failed to do in time, a
\* StartStream the registry refused, a full queue, the model, anything else.
Reasons == {"protocol", "refused", "inputFull", "outputFull", "inference", "internal"}
RPCFailure == [type : {"failure"}, reason : Reasons]
OutputEvent == OutputAudio \cup StreamCompletion \cup RPCFailure

IsAudio(event) == event.type = "audio"
Failure(reason) == [type |-> "failure", reason |-> reason]

-----------------------------------------------------------------------------
(* The session record. *)

Session == [inq : Seq(ModelWork), outq : Seq(OutputEvent),
            pending : SourceHop \cup {None}, cache : CacheContent,
            scheduled : BOOLEAN, ended : BOOLEAN, cancelled : BOOLEAN,
            inputSamples : Nat, outputSamples : Nat,
            buffered : 0..(HopSamples - 1), nextSample : Nat]

\* The queues of a session never exceed their capacity.
BoundedSession == {x \in Session : /\ Len(x.inq) <= InputQueueHops
                                   /\ Len(x.outq) <= OutputQueueHops}

FreshSession ==
    [inq |-> <<>>, outq |-> <<>>, pending |-> None, cache |-> None,
     scheduled |-> FALSE, ended |-> FALSE, cancelled |-> FALSE,
     inputSamples |-> 0, outputSamples |-> 0, buffered |-> 0, nextSample |-> 0]

OutputFull(x) == Len(x.outq) = OutputQueueHops

\* Samples a queue of events holds for the output gauge, and hops a queue of
\* work holds for the input gauge.
QueuedAudio(outq) ==
    MapThenSumSet(LAMBDA i : outq[i].valid, {i \in DOMAIN outq : IsAudio(outq[i])})
QueuedSources(works) == Cardinality({i \in DOMAIN works : IsSource(works[i])})

Emit(x, event) == [x EXCEPT !.outq = Append(@, event)]

\* _fail and the except clauses of _read_requests: cancel, discard every
\* queued event, leave the failure alone in the queue.
Fail(x, reason) == [x EXCEPT !.cancelled = TRUE, !.outq = <<Failure(reason)>>]

\* _complete: idempotent, and a completion that does not fit is a failure.
Completion(x, flushed) ==
    [type |-> "ended", input |-> x.inputSamples, output |-> x.outputSamples,
     flushed |-> flushed]
Complete(x, flushed) ==
    IF x.ended THEN x
    ELSE LET y == [x EXCEPT !.ended = TRUE]
         IN  IF OutputFull(y) THEN Fail(y, "outputFull")
                              ELSE Emit(y, Completion(y, flushed))
CompleteWithoutFlush(x) == Complete([x EXCEPT !.pending = None], FALSE)

-----------------------------------------------------------------------------
(* The rechunker of a session (audio.py), at the level of counts. *)

InputBufferSamples == InputQueueHops * HopSamples
ChunkFits(x, n) == x.buffered + n <= InputBufferSamples

\* (fault: _next_sample is read once for the whole chunk)
FullHops_SameStart(x, n) ==
    [i \in 1..((x.buffered + n) \div HopSamples) |-> SourceWork(x.nextSample, HopSamples)]

\* The full hops an accepted chunk of n samples completes.
FullHops(x, n) ==
    [i \in 1..((x.buffered + n) \div HopSamples) |->
        SourceWork(x.nextSample + (i - 1) * HopSamples, HopSamples)]
Rechunk(x, n) ==
    LET total == x.buffered + n
    IN  [x EXCEPT !.buffered = total % HopSamples,
                  !.nextSample = @ + HopSamples * (total \div HopSamples)]

\* flush_partial: the buffered remainder as one padded hop.
PartialHop(x) ==
    IF x.buffered = 0 THEN <<>> ELSE <<SourceWork(x.nextSample, x.buffered)>>
FlushPartial(x) == [x EXCEPT !.buffered = 0, !.nextSample = @ + x.buffered]

=============================================================================
