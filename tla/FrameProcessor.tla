---------------------------- MODULE FrameProcessor ----------------------------
(***************************************************************************)
(* RemoteFastEnhancer (processor.py): frames go in, and frames of the same *)
(* timeline come out a fixed lag later, enhanced where the server answered *)
(* in time and raw elsewhere.  LiveKit calls it from one event loop; the   *)
(* worker (by its contract, WorkerInterface) calls back from its thread    *)
(* between any two lock sections of such a call.  A sample is its position *)
(* and the generation it comes from, 0 for raw audio.                      *)
(***************************************************************************)
EXTENDS WorkerInterface, Timeline

CONSTANTS
    Delay,          \* ALGORITHMIC_DELAY_SAMPLES
    ResponseWait,   \* _response_wait_samples
    MaxBuffer,      \* max_buffer_ms in samples
    Sizes,          \* samples of a frame
    LastGeneration  \* bound on generations

ASSUME ProcessorAssumption ==
    /\ Delay \in Nat
    /\ ResponseWait \in Nat
    /\ MaxBuffer \in Nat \ {0}
    /\ Sizes \subseteq Nat \ {0}
    /\ LastGeneration \in Nat

Lag == Delay + ResponseWait

VARIABLES
    app,                \* where the event loop is in a call
    size,               \* samples of the frame it processes
    enabled, closed,    \* _enabled, _closed
    inputCursor, outputCursor,
    raw, enhanced,      \* _raw, _enhanced
    remoteGeneration,
    output,             \* the frame the last call of _process returned
    mistrusted,         \* history: a response has led to force_reset
    overrun             \* history: the server answered for audio it was not sent

processorVars == <<app, size, enabled, closed, inputCursor, outputCursor, raw, enhanced,
                   remoteGeneration, output, mistrusted, overrun>>
vars == <<processorVars, interfaceVars>>

Sample == [position : 0..LastSample, from : 0..LastGeneration]
Samples(start, n, g) == [i \in 1..n |-> [position |-> start + i - 1, from |-> g]]

Init ==
    /\ InterfaceInit
    /\ app = "idle"
    /\ size = 0
    /\ enabled = TRUE /\ closed = FALSE
    /\ inputCursor = 0 /\ outputCursor = 0
    /\ raw = Run(0, <<>>)
    /\ enhanced = <<>>
    /\ remoteGeneration = 0
    /\ output = <<>>
    /\ mistrusted = FALSE /\ overrun = FALSE

-----------------------------------------------------------------------------
(* The event loop. *)

MayProcess(n) ==
    /\ app = "idle"
    /\ ~closed
    /\ n <= MaxBuffer
    /\ inputCursor + n <= LastSample + 1

\* _process of a disabled processor returns the frame itself.
PassThrough(n) ==
    /\ MayProcess(n)
    /\ ~enabled
    /\ inputCursor' = inputCursor + n
    /\ outputCursor' = inputCursor + n
    /\ output' = Samples(inputCursor, n, 0)
    /\ UNCHANGED <<app, size, enabled, closed, raw, enhanced, remoteGeneration, mistrusted,
                   overrun, interfaceVars>>

\* The first lock section: the frame joins the raw timeline.
Accept(n) ==
    /\ MayProcess(n)
    /\ enabled
    /\ Appendable(raw, inputCursor)
    /\ raw' = Appended(raw, Samples(inputCursor, n, 0))
    /\ inputCursor' = inputCursor + n
    /\ size' = n
    /\ output' = <<>>
    /\ app' = "sending"
    /\ UNCHANGED <<enabled, closed, outputCursor, enhanced, remoteGeneration, mistrusted, overrun,
                   interfaceVars>>

\* try_send takes the frame ...
TrySend ==
    /\ app = "sending"
    /\ Offer(inputCursor - size, size)
    /\ app' = "reading"
    /\ UNCHANGED <<size, enabled, closed, inputCursor, outputCursor, raw, enhanced,
                   remoteGeneration, output, mistrusted, overrun>>

\* ... or refuses it, whatever the reason; force_reset then asks the worker to
\* give up its stream, which the worker may do at any time anyway.
SendRefused ==
    /\ app = "sending"
    /\ enhanced' = <<>>
    /\ app' = "reading"
    /\ UNCHANGED <<size, enabled, closed, inputCursor, outputCursor, raw, remoteGeneration,
                   output, mistrusted, overrun, interfaceVars>>

\* The last lock section.
OutputSamples == AtMost(size, AtLeast(0, AtLeast(0, inputCursor - Lag) - outputCursor))

ReadWindow ==
    LET n == OutputSamples
        found == IF n = 0 THEN <<>> ELSE Read(enhanced, outputCursor, n)
    IN  /\ app = "reading"
        /\ found # None \/ Readable(raw, outputCursor, n)
        /\ output' = IF found = None THEN RawRead(raw, outputCursor, n) ELSE found
        /\ outputCursor' = outputCursor + n
        /\ raw' = DiscardBefore(raw, outputCursor')
        /\ enhanced' = Discarded(enhanced, outputCursor')
        /\ size' = 0
        /\ app' = "idle"
        /\ UNCHANGED <<enabled, closed, inputCursor, remoteGeneration, mistrusted, overrun,
                       interfaceVars>>

\* The setter of enabled: both buffers start afresh at the input cursor, then
\* force_reset (see SendRefused).  (fault: the raw timeline stays behind)
SetEnabled_KeepsRaw ==
    /\ app = "idle"
    /\ ~closed
    /\ enabled' = ~enabled
    /\ enhanced' = <<>>
    /\ outputCursor' = inputCursor
    /\ output' = <<>>
    /\ UNCHANGED <<app, size, closed, inputCursor, raw, remoteGeneration, mistrusted, overrun,
                   interfaceVars>>
SetEnabled ==
    /\ app = "idle"
    /\ ~closed
    /\ enabled' = ~enabled
    /\ enhanced' = <<>>
    /\ raw' = Run(inputCursor, <<>>)
    /\ outputCursor' = inputCursor
    /\ output' = <<>>
    /\ UNCHANGED <<app, size, closed, inputCursor, remoteGeneration, mistrusted, overrun,
                   interfaceVars>>

\* _close: no further frames; the worker is told, and joined for a while; what
\* is buffered is dropped, whether or not the worker has stopped.
Close ==
    /\ app = "idle"
    /\ ~closed
    /\ closed' = TRUE
    /\ output' = <<>>
    /\ app' = "closing"
    /\ UNCHANGED <<size, enabled, inputCursor, outputCursor, raw, enhanced, remoteGeneration,
                   mistrusted, overrun, interfaceVars>>

Closed ==
    /\ app = "closing"
    /\ enhanced' = <<>>
    /\ raw' = Run(inputCursor, <<>>)
    /\ app' = "idle"
    /\ UNCHANGED <<size, enabled, closed, inputCursor, outputCursor, remoteGeneration, output,
                   mistrusted, overrun, interfaceVars>>

-----------------------------------------------------------------------------
(* The callbacks, from the worker's thread. *)

\* on_generation: what is left of an older generation is dropped.
GenerationChanged(start) ==
    /\ generation < LastGeneration
    /\ Begin(start)
    /\ remoteGeneration' = generation'
    /\ enhanced' = <<>>
    /\ UNCHANGED <<app, size, enabled, closed, inputCursor, outputCursor, raw, output, mistrusted,
                   overrun>>

\* on_protocol_error, of a generation that the worker then gives up or, between
\* two generations, of a probe.
ProtocolError ==
    /\ phase # "closed"
    /\ generation >= remoteGeneration
    /\ enhanced' = <<>>
    /\ UNCHANGED <<app, size, enabled, closed, inputCursor, outputCursor, raw, remoteGeneration,
                   output, mistrusted, overrun, interfaceVars>>

\* What _receive_audio keeps of a response: the part not yet returned.
\* (fault: as much is cut off the end instead)
Trimmed_End(run) ==
    IF run.start < outputCursor
    THEN Run(outputCursor, SubSeq(run.data, 1, EndSample(run) - outputCursor))
    ELSE run
Trimmed(run) ==
    IF run.start < outputCursor
    THEN Run(outputCursor, SubSeq(run.data, outputCursor - run.start + 1, Len(run.data)))
    ELSE run

\* (faults: an answer to everything sent is beyond it; nothing is)
Beyond_Reached(run) == EndSample(run) >= inputCursor
Beyond_Never(run) == FALSE
Beyond(run) == EndSample(run) > inputCursor

\* _receive_audio of a run of the generation g: late, ...
Receive(g, run) ==
    \/ /\ g # remoteGeneration \/ EndSample(run) <= outputCursor
       /\ UNCHANGED <<enhanced, mistrusted>>
    \* ... beyond the input, ...
    \/ /\ g = remoteGeneration /\ EndSample(run) > outputCursor
       /\ Beyond(run)
       /\ mistrusted' = TRUE
       /\ UNCHANGED enhanced
    \* ... in conflict with what is buffered, or stored.
    \/ /\ g = remoteGeneration /\ EndSample(run) > outputCursor
       /\ ~Beyond(run)
       /\ IF InsertRaises(enhanced, Trimmed(run))
          THEN /\ enhanced' = <<>>
               /\ mistrusted' = TRUE
          ELSE /\ enhanced' = Inserted(enhanced, Trimmed(run))
               /\ UNCHANGED mistrusted

ReceiveAudio(until) ==
    /\ Deliver(until)
    /\ Receive(generation, Run(out, Samples(out, until - out, generation)))
    /\ UNCHANGED <<app, size, enabled, closed, inputCursor, outputCursor, raw, remoteGeneration,
                   output, overrun>>

ReceiveOverrun(until) ==
    /\ Overrun(until)
    /\ Receive(generation, Run(out, Samples(out, until - out, generation)))
    /\ overrun' = TRUE
    /\ UNCHANGED <<app, size, enabled, closed, inputCursor, outputCursor, raw, remoteGeneration,
                   output>>

\* The rest of the worker's steps do not reach the processor.
WorkerGoesOn ==
    /\ \/ \E until \in 1..(LastSample + 1) : Advance(until)
       \/ EndGeneration
       \/ CloseWorker
    /\ UNCHANGED processorVars

-----------------------------------------------------------------------------

Next ==
    \/ \E n \in Sizes : PassThrough(n) \/ Accept(n)
    \/ TrySend \/ SendRefused \/ ReadWindow
    \/ SetEnabled \/ Close \/ Closed
    \/ \E start \in 0..LastSample : GenerationChanged(start)
    \/ ProtocolError
    \/ \E until \in 1..(LastSample + 1) : ReceiveAudio(until) \/ ReceiveOverrun(until)
    \/ WorkerGoesOn

Spec == Init /\ [][Next]_vars

-----------------------------------------------------------------------------
(* Properties. *)

\* "Enhanced audio is never paired with the wrong input time range": the frame
\* returned holds the samples of the interval that ends at the output cursor,
\* all of them raw or all from one generation.
OutputAligned ==
    \A i \in DOMAIN output :
        /\ output[i].position = outputCursor - Len(output) + i - 1
        /\ output[i].from = output[1].from

\* Between two calls the raw timeline is exactly what was not yet returned, and
\* the output trails the input by the lag at most: neither append nor read of
\* the raw timeline can raise, and the buffer stays as small as the lag.
RawIsTheWindow ==
    app = "idle" /\ enabled /\ ~closed =>
        /\ raw.start = outputCursor
        /\ EndSample(raw) = inputCursor
        /\ inputCursor - outputCursor <= Lag

\* Enhanced audio is kept only for the window, sorted and without overlap, and
\* only from the generation that is current.
EnhancedInWindow ==
    /\ \A i \in DOMAIN enhanced : ~closed =>
           /\ enhanced[i].start >= outputCursor
           /\ EndSample(enhanced[i]) <= inputCursor
           /\ \A k \in DOMAIN enhanced[i].data : enhanced[i].data[k].from = remoteGeneration
    /\ \A i, j \in DOMAIN enhanced : i < j => EndSample(enhanced[i]) <= enhanced[j].start

\* A server that keeps to the contract is never taken for one that does not,
\* whatever is late, refused, disabled or reconnected meanwhile.
NoFalseMistrust == mistrusted => overrun

=============================================================================
