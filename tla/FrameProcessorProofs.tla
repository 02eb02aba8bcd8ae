------------------------- MODULE FrameProcessorProofs -------------------------
(* Proofs about the frame processor: for every lag, buffer bound, set of frame *)
(* sizes and number of samples and generations, and for any worker that keeps  *)
(* to WorkerInterface.                                                         *)
EXTENDS FrameProcessor, TimelineProofs

\* A call of _process that has taken its frame and not yet returned one.
Processing == app \in {"sending", "reading"}

CursorTypes ==
    /\ app \in {"idle", "sending", "reading", "closing"}
    /\ size \in Nat
    /\ enabled \in BOOLEAN /\ closed \in BOOLEAN
    /\ inputCursor \in Nat
    /\ outputCursor \in Nat
    /\ outputCursor <= inputCursor
    /\ raw.start \in Nat
    /\ raw.data \in Seq(Sample)

\* In a call of _process the processor is enabled and open; its lag may exceed
\* Lag by the frame it has just taken.
WindowOpen ==
    /\ Processing => enabled /\ ~closed /\ size > 0
    /\ app = "closing" => closed
    /\ enabled /\ ~closed =>
           /\ raw.start = outputCursor
           /\ EndSample(raw) = inputCursor
           /\ inputCursor - outputCursor <= Lag + (IF Processing THEN size ELSE 0)

WindowInv == CursorTypes /\ WindowOpen

\* What neither append nor read of the raw timeline meets: no call raises
\* because of a position.
NeverRaises ==
    /\ app = "idle" /\ enabled /\ ~closed => Appendable(raw, inputCursor)
    /\ app = "reading" => Readable(raw, outputCursor, OutputSamples)

-----------------------------------------------------------------------------
(* The raw timeline. *)

LEMMA LagType == Lag \in Nat
BY ProcessorAssumption DEF Lag

\* A run has the start and the samples it was made of.
LEMMA RunFields ==
    ASSUME NEW start \in Nat, NEW data \in Seq(Sample)
    PROVE  /\ Run(start, data).start = start
           /\ Run(start, data).data = data
           /\ EndSample(Run(start, data)) = start + Len(data)
           /\ Len(data) \in Nat
BY DEF Run, EndSample

LEMMA SamplesType ==
    ASSUME NEW start \in Nat, NEW n \in Nat, start + n <= LastSample + 1,
           NEW g \in 0..LastGeneration
    PROVE  /\ Samples(start, n, g) \in Seq(Sample)
           /\ Len(Samples(start, n, g)) = n
<1>1. \A i \in 1..n : [position |-> start + i - 1, from |-> g] \in Sample
  BY InterfaceAssumption, ProcessorAssumption DEF Sample
<1> QED
  BY <1>1 DEF Samples

\* Discarding moves the start and keeps the end.
LEMMA DiscardKeepsEnd ==
    ASSUME NEW start \in Nat, NEW data \in Seq(Sample), NEW n \in Nat, n <= Len(data)
    PROVE  LET kept == DiscardBefore(Run(start, data), start + n)
           IN  /\ kept.start = start + n
               /\ kept.data \in Seq(Sample)
               /\ EndSample(kept) = EndSample(Run(start, data))
<1> DEFINE run == Run(start, data)
<1>1. run.start = start /\ run.data = data /\ EndSample(run) = start + Len(data)
  BY RunFields
<1>2. Len(data) \in Nat
  OBVIOUS
<1> HIDE DEF run
<1>3. AtMost(AtLeast(0, start + n - start), Len(data)) = n
  BY <1>2 DEF AtMost, AtLeast
<1>4. DiscardBefore(run, start + n) = Run(start + n, SubSeq(data, n + 1, Len(data)))
  BY <1>1, <1>2, <1>3 DEF DiscardBefore
<1>5. /\ SubSeq(data, n + 1, Len(data)) \in Seq(Sample)
      /\ Len(SubSeq(data, n + 1, Len(data))) = Len(data) - n
  OBVIOUS
<1>6. start + n \in Nat
  OBVIOUS
<1> QED
  <2> DEFINE kept == DiscardBefore(run, start + n)
  <2>1. kept.start = start + n /\ kept.data = SubSeq(data, n + 1, Len(data))
    BY <1>4 DEF Run
  <2> HIDE DEF kept
  <2>2. EndSample(kept) = (start + n) + (Len(data) - n)
    BY <1>5, <2>1 DEF EndSample
  <2>3. EndSample(kept) = EndSample(run)
    BY <1>1, <1>2, <2>2
  <2> QED
    BY <1>5, <2>1, <2>3 DEF kept, run

\* A frame is returned only as far as the input has gone past the lag, and by
\* no more than the frame just taken, which brings the lag back to its bound.
LEMMA OutputBounds ==
    ASSUME WindowInv, app = "reading"
    PROVE  /\ OutputSamples \in Nat
           /\ outputCursor + OutputSamples <= inputCursor
           /\ inputCursor - (outputCursor + OutputSamples) <= Lag
BY LagType DEF WindowInv, CursorTypes, WindowOpen, Processing, OutputSamples, AtMost, AtLeast

-----------------------------------------------------------------------------
(* The steps. *)

LEMMA InitWindow ==
    ASSUME Init
    PROVE  WindowInv
<1>1. <<>> \in Seq(Sample) /\ Len(<<>>) = 0
  OBVIOUS
<1>2. raw.start = 0 /\ raw.data = <<>>
  BY DEF Init, Run
<1>3. raw.data \in Seq(Sample) /\ EndSample(raw) = 0
  BY <1>1, <1>2 DEF EndSample
<1>4. /\ app = "idle" /\ size = 0 /\ enabled = TRUE /\ closed = FALSE
      /\ inputCursor = 0 /\ outputCursor = 0
  BY DEF Init
<1> QED
  <2>1. CursorTypes
    <3>1. enabled \in BOOLEAN /\ closed \in BOOLEAN
      BY <1>4, Zenon
    <3>2. size \in Nat /\ inputCursor \in Nat /\ outputCursor \in Nat /\ raw.start \in Nat
      BY <1>2, <1>4
    <3>3. outputCursor <= inputCursor
      BY <1>4
    <3> QED
      BY <1>3, <1>4, <3>1, <3>2, <3>3, Zenon DEF CursorTypes
  <2>2. inputCursor - outputCursor <= Lag + (IF Processing THEN size ELSE 0)
    BY <1>4, LagType DEF Processing
  <2> QED
    BY <1>2, <1>3, <1>4, <2>1, <2>2 DEF WindowInv, WindowOpen, Processing

LEMMA AcceptWindow ==
    ASSUME WindowInv, NEW n \in Sizes, Accept(n)
    PROVE  WindowInv'
<1> DEFINE frame == Samples(inputCursor, n, 0)
<1>1. n \in Nat /\ n > 0 /\ Lag \in Nat
  BY ProcessorAssumption, LagType
<1>2. frame \in Seq(Sample) /\ Len(frame) = n
  <2>1. 0 \in 0..LastGeneration
    BY ProcessorAssumption
  <2> QED
    BY <1>1, <2>1, SamplesType DEF WindowInv, CursorTypes, Accept, MayProcess
<1>3. raw' = Run(raw.start, raw.data \o frame)
  BY DEF Accept, Appended
<1> HIDE DEF frame
<1>4. /\ raw.start \in Nat /\ raw.data \in Seq(Sample)
      /\ raw.data \o frame \in Seq(Sample)
      /\ Len(raw.data \o frame) = Len(raw.data) + n
  <2>1. raw.start \in Nat /\ raw.data \in Seq(Sample)
    BY DEF WindowInv, CursorTypes
  <2> DEFINE data == raw.data
  <2> HIDE DEF data
  <2>2. data \o frame \in Seq(Sample) /\ Len(data \o frame) = Len(data) + n
    BY <1>2, <2>1 DEF data
  <2> QED
    BY <2>1, <2>2 DEF data
<1>5. /\ raw'.start = raw.start
      /\ raw'.data \in Seq(Sample)
      /\ EndSample(raw') = EndSample(raw) + n
      /\ EndSample(raw) \in Nat
  <2>1. raw'.start = raw.start /\ raw'.data = raw.data \o frame
    BY <1>3 DEF Run
  <2>2. /\ EndSample(raw') = raw'.start + Len(raw'.data)
        /\ EndSample(raw) = raw.start + Len(raw.data) /\ Len(raw.data) \in Nat
    BY <1>4 DEF EndSample
  <2>3. Len(raw'.data) = Len(raw.data) + n
    BY <1>4, <2>1
  <2> QED
    BY <1>1, <1>4, <2>1, <2>2, <2>3
<1> QED
  BY <1>1, <1>5 DEF WindowInv, CursorTypes, WindowOpen, Processing, Accept, MayProcess

LEMMA ReadWindowWindow ==
    ASSUME WindowInv, ReadWindow
    PROVE  WindowInv'
<1> DEFINE n == OutputSamples
<1>1. /\ n \in Nat
      /\ outputCursor + n <= inputCursor
      /\ inputCursor - (outputCursor + n) <= Lag
  BY OutputBounds DEF ReadWindow
<1>2. /\ outputCursor' = outputCursor + n
      /\ raw' = DiscardBefore(raw, outputCursor + n)
      /\ app' = "idle" /\ size' = 0
      /\ UNCHANGED <<enabled, closed, inputCursor>>
  BY DEF ReadWindow
<1> HIDE DEF n
<1>3. /\ enabled /\ ~closed
      /\ raw.start = outputCursor
      /\ EndSample(raw) = inputCursor
  BY DEF ReadWindow, WindowInv, WindowOpen, Processing
<1>4. n <= Len(raw.data)
  BY <1>1, <1>3 DEF EndSample, WindowInv, CursorTypes
<1>5. /\ DiscardBefore(raw, outputCursor + n)
           = DiscardBefore(Run(raw.start, raw.data), raw.start + n)
      /\ EndSample(Run(raw.start, raw.data)) = EndSample(raw)
  BY <1>3 DEF DiscardBefore, Run, EndSample
<1>6. raw.start \in Nat /\ raw.data \in Seq(Sample) /\ outputCursor + n \in Nat
  BY <1>1 DEF WindowInv, CursorTypes
<1>7. LET kept == DiscardBefore(Run(raw.start, raw.data), raw.start + n)
      IN  /\ kept.start = raw.start + n
          /\ kept.data \in Seq(Sample)
          /\ EndSample(kept) = EndSample(Run(raw.start, raw.data))
  BY <1>1, <1>4, <1>6, DiscardKeepsEnd
<1>8. /\ raw'.start = outputCursor + n
      /\ raw'.data \in Seq(Sample)
      /\ EndSample(raw') = inputCursor
  BY <1>2, <1>3, <1>5, <1>7
<1> QED
  BY <1>1, <1>2, <1>3, <1>6, <1>8, LagType DEF WindowInv, CursorTypes, WindowOpen, Processing

\* The worker's callbacks and its own steps leave the window alone.
LEMMA QuietWindow ==
    ASSUME WindowInv, UNCHANGED <<app, size, enabled, closed, inputCursor, outputCursor, raw>>
    PROVE  WindowInv'
BY DEF WindowInv, CursorTypes, WindowOpen, Processing, EndSample

LEMMA StepWindow ==
    ASSUME WindowInv, [Next]_vars
    PROVE  WindowInv'
<1>1. ASSUME NEW n \in Sizes, PassThrough(n)
      PROVE  WindowInv'
  <2>1. n \in Nat
    BY ProcessorAssumption
  <2> QED
    BY <1>1, <2>1 DEF PassThrough, MayProcess, WindowInv, CursorTypes, WindowOpen, Processing
<1>2. ASSUME NEW n \in Sizes, Accept(n)
      PROVE  WindowInv'
  BY <1>2, AcceptWindow
<1>3. ASSUME TrySend \/ SendRefused
      PROVE  WindowInv'
  BY <1>3 DEF TrySend, SendRefused, WindowInv, CursorTypes, WindowOpen, Processing, EndSample
<1>4. ASSUME ReadWindow
      PROVE  WindowInv'
  BY <1>4, ReadWindowWindow
<1>5. ASSUME SetEnabled
      PROVE  WindowInv'
  <2>1. raw'.start = inputCursor /\ raw'.data \in Seq(Sample) /\ EndSample(raw') = inputCursor
    <3>1. raw'.start = inputCursor /\ raw'.data = <<>>
      BY <1>5 DEF SetEnabled, Run
    <3>2. <<>> \in Seq(Sample) /\ Len(<<>>) = 0
      OBVIOUS
    <3> QED
      BY <3>1, <3>2 DEF EndSample, WindowInv, CursorTypes
  <2> QED
    BY <1>5, <2>1, LagType DEF SetEnabled, WindowInv, CursorTypes, WindowOpen, Processing
<1>6. ASSUME Close
      PROVE  WindowInv'
  BY <1>6 DEF Close, WindowInv, CursorTypes, WindowOpen, Processing
<1>7. ASSUME Closed
      PROVE  WindowInv'
  BY <1>7 DEF Closed, WindowInv, CursorTypes, WindowOpen, Processing, Run
<1>8. ASSUME NEW start \in 0..LastSample, GenerationChanged(start)
      PROVE  WindowInv'
  BY <1>8, QuietWindow DEF GenerationChanged
<1>9. ASSUME ProtocolError
      PROVE  WindowInv'
  BY <1>9, QuietWindow DEF ProtocolError
<1>10. ASSUME NEW until \in 1..(LastSample + 1), ReceiveAudio(until) \/ ReceiveOverrun(until)
       PROVE  WindowInv'
  BY <1>10, QuietWindow DEF ReceiveAudio, ReceiveOverrun
<1>11. ASSUME WorkerGoesOn
       PROVE  WindowInv'
  BY <1>11, QuietWindow DEF WorkerGoesOn, processorVars
<1>12. ASSUME UNCHANGED vars
       PROVE  WindowInv'
  BY <1>12, QuietWindow DEF vars, processorVars
<1> QED
  BY <1>1, <1>2, <1>3, <1>4, <1>5, <1>6, <1>7, <1>8, <1>9, <1>10, <1>11, <1>12 DEF Next

-----------------------------------------------------------------------------
(* The enhanced audio. *)

Segment == Segments(Sample)

\* The input as one generation returns it; 0 stands for the raw audio.
Heard(g) == [p \in Nat |-> [position |-> p, from |-> g]]

\* What is buffered belongs to the window and to the current generation.  A
\* disabled processor has no window, and so buffers nothing.
EnhancedOK ==
    /\ enhanced \in Seq(Segment)
    /\ Tidy(enhanced)
    /\ \A i \in DOMAIN enhanced :
           /\ outputCursor <= enhanced[i].start
           /\ EndSample(enhanced[i]) <= inputCursor
           /\ Placed(enhanced[i], Heard(remoteGeneration))
    /\ ~enabled => enhanced = <<>> /\ outputCursor = inputCursor

\* Only what came in was offered, and only what was offered is sent.
WorkerOK ==
    /\ inputCursor <= LastSample + 1
    /\ Processing => size <= inputCursor
    /\ offered \subseteq 0..(inputCursor - 1)
    /\ sent \in Nat /\ out \in Nat
    /\ generation \in 0..LastGeneration /\ remoteGeneration \in 0..LastGeneration
    /\ sent <= inputCursor

\* A server that keeps to the contract answers what it was sent, and nothing
\* that is buffered reaches past its last answer.
Trusted ==
    ~overrun => /\ ~mistrusted
                /\ out <= sent
                /\ \A i \in DOMAIN enhanced : EndSample(enhanced[i]) <= out

EnhancedInv == WindowInv /\ EnhancedOK /\ WorkerOK /\ Trusted

LEMMA NothingBuffered ==
    <<>> \in Seq(Segment) /\ Tidy(<<>>) /\ DOMAIN <<>> = {}
BY DEF Tidy

LEMMA InitEnhanced ==
    ASSUME Init
    PROVE  EnhancedInv
<1>1. enhanced = <<>> /\ enabled = TRUE
  BY DEF Init
<1>2. EnhancedOK
  BY <1>1, NothingBuffered DEF EnhancedOK
<1>3. WorkerOK
  BY InterfaceAssumption, ProcessorAssumption DEF Init, InterfaceInit, WorkerOK, Processing
<1>4. Trusted
  BY <1>1, NothingBuffered DEF Init, InterfaceInit, Trusted
<1> QED
  BY <1>2, <1>3, <1>4, InitWindow DEF EnhancedInv

LEMMA SamplesHeard ==
    ASSUME NEW start \in Nat, NEW n \in Nat, NEW g
    PROVE  \A m \in 1..n : Samples(start, n, g)[m] = Heard(g)[start + m - 1]
<1>1. ASSUME NEW m \in 1..n
      PROVE  Samples(start, n, g)[m] = Heard(g)[start + m - 1]
  <2>1. start + m - 1 \in Nat
    OBVIOUS
  <2> QED
    BY <2>1 DEF Samples, Heard
<1> QED
  BY <1>1

\* The runs the worker hands over.
LEMMA AnswerRun ==
    ASSUME EnhancedInv, NEW until \in 1..(LastSample + 1), out < until
    PROVE  LET run == Run(out, Samples(out, until - out, generation))
           IN  /\ run \in Segment /\ run.data # <<>>
               /\ run.start = out /\ EndSample(run) = until
               /\ Placed(run, Heard(generation))
<1> DEFINE n == until - out
           data == Samples(out, n, generation)
<1>1. out \in Nat /\ n \in Nat /\ n > 0 /\ out + n <= LastSample + 1 /\ out + n = until
  BY InterfaceAssumption DEF EnhancedInv, WorkerOK
<1>2. generation \in 0..LastGeneration
  BY DEF EnhancedInv, WorkerOK
<1> HIDE DEF n
<1>3. data \in Seq(Sample) /\ Len(data) = n
  BY <1>1, <1>2, SamplesType
<1>4. \A m \in 1..n : data[m] = Heard(generation)[out + m - 1]
  BY <1>1, SamplesHeard
<1> HIDE DEF data
<1>5. /\ Run(out, data).start = out /\ Run(out, data).data = data
      /\ EndSample(Run(out, data)) = out + n
  BY <1>1, <1>3, RunFields
<1>6. Run(out, data) \in Segment
  BY <1>1, <1>3 DEF Run, Segment, Segments
<1>7. data # <<>>
  BY <1>1, <1>3
<1>8. Placed(Run(out, data), Heard(generation))
  BY <1>1, <1>3, <1>4, <1>5 DEF Placed
<1> QED
  BY <1>1, <1>5, <1>6, <1>7, <1>8 DEF n, data

\* The part of a run not yet returned is a run, with the same end.
LEMMA TrimmedRun ==
    ASSUME EnhancedInv, NEW run \in Segment, run.data # <<>>, EndSample(run) > outputCursor
    PROVE  /\ Trimmed(run) \in Segment /\ Trimmed(run).data # <<>>
           /\ EndSample(Trimmed(run)) = EndSample(run)
           /\ outputCursor <= Trimmed(run).start /\ run.start <= Trimmed(run).start
           /\ TakenFrom(Trimmed(run), run)
<1>1. outputCursor \in Nat
  BY DEF EnhancedInv, WindowInv, CursorTypes
<1>2. /\ run.start \in Nat /\ run.data \in Seq(Sample)
      /\ Len(run.data) \in Nat /\ EndSample(run) = run.start + Len(run.data)
  BY SegmentEnd DEF Segment
<1>3. CASE run.start < outputCursor
  <2>1. AtMost(AtLeast(0, outputCursor - run.start), Len(run.data)) = outputCursor - run.start
    BY <1>1, <1>2, <1>3 DEF AtMost, AtLeast
  <2>2. run.start + (outputCursor - run.start) = outputCursor
    BY <1>1, <1>2
  <2>3. Trimmed(run) = DiscardBefore(run, outputCursor)
    BY <1>3, <2>1, <2>2 DEF Trimmed, DiscardBefore
  <2>4. outputCursor < EndSample(run)
    BY <1>1, <1>2
  <2> QED
    BY <1>1, <2>3, <2>4, CutRun DEF Segment
<1>4. CASE ~(run.start < outputCursor)
  <2>1. Trimmed(run) = run
    BY <1>4 DEF Trimmed
  <2>2. TakenFrom(run, run)
    <3>1. \A m \in DOMAIN run.data : m + (run.start - run.start) = m
      BY <1>2
    <3> QED
      BY <3>1 DEF TakenFrom
  <2> QED
    BY <1>1, <1>2, <1>4, <2>1, <2>2
<1> QED
  BY <1>3, <1>4

\* Whatever run is received, the buffer stays within the window.
LEMMA ReceiveEnhanced ==
    ASSUME EnhancedInv, NEW run \in Segment, run.data # <<>>,
           Placed(run, Heard(generation)),
           Receive(generation, run),
           UNCHANGED <<enabled, inputCursor, outputCursor, remoteGeneration>>
    PROVE  EnhancedOK'
<1>1. CASE enhanced' = enhanced
  BY <1>1 DEF EnhancedInv, EnhancedOK
<1>2. CASE enhanced' = <<>>
  BY <1>2, NothingBuffered DEF EnhancedInv, EnhancedOK
<1>3. ASSUME generation = remoteGeneration, EndSample(run) > outputCursor, ~Beyond(run),
             enhanced' = Inserted(enhanced, Trimmed(run)),
             Overlapping(enhanced, Trimmed(run)) = {}
      PROVE  EnhancedOK'
  <2> DEFINE t == Trimmed(run)
  <2>1. /\ t \in Segment /\ t.data # <<>> /\ EndSample(t) = EndSample(run)
        /\ outputCursor <= t.start /\ TakenFrom(t, run)
    BY <1>3, TrimmedRun
  <2>2. enhanced \in Seq(Segment) /\ Tidy(enhanced)
    BY DEF EnhancedInv, EnhancedOK
  <2>3. EndSample(t) <= inputCursor
    <3>1. inputCursor \in Nat /\ EndSample(run) \in Nat
      BY SegmentEnd DEF Segment, EnhancedInv, WindowInv, CursorTypes
    <3> QED
      BY <1>3, <2>1, <3>1 DEF Beyond
  <2>4. Placed(t, Heard(remoteGeneration))
    BY <1>3, <2>1, PartIsPlaced DEF Segment
  <2> HIDE DEF t
  <2>5. /\ Inserted(enhanced, t) \in Seq(Segment) /\ Tidy(Inserted(enhanced, t))
        /\ \A i \in DOMAIN Inserted(enhanced, t) :
              \/ Inserted(enhanced, t)[i] = t
              \/ \E j \in DOMAIN enhanced : Inserted(enhanced, t)[i] = enhanced[j]
    BY <1>3, <2>1, <2>2, InsertedTidy DEF t, Segment
  <2>6. enhanced' = Inserted(enhanced, t)
    BY <1>3 DEF t
  <2>7. ASSUME NEW i \in DOMAIN enhanced'
        PROVE  /\ outputCursor <= enhanced'[i].start
               /\ EndSample(enhanced'[i]) <= inputCursor
               /\ Placed(enhanced'[i], Heard(remoteGeneration))
    <3>1. CASE enhanced'[i] = t
      BY <2>1, <2>3, <2>4, <3>1
    <3>2. CASE \E j \in DOMAIN enhanced : enhanced'[i] = enhanced[j]
      BY <3>2 DEF EnhancedInv, EnhancedOK
    <3> QED
      BY <2>5, <2>6, <3>1, <3>2
  <2>8. enabled'
    <3>1. outputCursor < inputCursor
      <4>1. inputCursor \in Nat /\ outputCursor \in Nat /\ EndSample(run) \in Nat
        BY SegmentEnd DEF Segment, EnhancedInv, WindowInv, CursorTypes
      <4> QED
        BY <1>3, <4>1 DEF Beyond
    <3>2. outputCursor # inputCursor
      BY <3>1 DEF EnhancedInv, WindowInv, CursorTypes
    <3> QED
      BY <3>2 DEF EnhancedInv, EnhancedOK
  <2> QED
    BY <2>5, <2>6, <2>7, <2>8 DEF EnhancedOK
<1>4. \/ enhanced' = enhanced
      \/ enhanced' = <<>>
      \/ /\ generation = remoteGeneration /\ EndSample(run) > outputCursor /\ ~Beyond(run)
         /\ enhanced' = Inserted(enhanced, Trimmed(run))
  BY DEF Receive
<1>5. Overlapping(enhanced, Trimmed(run)) # {} => Inserted(enhanced, Trimmed(run)) = enhanced
  BY DEF Inserted
<1> QED
  BY <1>1, <1>2, <1>3, <1>4, <1>5

\* A run of a server within the contract is never in conflict with the buffer.
LEMMA ReceiveTrusted ==
    ASSUME EnhancedInv, ~overrun, NEW run \in Segment, run.data # <<>>,
           run.start = out, EndSample(run) <= sent, Receive(generation, run),
           out' = EndSample(run)
    PROVE  /\ ~mistrusted'
           /\ \A i \in DOMAIN enhanced' : EndSample(enhanced'[i]) <= out'
<1>1. /\ ~mistrusted /\ sent <= inputCursor
      /\ \A i \in DOMAIN enhanced : EndSample(enhanced[i]) <= out
      /\ inputCursor \in Nat /\ out \in Nat /\ sent \in Nat /\ outputCursor \in Nat
  BY DEF EnhancedInv, Trusted, WorkerOK, WindowInv, CursorTypes
<1>2. run.start < EndSample(run) /\ EndSample(run) \in Nat
  BY SegmentEnd DEF Segment
<1>3. \A i \in DOMAIN enhanced : EndSample(enhanced[i]) \in Nat
  <2>1. \A i \in DOMAIN enhanced : enhanced[i] \in Segment
    BY DEF EnhancedInv, EnhancedOK
  <2> QED
    BY <2>1, SegmentEnd DEF Segment
<1>4. \A i \in DOMAIN enhanced : EndSample(enhanced[i]) <= out'
  BY <1>1, <1>2, <1>3
<1>5. ~Beyond(run)
  BY <1>1, <1>2 DEF Beyond
<1>6. CASE enhanced' = enhanced /\ mistrusted' = mistrusted
  BY <1>1, <1>4, <1>6
<1>7. CASE EndSample(run) > outputCursor
  <2> DEFINE t == Trimmed(run)
  <2>1. /\ t \in Segment /\ t.data # <<>> /\ EndSample(t) = EndSample(run)
        /\ out <= t.start
    BY <1>7, TrimmedRun
  <2> HIDE DEF t
  <2>2. t.start \in Nat
    BY <2>1 DEF Segment, Segments
  <2>3. \A i \in DOMAIN enhanced : ~Overlap(t, enhanced[i])
    BY <1>1, <1>3, <2>1, <2>2 DEF Overlap
  <2>4. Overlapping(enhanced, t) = {}
    BY <2>3 DEF Overlapping
  <2>5. ~InsertRaises(enhanced, t)
    BY <2>1, <2>4 DEF InsertRaises
  <2>6. CASE enhanced' = Inserted(enhanced, t) /\ mistrusted' = mistrusted
    <3>1. enhanced \in Seq(Segment) /\ Tidy(enhanced)
      BY DEF EnhancedInv, EnhancedOK
    <3>2. \A i \in DOMAIN enhanced' :
             enhanced'[i] = t \/ \E j \in DOMAIN enhanced : enhanced'[i] = enhanced[j]
      BY <2>1, <2>4, <2>6, <3>1, InsertedTidy DEF Segment
    <3>3. EndSample(t) <= out'
      BY <1>2, <2>1
    <3> QED
      BY <1>1, <1>4, <2>6, <3>2, <3>3
  <2>7. \/ enhanced' = enhanced /\ mistrusted' = mistrusted
        \/ enhanced' = Inserted(enhanced, t) /\ mistrusted' = mistrusted
    BY <1>5, <2>5 DEF Receive, t
  <2> QED
    BY <1>6, <2>6, <2>7
<1>8. CASE ~(EndSample(run) > outputCursor)
  <2>1. enhanced' = enhanced /\ mistrusted' = mistrusted
    BY <1>8 DEF Receive
  <2> QED
    BY <1>6, <2>1
<1> QED
  BY <1>7, <1>8

\* What the steps have in common: an emptied buffer, and one left alone.
LEMMA EmptiedEnhanced ==
    ASSUME enhanced' = <<>>, ~enabled' => outputCursor' = inputCursor'
    PROVE  EnhancedOK'
BY NothingBuffered DEF EnhancedOK

LEMMA StepWorker ==
    ASSUME EnhancedInv, [Next]_vars
    PROVE  WorkerOK'
<1>1. /\ inputCursor \in Nat /\ outputCursor \in Nat /\ size \in Nat
      /\ inputCursor <= LastSample + 1 /\ offered \subseteq 0..(inputCursor - 1)
      /\ Processing => size <= inputCursor
      /\ sent \in Nat /\ out \in Nat
      /\ generation \in 0..LastGeneration /\ remoteGeneration \in 0..LastGeneration
      /\ sent <= inputCursor
  BY DEF EnhancedInv, WindowInv, CursorTypes, WorkerOK
<1>2. ASSUME NEW n \in Sizes, PassThrough(n) \/ Accept(n)
      PROVE  WorkerOK'
  <2>1. n \in Nat /\ inputCursor' = inputCursor + n /\ inputCursor + n <= LastSample + 1
    BY <1>2, ProcessorAssumption DEF PassThrough, Accept, MayProcess
  <2>2. UNCHANGED <<offered, generation, remoteGeneration, sent, out>>
    BY <1>2 DEF PassThrough, Accept, interfaceVars
  <2>3. Processing' => size' <= inputCursor'
    BY <1>1, <1>2, <2>1 DEF PassThrough, Accept, MayProcess, Processing
  <2> QED
    BY <1>1, <2>1, <2>2, <2>3 DEF WorkerOK
<1>3. CASE TrySend
  <2>1. /\ UNCHANGED <<generation, remoteGeneration, sent, out, inputCursor, size>>
        /\ offered' = offered \cup (inputCursor - size)..(inputCursor - size + size - 1)
    BY <1>3 DEF TrySend, Offer
  <2>2. size <= inputCursor
    BY <1>1, <1>3 DEF TrySend, Processing
  <2>3. offered' \subseteq 0..(inputCursor - 1)
    BY <1>1, <2>1, <2>2
  <2> QED
    BY <1>1, <2>1, <2>2, <2>3 DEF WorkerOK
<1>4. CASE SendRefused \/ ReadWindow \/ SetEnabled \/ Close \/ Closed \/ ProtocolError
  <2>1. UNCHANGED <<inputCursor, offered, generation, remoteGeneration, sent, out>>
    BY <1>4 DEF SendRefused, ReadWindow, SetEnabled, Close, Closed, ProtocolError, interfaceVars
  <2>2. Processing' => size' <= inputCursor'
    BY <1>1, <1>4
       DEF SendRefused, ReadWindow, SetEnabled, Close, Closed, ProtocolError, Processing
  <2> QED
    BY <1>1, <2>1, <2>2 DEF WorkerOK
<1>5. ASSUME NEW start \in 0..LastSample, GenerationChanged(start)
      PROVE  WorkerOK'
  <2>1. /\ UNCHANGED <<app, size, inputCursor, offered>>
        /\ start \in offered /\ sent' = start /\ out' = start
        /\ generation' = generation + 1 /\ generation < LastGeneration
        /\ remoteGeneration' = generation'
    BY <1>5 DEF GenerationChanged, Begin
  <2>2. generation' \in 0..LastGeneration
    BY <1>1, <2>1, ProcessorAssumption
  <2>3. start \in Nat /\ start <= inputCursor
    BY <1>1, <2>1
  <2> QED
    BY <1>1, <2>1, <2>2, <2>3 DEF WorkerOK, Processing
<1>6. ASSUME NEW until \in 1..(LastSample + 1), ReceiveAudio(until) \/ ReceiveOverrun(until)
      PROVE  WorkerOK'
  <2>1. UNCHANGED <<app, size, inputCursor, offered, generation, remoteGeneration, sent>>
        /\ out' = until
    BY <1>6 DEF ReceiveAudio, ReceiveOverrun, Deliver, Overrun
  <2> QED
    BY <1>1, <2>1 DEF WorkerOK, Processing
<1>7. CASE WorkerGoesOn
  <2>1. UNCHANGED <<app, size, inputCursor, remoteGeneration>>
    BY <1>7 DEF WorkerGoesOn, processorVars
  <2>2. ASSUME NEW until \in 1..(LastSample + 1), Advance(until)
        PROVE  WorkerOK'
    <3>1. /\ UNCHANGED <<offered, generation, out>> /\ sent' = until
          /\ until > sent /\ sent..(until - 1) \subseteq offered
      BY <2>2 DEF Advance
    <3>2. until \in Nat /\ until - 1 \in sent..(until - 1)
      BY <1>1, <3>1
    <3>3. until <= inputCursor
      BY <1>1, <3>1, <3>2
    <3> QED
      BY <1>1, <2>1, <3>1, <3>2, <3>3 DEF WorkerOK, Processing
  <2>3. CASE EndGeneration \/ CloseWorker
    <3>1. UNCHANGED <<offered, generation, sent>> /\ out' = sent
      BY <2>3 DEF EndGeneration, CloseWorker
    <3> QED
      BY <1>1, <2>1, <3>1 DEF WorkerOK, Processing
  <2> QED
    BY <1>7, <2>2, <2>3 DEF WorkerGoesOn
<1>8. CASE UNCHANGED vars
  BY <1>1, <1>8 DEF vars, processorVars, interfaceVars, WorkerOK, Processing
<1> QED
  BY <1>2, <1>3, <1>4, <1>5, <1>6, <1>7, <1>8 DEF Next

\* Returning a frame cuts off what it covers.
LEMMA ReadWindowEnhanced ==
    ASSUME EnhancedInv, ReadWindow
    PROVE  /\ EnhancedOK'
           /\ \A i \in DOMAIN enhanced' : \E j \in DOMAIN enhanced :
                 EndSample(enhanced'[i]) = EndSample(enhanced[j])
<1>1. /\ enhanced' = Discarded(enhanced, outputCursor') /\ UNCHANGED <<enabled, inputCursor>>
      /\ UNCHANGED remoteGeneration
  BY DEF ReadWindow
<1>2. enabled' /\ outputCursor' \in Nat
  <2>1. enabled
    BY DEF ReadWindow, EnhancedInv, WindowInv, WindowOpen, Processing
  <2>2. OutputSamples \in Nat /\ outputCursor \in Nat
    BY OutputBounds DEF ReadWindow, EnhancedInv, WindowInv, CursorTypes
  <2>3. outputCursor' = outputCursor + OutputSamples
    BY DEF ReadWindow
  <2> QED
    BY <1>1, <2>1, <2>2, <2>3
<1>3. enhanced \in Seq(Segment) /\ Tidy(enhanced)
  BY DEF EnhancedInv, EnhancedOK
<1> DEFINE cut == outputCursor'
           rest == Discarded(enhanced, cut)
<1>4. cut \in Nat /\ enhanced' = rest
  BY <1>1, <1>2
<1> HIDE DEF cut
<1>5. /\ rest \in Seq(Segment) /\ Tidy(rest)
      /\ \A i \in DOMAIN rest :
            /\ cut <= rest[i].start
            /\ \E j \in DOMAIN enhanced : /\ EndSample(rest[i]) = EndSample(enhanced[j])
                                          /\ TakenFrom(rest[i], enhanced[j])
  BY <1>3, <1>4, DiscardedTidy DEF Segment
<1> HIDE DEF rest
<1>6. ASSUME NEW i \in DOMAIN enhanced'
      PROVE  /\ outputCursor' <= enhanced'[i].start
             /\ EndSample(enhanced'[i]) <= inputCursor'
             /\ Placed(enhanced'[i], Heard(remoteGeneration'))
  <2>1. PICK j \in DOMAIN enhanced : /\ EndSample(rest[i]) = EndSample(enhanced[j])
                                     /\ TakenFrom(rest[i], enhanced[j])
    BY <1>4, <1>5
  <2>2. /\ EndSample(enhanced[j]) <= inputCursor
        /\ Placed(enhanced[j], Heard(remoteGeneration))
    BY DEF EnhancedInv, EnhancedOK
  <2>3. Placed(rest[i], Heard(remoteGeneration))
    <3>1. rest[i] \in Segment /\ enhanced[j] \in Segment
      BY <1>3, <1>4, <1>5
    <3> QED
      BY <2>1, <2>2, <3>1, PartIsPlaced DEF Segment
  <2>4. cut <= rest[i].start
    BY <1>4, <1>5
  <2> QED
    BY <1>1, <1>4, <2>1, <2>2, <2>3, <2>4 DEF cut
<1>7. EnhancedOK'
  BY <1>2, <1>4, <1>5, <1>6 DEF EnhancedOK
<1> QED
  BY <1>4, <1>5, <1>7

LEMMA StepEnhanced ==
    ASSUME EnhancedInv, [Next]_vars
    PROVE  EnhancedOK'
<1>1. EnhancedOK /\ inputCursor \in Nat /\ outputCursor \in Nat
  BY DEF EnhancedInv, WindowInv, CursorTypes
<1>2. ASSUME NEW n \in Sizes, PassThrough(n)
      PROVE  EnhancedOK'
  <2>1. /\ enhanced' = enhanced /\ enhanced = <<>>
        /\ outputCursor' = inputCursor'
    BY <1>1, <1>2 DEF PassThrough, EnhancedOK
  <2> QED
    BY <2>1, EmptiedEnhanced
<1>3. ASSUME NEW n \in Sizes, Accept(n)
      PROVE  EnhancedOK'
  <2>1. /\ UNCHANGED <<enhanced, outputCursor, remoteGeneration, enabled>> /\ enabled
        /\ inputCursor' = inputCursor + n /\ n \in Nat
    BY <1>3, ProcessorAssumption DEF Accept
  <2>2. \A i \in DOMAIN enhanced : EndSample(enhanced[i]) <= inputCursor + n
    <3>1. \A i \in DOMAIN enhanced : EndSample(enhanced[i]) \in Nat
      <4>1. \A i \in DOMAIN enhanced : enhanced[i] \in Segment
        BY <1>1 DEF EnhancedOK
      <4> QED
        BY <4>1, SegmentEnd DEF Segment
    <3> QED
      BY <1>1, <2>1, <3>1 DEF EnhancedOK
  <2> QED
    BY <1>1, <2>1, <2>2 DEF EnhancedOK
<1>4. CASE ReadWindow
  BY <1>4, ReadWindowEnhanced
<1>5. CASE SendRefused \/ SetEnabled \/ Closed \/ ProtocolError
  <2>1. enhanced' = <<>>
    BY <1>5 DEF SendRefused, SetEnabled, Closed, ProtocolError
  <2>2. ~enabled' => outputCursor' = inputCursor'
    BY <1>1, <1>5 DEF SendRefused, SetEnabled, Closed, ProtocolError, EnhancedOK
  <2> QED
    BY <2>1, <2>2, EmptiedEnhanced
<1>6. ASSUME NEW start \in 0..LastSample, GenerationChanged(start)
      PROVE  EnhancedOK'
  <2>1. enhanced' = <<>> /\ (~enabled' => outputCursor' = inputCursor')
    BY <1>1, <1>6 DEF GenerationChanged, EnhancedOK
  <2> QED
    BY <2>1, EmptiedEnhanced
<1>7. ASSUME NEW until \in 1..(LastSample + 1), ReceiveAudio(until) \/ ReceiveOverrun(until)
      PROVE  EnhancedOK'
  <2> DEFINE run == Run(out, Samples(out, until - out, generation))
  <2>1. out < until
    BY <1>7 DEF ReceiveAudio, ReceiveOverrun, Deliver, Overrun
  <2>2. /\ run \in Segment /\ run.data # <<>>
        /\ Placed(run, Heard(generation))
    BY <2>1, AnswerRun
  <2>3. /\ Receive(generation, run)
        /\ UNCHANGED <<enabled, inputCursor, outputCursor, remoteGeneration>>
    BY <1>7 DEF ReceiveAudio, ReceiveOverrun
  <2> HIDE DEF run
  <2> QED
    BY <2>2, <2>3, ReceiveEnhanced
<1>8. CASE TrySend \/ Close \/ WorkerGoesOn \/ UNCHANGED vars
  <2>1. UNCHANGED <<enhanced, outputCursor, inputCursor, remoteGeneration, enabled>>
    BY <1>8 DEF TrySend, Close, WorkerGoesOn, vars, processorVars
  <2> QED
    BY <1>1, <2>1 DEF EnhancedOK
<1> QED
  BY <1>2, <1>3, <1>4, <1>5, <1>6, <1>7, <1>8 DEF Next

LEMMA StepTrusted ==
    ASSUME EnhancedInv, [Next]_vars
    PROVE  Trusted'
<1>1. /\ out \in Nat /\ sent \in Nat
      /\ ~overrun => /\ ~mistrusted /\ out <= sent
                     /\ \A i \in DOMAIN enhanced : EndSample(enhanced[i]) <= out
  BY DEF EnhancedInv, WorkerOK, Trusted
<1>2. \A i \in DOMAIN enhanced : EndSample(enhanced[i]) \in Nat
  <2>1. \A i \in DOMAIN enhanced : enhanced[i] \in Segment
    BY DEF EnhancedInv, EnhancedOK
  <2> QED
    BY <2>1, SegmentEnd DEF Segment
<1>3. CASE /\ enhanced' = enhanced \/ enhanced' = <<>>
           /\ UNCHANGED <<out, sent, mistrusted, overrun>>
  BY <1>1, <1>3, NothingBuffered DEF Trusted
<1>4. ASSUME NEW n \in Sizes, PassThrough(n) \/ Accept(n)
      PROVE  Trusted'
  BY <1>3, <1>4 DEF PassThrough, Accept, interfaceVars
<1>5. CASE TrySend \/ SendRefused \/ SetEnabled \/ Close \/ Closed \/ ProtocolError
  BY <1>3, <1>5
     DEF TrySend, Offer, SendRefused, SetEnabled, Close, Closed, ProtocolError, interfaceVars
<1>6. CASE ReadWindow
  <2>1. UNCHANGED <<out, sent, mistrusted, overrun>>
    BY <1>6 DEF ReadWindow, interfaceVars
  <2>2. \A i \in DOMAIN enhanced' : \E j \in DOMAIN enhanced :
           EndSample(enhanced'[i]) = EndSample(enhanced[j])
    BY <1>6, ReadWindowEnhanced
  <2> QED
    BY <1>1, <2>1, <2>2 DEF Trusted
<1>7. ASSUME NEW start \in 0..LastSample, GenerationChanged(start)
      PROVE  Trusted'
  <2>1. /\ enhanced' = <<>> /\ UNCHANGED <<mistrusted, overrun>>
        /\ out' = start /\ sent' = start
    BY <1>7 DEF GenerationChanged, Begin
  <2> QED
    BY <1>1, <2>1, NothingBuffered DEF Trusted
<1>8. ASSUME NEW until \in 1..(LastSample + 1), ReceiveAudio(until)
      PROVE  Trusted'
  <2> DEFINE run == Run(out, Samples(out, until - out, generation))
  <2>1. /\ out < until /\ until <= sent /\ out' = until
        /\ UNCHANGED <<sent, overrun>> /\ Receive(generation, run)
    BY <1>8 DEF ReceiveAudio, Deliver
  <2>2. /\ run \in Segment /\ run.data # <<>> /\ run.start = out /\ EndSample(run) = until
    BY <2>1, AnswerRun
  <2> HIDE DEF run
  <2>3. ASSUME ~overrun
        PROVE  ~mistrusted' /\ \A i \in DOMAIN enhanced' : EndSample(enhanced'[i]) <= out'
    BY <2>1, <2>2, <2>3, ReceiveTrusted
  <2> QED
    BY <2>1, <2>3 DEF Trusted
<1>9. ASSUME NEW until \in 1..(LastSample + 1), ReceiveOverrun(until)
      PROVE  Trusted'
  BY <1>9 DEF ReceiveOverrun, Trusted
<1>10. CASE WorkerGoesOn
  <2>1. UNCHANGED <<enhanced, mistrusted, overrun>>
    BY <1>10 DEF WorkerGoesOn, processorVars
  <2>2. ASSUME NEW until \in 1..(LastSample + 1), Advance(until)
        PROVE  Trusted'
    <3>1. out' = out /\ sent' = until /\ until > sent
      BY <2>2 DEF Advance
    <3>2. ~overrun => out <= until
      BY <1>1, <3>1
    <3> QED
      BY <1>1, <2>1, <3>1, <3>2 DEF Trusted
  <2>3. CASE EndGeneration \/ CloseWorker
    <3>1. out' = sent /\ sent' = sent
      BY <2>3 DEF EndGeneration, CloseWorker
    <3>2. ~overrun => \A i \in DOMAIN enhanced : EndSample(enhanced[i]) <= sent
      BY <1>1, <1>2
    <3> QED
      BY <1>1, <2>1, <3>1, <3>2 DEF Trusted
  <2> QED
    BY <1>10, <2>2, <2>3 DEF WorkerGoesOn
<1>11. CASE UNCHANGED vars
  BY <1>3, <1>11 DEF vars, processorVars, interfaceVars
<1> QED
  BY <1>4, <1>5, <1>6, <1>7, <1>8, <1>9, <1>10, <1>11 DEF Next

-----------------------------------------------------------------------------
(* What is returned. *)

\* The raw timeline holds the input, and the frame returned last the audio of
\* one generation, or of none, up to the output cursor.
OutputOK ==
    /\ Placed(raw, Heard(0))
    /\ output \in Seq(Sample) /\ Len(output) <= outputCursor
    /\ \E g \in 0..LastGeneration :
          \A m \in 1..Len(output) : output[m] = Heard(g)[outputCursor - Len(output) + m - 1]

OutputInv == EnhancedInv /\ OutputOK

\* A frame that holds the audio of a generation at the place of the output.
LEMMA FrameReturned ==
    ASSUME NEW start \in Nat, NEW n \in Nat, NEW g \in 0..LastGeneration,
           output' \in Seq(Sample), Len(output') = n,
           \A m \in 1..n : output'[m] = Heard(g)[start + m - 1],
           outputCursor' = start + n, Placed(raw', Heard(0))
    PROVE  OutputOK'
<1>1. outputCursor' - Len(output') = start /\ Len(output') <= outputCursor'
  OBVIOUS
<1> QED
  BY <1>1 DEF OutputOK

LEMMA NothingReturned ==
    ASSUME output' = <<>>, Placed(raw', Heard(0)), outputCursor' \in Nat
    PROVE  OutputOK'
<1>1. output' \in Seq(Sample) /\ Len(output') = 0 /\ 0 \in 0..LastGeneration
  BY ProcessorAssumption
<1> DEFINE start == outputCursor'
<1>2. start \in Nat /\ outputCursor' = start
  OBVIOUS
<1> HIDE DEF start
<1>3. start = start + 0 /\ 1..0 = {}
  BY <1>2
<1> QED
  BY <1>1, <1>2, <1>3, FrameReturned

LEMMA EmptyPlaced ==
    ASSUME NEW start, NEW audio
    PROVE  Placed(Run(start, <<>>), audio)
BY DEF Placed, Run

LEMMA InitOutput ==
    ASSUME Init
    PROVE  OutputOK
<1>1. raw = Run(0, <<>>) /\ output = <<>> /\ outputCursor = 0
  BY DEF Init
<1>2. output \in Seq(Sample) /\ Len(output) = 0 /\ 1..0 = {} /\ 0 \in 0..LastGeneration
  BY <1>1, ProcessorAssumption
<1> QED
  BY <1>1, <1>2, EmptyPlaced DEF OutputOK

\* The raw timeline as a list of samples in their places.
LEMMA RawInPlace ==
    ASSUME OutputInv
    PROVE  /\ raw.start \in Nat /\ raw.data \in Seq(Sample) /\ Len(raw.data) \in Nat
           /\ EndSample(raw) = raw.start + Len(raw.data)
           /\ \A m \in 1..Len(raw.data) : raw.data[m] = Heard(0)[raw.start + m - 1]
<1>1. raw.start \in Nat /\ raw.data \in Seq(Sample)
  BY DEF OutputInv, EnhancedInv, WindowInv, CursorTypes
<1>2. DOMAIN raw.data = 1..Len(raw.data) /\ Len(raw.data) \in Nat
  BY <1>1
<1> QED
  BY <1>1, <1>2 DEF OutputInv, OutputOK, Placed, EndSample

LEMMA AcceptOutput ==
    ASSUME OutputInv, NEW n \in Sizes, Accept(n)
    PROVE  OutputOK'
<1> DEFINE front == raw.data
           back == Samples(inputCursor, n, 0)
           first == raw.start
<1>1. n \in Nat /\ inputCursor \in Nat /\ outputCursor \in Nat /\ inputCursor + n <= LastSample + 1
  BY ProcessorAssumption DEF OutputInv, EnhancedInv, WindowInv, CursorTypes, Accept, MayProcess
<1>2. /\ first \in Nat /\ front \in Seq(Sample) /\ Len(front) \in Nat
      /\ \A m \in 1..Len(front) : front[m] = Heard(0)[first + m - 1]
  BY RawInPlace
<1>3. first + Len(front) = inputCursor
  BY RawInPlace DEF Accept, OutputInv, EnhancedInv, WindowInv, WindowOpen, MayProcess
<1>4. back \in Seq(Sample) /\ Len(back) = n
  <2>1. 0 \in 0..LastGeneration
    BY ProcessorAssumption
  <2> QED
    BY <1>1, <2>1, SamplesType
<1>5. \A m \in 1..n : back[m] = Heard(0)[inputCursor + m - 1]
  BY <1>1, SamplesHeard
<1>6. raw' = Run(first, front \o back)
  BY DEF Accept, Appended
<1> HIDE DEF front, back, first
<1>7. \A m \in 1..Len(back) : back[m] = Heard(0)[first + Len(front) + m - 1]
  BY <1>3, <1>4, <1>5
<1> DEFINE joined == front \o back
<1>8. joined = front \o back
  OBVIOUS
<1> HIDE DEF joined
<1>9. joined \in Seq(Sample) /\ \A m \in 1..Len(joined) : joined[m] = Heard(0)[first + m - 1]
  BY <1>2, <1>4, <1>7, <1>8, JoinedInPlace
<1>10. raw'.start = first /\ raw'.data = joined
  BY <1>6, <1>8 DEF Run
<1>11. DOMAIN joined = 1..Len(joined)
  BY <1>9
<1>12. Placed(raw', Heard(0))
  BY <1>9, <1>10, <1>11 DEF Placed
<1>13. output' = <<>> /\ outputCursor' \in Nat
  BY <1>1 DEF Accept
<1> QED
  BY <1>12, <1>13, NothingReturned

\* The stretch of the raw timeline that is returned, and the one that is left.
LEMMA RawCut ==
    ASSUME OutputInv, NEW n \in Nat, Readable(raw, outputCursor, n), raw.start = outputCursor,
           NEW found, found = RawRead(raw, outputCursor, n),
           NEW left, left = DiscardBefore(raw, outputCursor + n)
    PROVE  /\ found \in Seq(Sample) /\ Len(found) = n
           /\ \A m \in 1..n : found[m] = Heard(0)[outputCursor + m - 1]
           /\ Placed(left, Heard(0))
<1> DEFINE data == raw.data
           first == raw.start
           len == Len(raw.data)
           rest == SubSeq(data, n + 1, len)
<1>1. /\ first \in Nat /\ data \in Seq(Sample) /\ len \in Nat /\ len = Len(data)
      /\ \A m \in 1..Len(data) : data[m] = Heard(0)[first + m - 1]
      /\ first = outputCursor /\ n <= len
  BY RawInPlace DEF Readable
<1>2. found = SubSeq(data, 1, n)
  <2>1. found = SubSeq(data, outputCursor - first + 1, (outputCursor + n) - first)
    BY DEF RawRead, Slice
  <2>2. outputCursor - first + 1 = 1 /\ (outputCursor + n) - first = n
    BY <1>1
  <2> HIDE DEF data, first
  <2> QED
    BY <2>1, <2>2
<1>3. left = Run(first + n, rest)
  <2> DEFINE cut == outputCursor + n
  <2>1. AtMost(AtLeast(0, cut - first), len) = n
    BY <1>1 DEF AtMost, AtLeast
  <2> HIDE DEF cut
  <2>2. left = DiscardBefore(raw, cut)
    BY DEF cut
  <2> QED
    BY <2>1, <2>2 DEF DiscardBefore
<1>4. rest = SubSeq(data, n + 1, len)
  OBVIOUS
<1> HIDE DEF data, first, rest, len
<1>5. /\ 1 \in Int /\ n \in Int /\ 1 <= 1 /\ 1 <= n + 1 /\ n <= Len(data)
      /\ n - 1 + 1 = n /\ \A m \in 1..n : first + 1 - 1 + m - 1 = first + m - 1
  BY <1>1
<1>6. /\ found \in Seq(Sample) /\ Len(found) = n - 1 + 1
      /\ \A m \in 1..(n - 1 + 1) : found[m] = Heard(0)[first + 1 - 1 + m - 1]
  BY <1>1, <1>2, <1>5, CutInPlace
<1>7. /\ found \in Seq(Sample) /\ Len(found) = n
      /\ \A m \in 1..n : found[m] = Heard(0)[first + m - 1]
  BY <1>5, <1>6
<1>8. /\ n + 1 \in Int /\ len \in Int /\ 1 <= n + 1 /\ n + 1 <= len + 1 /\ len <= Len(data)
  BY <1>1
<1>9. /\ rest \in Seq(Sample) /\ Len(rest) = len - (n + 1) + 1
      /\ \A m \in 1..(len - (n + 1) + 1) : rest[m] = Heard(0)[first + (n + 1) - 1 + m - 1]
  BY <1>1, <1>4, <1>8, CutInPlace
<1>10. left.start = first + n /\ left.data = rest
  BY <1>3 DEF Run
<1>11. DOMAIN rest = 1..(len - (n + 1) + 1)
  BY <1>9
<1>12. \A m \in 1..(len - (n + 1) + 1) : first + (n + 1) - 1 + m - 1 = left.start + m - 1
  BY <1>1, <1>10
<1>13. Placed(left, Heard(0))
  BY <1>9, <1>10, <1>11, <1>12 DEF Placed
<1> QED
  BY <1>1, <1>7, <1>13

LEMMA ReadWindowOutput ==
    ASSUME OutputInv, ReadWindow
    PROVE  OutputOK'
<1> DEFINE n == OutputSamples
           found == IF n = 0 THEN <<>> ELSE Read(enhanced, outputCursor, n)
<1>1. n \in Nat /\ outputCursor \in Nat /\ outputCursor + n <= inputCursor
  BY OutputBounds DEF ReadWindow, OutputInv, EnhancedInv, WindowInv, CursorTypes
<1>2. /\ outputCursor' = outputCursor + n
      /\ raw' = DiscardBefore(raw, outputCursor')
      /\ output' = IF found = None THEN RawRead(raw, outputCursor, n) ELSE found
  BY DEF ReadWindow
<1>3. raw.start = outputCursor /\ EndSample(raw) = inputCursor
  BY DEF ReadWindow, OutputInv, EnhancedInv, WindowInv, WindowOpen, Processing
<1>4. Readable(raw, outputCursor, n)
  BY <1>1, <1>3 DEF Readable
<1>5. /\ enhanced \in Seq(Segment) /\ remoteGeneration \in 0..LastGeneration
      /\ \A i \in DOMAIN enhanced : Placed(enhanced[i], Heard(remoteGeneration))
      /\ 0 \in 0..LastGeneration
  BY ProcessorAssumption DEF OutputInv, EnhancedInv, EnhancedOK, WorkerOK
<1>6. ASSUME NEW frame, frame = RawRead(raw, outputCursor, n)
      PROVE  /\ frame \in Seq(Sample) /\ Len(frame) = n
             /\ \A m \in 1..n : frame[m] = Heard(0)[outputCursor + m - 1]
             /\ Placed(raw', Heard(0))
  <2>1. raw' = DiscardBefore(raw, outputCursor + n)
    BY <1>2
  <2> HIDE DEF n
  <2> QED
    BY <1>1, <1>3, <1>4, <1>6, <2>1, RawCut
<1> HIDE DEF n
<1>7. Placed(raw', Heard(0))
  BY <1>6
<1>8. CASE found = None
  <2>1. output' = RawRead(raw, outputCursor, n)
    BY <1>2, <1>8
  <2>2. /\ output' \in Seq(Sample) /\ Len(output') = n
        /\ \A m \in 1..n : output'[m] = Heard(0)[outputCursor + m - 1]
    BY <1>6, <2>1
  <2> QED
    BY <1>1, <1>2, <1>5, <1>7, <2>2, FrameReturned
<1>9. CASE found # None /\ n # 0
  <2>1. output' = found /\ found = Read(enhanced, outputCursor, n) /\ n \in Nat \ {0}
    BY <1>1, <1>2, <1>9
  <2> HIDE DEF found
  <2>2. /\ found \in Seq(Sample) /\ Len(found) = n
        /\ \A m \in 1..n : found[m] = Heard(remoteGeneration)[outputCursor + m - 1]
    <3> DEFINE audio == Heard(remoteGeneration)
               start == outputCursor
    <3>1. PICK last : last = LastSeen(enhanced, start, n)
      OBVIOUS
    <3>2. last.state = "complete" /\ found = last.output
      BY <1>9, <2>1, <3>1 DEF Read, LastSeen
    <3>3. /\ enhanced \in Seq(Segments(Sample))
          /\ EachPlaced(enhanced, audio)
          /\ start \in Nat /\ n \in Nat \ {0}
          /\ last = LastSeen(enhanced, start, n) /\ last.state = "complete"
      BY <1>1, <1>5, <2>1, <3>1, <3>2 DEF Segment, EachPlaced
    <3> HIDE DEF audio, start
    <3>4. /\ last.output \in Seq(Sample) /\ Len(last.output) = n
          /\ \A m \in 1..n : last.output[m] = audio[start + m - 1]
      BY <3>3, CompleteInPlace
    <3> QED
      BY <3>2, <3>4, Zenon DEF audio, start
  <2> QED
    BY <1>1, <1>2, <1>5, <1>7, <2>1, <2>2, FrameReturned
<1>10. CASE found # None /\ n = 0
  <2>1. output' = <<>> /\ outputCursor' \in Nat
    BY <1>1, <1>2, <1>10
  <2> QED
    BY <1>7, <2>1, NothingReturned
<1> QED
  BY <1>8, <1>9, <1>10

LEMMA StepOutput ==
    ASSUME OutputInv, [Next]_vars
    PROVE  OutputOK'
<1>1. /\ EnhancedInv /\ Placed(raw, Heard(0)) /\ inputCursor \in Nat /\ outputCursor \in Nat
  BY DEF OutputInv, OutputOK, EnhancedInv, WindowInv, CursorTypes
<1>2. CASE UNCHANGED <<raw, output, outputCursor>>
  BY <1>2 DEF OutputInv, OutputOK
<1>3. ASSUME NEW n \in Sizes, PassThrough(n)
      PROVE  OutputOK'
  <2>1. /\ n \in Nat /\ inputCursor + n <= LastSample + 1 /\ 0 \in 0..LastGeneration
        /\ output' = Samples(inputCursor, n, 0) /\ outputCursor' = inputCursor + n /\ raw' = raw
    BY <1>3, ProcessorAssumption DEF PassThrough, MayProcess
  <2>2. output' \in Seq(Sample) /\ Len(output') = n
    BY <1>1, <2>1, SamplesType
  <2>3. \A m \in 1..n : output'[m] = Heard(0)[inputCursor + m - 1]
    BY <1>1, <2>1, SamplesHeard
  <2> QED
    BY <1>1, <2>1, <2>2, <2>3, FrameReturned
<1>4. ASSUME NEW n \in Sizes, Accept(n)
      PROVE  OutputOK'
  BY <1>4, AcceptOutput
<1>5. CASE ReadWindow
  BY <1>5, ReadWindowOutput
<1>6. CASE SetEnabled
  <2>1. output' = <<>> /\ raw' = Run(inputCursor, <<>>) /\ outputCursor' \in Nat
    BY <1>1, <1>6 DEF SetEnabled
  <2> QED
    BY <2>1, EmptyPlaced, NothingReturned
<1>7. CASE Close
  <2>1. output' = <<>> /\ raw' = raw /\ outputCursor' \in Nat
    BY <1>1, <1>7 DEF Close
  <2> QED
    BY <1>1, <2>1, NothingReturned
<1>8. CASE Closed
  <2>1. raw' = Run(inputCursor, <<>>) /\ UNCHANGED <<output, outputCursor>>
    BY <1>8 DEF Closed
  <2>2. Placed(raw', Heard(0))
    BY <2>1, EmptyPlaced
  <2> QED
    BY <2>1, <2>2 DEF OutputInv, OutputOK
<1>9. CASE TrySend \/ SendRefused
  BY <1>2, <1>9 DEF TrySend, SendRefused
<1>10. ASSUME NEW start \in 0..LastSample, GenerationChanged(start)
       PROVE  OutputOK'
  BY <1>2, <1>10 DEF GenerationChanged
<1>11. ASSUME NEW until \in 1..(LastSample + 1), ReceiveAudio(until) \/ ReceiveOverrun(until)
       PROVE  OutputOK'
  BY <1>2, <1>11 DEF ReceiveAudio, ReceiveOverrun
<1>12. CASE ProtocolError \/ WorkerGoesOn \/ UNCHANGED vars
  BY <1>2, <1>12 DEF ProtocolError, WorkerGoesOn, vars, processorVars
<1> QED
  BY <1>3, <1>4, <1>5, <1>6, <1>7, <1>8, <1>9, <1>10, <1>11, <1>12 DEF Next

-----------------------------------------------------------------------------
(* The theorems. *)

\* Whatever the worker does, between two calls the raw timeline of an enabled
\* processor is exactly the audio not yet returned, and at most Lag long
\* (RemoteFastEnhancer._process, the setter of enabled, and the callbacks).
THEOREM RawWindowIsExact == Spec => []RawIsTheWindow
<1>1. WindowInv => RawIsTheWindow
  BY LagType DEF WindowInv, WindowOpen, Processing, RawIsTheWindow
<1> QED
  BY <1>1, InitWindow, StepWindow, PTL DEF Spec

\* Neither the append at the start of _process nor the raw read at its end
\* raises: the fallback to raw audio is always there.
THEOREM RawFallbackNeverRaises == Spec => []NeverRaises
<1>1. WindowInv => NeverRaises
  <2>1. ASSUME WindowInv, app = "reading"
        PROVE  Readable(raw, outputCursor, OutputSamples)
    BY <2>1, OutputBounds DEF WindowInv, CursorTypes, WindowOpen, Processing, Readable
  <2> QED
    BY <2>1 DEF WindowInv, WindowOpen, NeverRaises, Appendable
<1> QED
  BY <1>1, InitWindow, StepWindow, PTL DEF Spec

LEMMA StepEnhancedInv ==
    ASSUME EnhancedInv, [Next]_vars
    PROVE  EnhancedInv'
<1>1. WindowInv'
  BY StepWindow DEF EnhancedInv
<1> QED
  BY <1>1, StepEnhanced, StepWorker, StepTrusted DEF EnhancedInv

\* What is buffered of the enhanced audio always lies within the window that is
\* yet to be returned, sorted, without overlap, and comes from the generation
\* that is current: a frame that is read from it cannot be of a wrong position,
\* whatever the server sends (_receive_audio, on_generation and _process).
THEOREM EnhancedStaysInWindow == Spec => []EnhancedInWindow
<1>1. ASSUME EnhancedInv
      PROVE  EnhancedInWindow
  <2>1. ASSUME NEW i \in DOMAIN enhanced, NEW m \in DOMAIN enhanced[i].data
        PROVE  enhanced[i].data[m].from = remoteGeneration
    <3>1. enhanced[i] \in Segment /\ Placed(enhanced[i], Heard(remoteGeneration))
      BY <1>1 DEF EnhancedInv, EnhancedOK
    <3> DEFINE p == enhanced[i].start + m - 1
    <3>2. p \in Nat
      <4>1. enhanced[i].start \in Nat /\ DOMAIN enhanced[i].data = 1..Len(enhanced[i].data)
        BY <3>1, SegmentEnd DEF Segment
      <4> QED
        BY <4>1
    <3>3. enhanced[i].data[m] = Heard(remoteGeneration)[p]
      BY <3>1 DEF Placed
    <3> HIDE DEF p
    <3> QED
      BY <3>2, <3>3 DEF Heard
  <2> QED
    BY <1>1, <2>1 DEF EnhancedInv, EnhancedOK, Tidy, EnhancedInWindow
<1> QED
  BY <1>1, InitEnhanced, StepEnhancedInv, PTL DEF Spec

\* A server that answers only what it was sent never makes the processor reset
\* the connection: its runs never conflict with what is buffered and never lie
\* beyond the input (the two ValueErrors of _receive_audio), however frames are
\* refused, generations end and the processor is switched off and on meanwhile.
THEOREM NoFalseAlarm == Spec => []NoFalseMistrust
<1>1. EnhancedInv => NoFalseMistrust
  BY DEF EnhancedInv, Trusted, NoFalseMistrust
<1> QED
  BY <1>1, InitEnhanced, StepEnhancedInv, PTL DEF Spec

\* Every frame that _process returns holds the samples of the interval that
\* ends at the output cursor, each at its position, and all of them raw or all
\* of one generation, wherever the window, the buffer and the generations are
\* when the frame is read (the last lock section of _process).
THEOREM OutputIsAligned == Spec => []OutputAligned
<1>1. ASSUME OutputInv
      PROVE  OutputAligned
  <2>1. /\ output \in Seq(Sample) /\ Len(output) \in Nat /\ outputCursor \in Nat
        /\ Len(output) <= outputCursor /\ DOMAIN output = 1..Len(output)
    BY <1>1 DEF OutputInv, OutputOK, EnhancedInv, WindowInv, CursorTypes
  <2>2. PICK g \in 0..LastGeneration :
           \A m \in 1..Len(output) : output[m] = Heard(g)[outputCursor - Len(output) + m - 1]
    BY <1>1 DEF OutputInv, OutputOK
  <2>3. ASSUME NEW m \in 1..Len(output)
        PROVE  /\ output[m].position = outputCursor - Len(output) + m - 1
               /\ output[m].from = g
    <3> DEFINE p == outputCursor - Len(output) + m - 1
    <3>1. p \in Nat
      BY <2>1
    <3>2. output[m] = Heard(g)[p]
      BY <2>2
    <3> HIDE DEF p
    <3>3. output[m].position = p /\ output[m].from = g
      BY <3>1, <3>2 DEF Heard
    <3> QED
      BY <3>3 DEF p
  <2>4. \A m \in 1..Len(output) : 1 \in 1..Len(output)
    BY <2>1
  <2> QED
    BY <2>1, <2>3, <2>4 DEF OutputAligned
<1>2. Init => OutputInv
  BY InitEnhanced, InitOutput DEF OutputInv
<1>3. OutputInv /\ [Next]_vars => OutputInv'
  BY StepEnhancedInv, StepOutput DEF OutputInv
<1> QED
  BY <1>1, <1>2, <1>3, PTL DEF Spec

=============================================================================
