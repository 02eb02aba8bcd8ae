--------------------------- MODULE SequentialProofs ---------------------------
(* Proofs about the sequential parts: the single-stream pipeline, for every set *)
(* of streams, hop size and amount of audio, the plugin's buffer of enhanced    *)
(* segments, for every number of positions and versions of audio, the rechunker,*)
(* for every size of chunks, hops and limit, the batching of caches, for every  *)
(* set of streams and shape of caches, and the PCM conversions, for every even  *)
(* base and number of levels.                                                   *)
EXTENDS MCSequential, TimelineProofs

\* What the caches hold is the pending hop, or nothing before the first hop.
CachesHoldPending ==
    \A s \in Streams : ~closed[s] =>
        /\ pending[s] = Nothing => caches[s] = Nothing
        /\ pending[s] # Nothing => caches[s] = [stream |-> s, start |-> pending[s].start]

Inv == TypeOK /\ CachesHoldPending /\ DelayCompensated

\* A position and a length make a source hop.
LEMMA PushedHopType ==
    ASSUME TypeOK, NEW s \in Streams, NEW valid \in 1..HopSamples
    PROVE  [start |-> NextStart(s), valid |-> valid] \in SourceHop
BY PipelineAssumption DEF TypeOK, SourceHop, NextStart

\* Returning the pending hop with the content of the caches keeps types, and
\* what is returned was computed from that hop.
LEMMA ReturnInv ==
    ASSUME Inv, NEW s \in Streams, ~closed[s], Return(s)
    PROVE  /\ produced' \in [Streams -> Seq(EnhancedHop)]
           /\ DelayCompensated'
<1>1. CASE pending[s] = Nothing
  BY <1>1 DEF Inv, TypeOK, Return, DelayCompensated
<1>2. CASE pending[s] # Nothing
  <2> DEFINE hop == [start |-> pending[s].start, valid |-> pending[s].valid, heard |-> caches[s]]
  <2>1. pending[s] \in SourceHop
    BY <1>2 DEF Inv, TypeOK
  <2>2. /\ hop \in EnhancedHop
        /\ hop.heard = [stream |-> s, start |-> hop.start]
    BY <1>2, <2>1 DEF Inv, TypeOK, CachesHoldPending, SourceHop, EnhancedHop
  <2>3. produced' = [produced EXCEPT ![s] = Append(@, hop)]
    BY <1>2 DEF Return
  <2> HIDE DEF hop
  <2>4. produced \in [Streams -> Seq(EnhancedHop)]
    BY DEF Inv, TypeOK
  <2>5. produced' \in [Streams -> Seq(EnhancedHop)]
    BY <2>2, <2>3, <2>4
  <2>6. ASSUME NEW t \in Streams, NEW i \in DOMAIN produced'[t]
        PROVE  produced'[t][i].heard = [stream |-> t, start |-> produced'[t][i].start]
    <3>1. CASE t # s
      BY <2>3, <2>4, <2>6, <3>1 DEF Inv, DelayCompensated
    <3>2. CASE t = s /\ i \in DOMAIN produced[s]
      <4>1. produced'[t][i] = produced[s][i]
        BY <2>2, <2>3, <2>4, <3>2
      <4> QED
        BY <4>1, <3>2 DEF Inv, DelayCompensated
    <3>3. CASE t = s /\ i \notin DOMAIN produced[s]
      <4>1. produced'[t][i] = hop
        BY <2>2, <2>3, <2>4, <2>6, <3>3
      <4> QED
        BY <2>2, <3>3, <4>1
    <3> QED
      BY <3>1, <3>2, <3>3
  <2> QED
    BY <2>5, <2>6 DEF DelayCompensated
<1> QED
  BY <1>1, <1>2

LEMMA InitInv == Init => Inv
BY DEF Init, Inv, TypeOK, CachesHoldPending, DelayCompensated, CacheContent

LEMMA NextInv == Inv /\ [Next]_vars => Inv'
<1> SUFFICES ASSUME Inv, [Next]_vars PROVE Inv'
  OBVIOUS
<1>1. ASSUME NEW s \in Streams, NEW valid \in 1..HopSamples,
             Push(s, [start |-> NextStart(s), valid |-> valid])
      PROVE  Inv'
  <2> DEFINE hop == [start |-> NextStart(s), valid |-> valid]
  <2>1. hop \in SourceHop
    BY PushedHopType DEF Inv
  <2>2. produced' \in [Streams -> Seq(EnhancedHop)] /\ DelayCompensated'
    BY <1>1, ReturnInv DEF Push
  <2>3. /\ pending' = [pending EXCEPT ![s] = hop]
        /\ caches' = [caches EXCEPT ![s] = [stream |-> s, start |-> hop.start]]
        /\ closed' = closed
    BY <1>1 DEF Push, Absorb
  <2> HIDE DEF hop
  <2>4. [stream |-> s, start |-> hop.start] \in CacheContent
    BY <2>1 DEF SourceHop, CacheContent
  <2>5. TypeOK'
    BY <2>1, <2>2, <2>3, <2>4 DEF Inv, TypeOK
  <2>6. ~closed[s]
    BY <1>1 DEF Push
  <2>7. CachesHoldPending'
    BY <2>1, <2>3, NothingIsNoHop DEF Inv, TypeOK, CachesHoldPending
  <2> QED
    BY <2>2, <2>5, <2>7 DEF Inv
<1>2. ASSUME NEW s \in Streams, Flush(s) PROVE Inv'
  <2>1. produced' \in [Streams -> Seq(EnhancedHop)] /\ DelayCompensated'
    BY <1>2, ReturnInv DEF Flush
  <2>2. TypeOK' /\ CachesHoldPending'
    BY <1>2, <2>1 DEF Flush, Absorb, Inv, TypeOK, CachesHoldPending, CacheContent
  <2> QED
    BY <2>1, <2>2 DEF Inv
<1>3. ASSUME NEW s \in Streams, Abandon(s) PROVE Inv'
  BY <1>3 DEF Abandon, Absorb, Inv, TypeOK, CachesHoldPending, CacheContent, DelayCompensated
<1>4. CASE UNCHANGED vars
  BY <1>4 DEF vars, Inv, TypeOK, CachesHoldPending, DelayCompensated
<1> QED
  BY <1>1, <1>2, <1>3, <1>4 DEF Next

\* Values keep their types (pipeline.py).
THEOREM PipelineTypeCorrect == Spec => []TypeOK
<1>1. Inv => TypeOK
  BY DEF Inv
<1> QED
  BY InitInv, NextInv, <1>1, PTL DEF Spec

\* The delay of the model is compensated for every stream (pipeline.py: push
\* and flush return the hop before the one absorbed).
THEOREM PipelineDelayCompensated == Spec => []DelayCompensated
<1>1. Inv => DelayCompensated
  BY DEF Inv
<1> QED
  BY InitInv, NextInv, <1>1, PTL DEF Spec

-----------------------------------------------------------------------------
(* What is returned tiles the source.  An open pipeline without a pending hop *)
(* has returned nothing: only a first push, or the end, finds none.           *)

FirstIsPending ==
    \A s \in Streams : ~closed[s] /\ pending[s] = Nothing => produced[s] = <<>>

TilingInv == TypeOK /\ FirstIsPending /\ ProducedContiguous

\* Hops whose sequence is continued by one more.
Consecutive(out) ==
    \A i \in DOMAIN out : out[i].start = IF i = 1 THEN 0 ELSE EndOf(out[i - 1])
After(out) == IF out = <<>> THEN 0 ELSE EndOf(out[Len(out)])

LEMMA ConsecutiveAppend ==
    ASSUME NEW out \in Seq(EnhancedHop), NEW hop \in EnhancedHop,
           Consecutive(out), hop.start = After(out)
    PROVE  Consecutive(Append(out, hop)) /\ After(Append(out, hop)) = EndOf(hop)
<1> DEFINE n == Len(out)
           longer == Append(out, hop)
<1>1. /\ n \in Nat /\ longer \in Seq(EnhancedHop) /\ Len(longer) = n + 1
      /\ DOMAIN out = 1..n /\ DOMAIN longer = 1..(n + 1)
      /\ longer[n + 1] = hop /\ \A i \in 1..n : longer[i] = out[i]
  OBVIOUS
<1>2. out = <<>> <=> n = 0
  BY <1>1
<1>3. longer # <<>>
  BY <1>1
<1> HIDE DEF n, longer
<1>4. After(longer) = EndOf(hop)
  BY <1>1, <1>3 DEF After
<1>5. ASSUME NEW i \in DOMAIN longer
      PROVE  longer[i].start = IF i = 1 THEN 0 ELSE EndOf(longer[i - 1])
  <2>1. CASE i \in 1..n
    <3>1. i # 1 => i - 1 \in 1..n
      BY <1>1, <2>1
    <3> QED
      BY <1>1, <2>1, <3>1 DEF Consecutive
  <2>2. CASE i = n + 1
    <3>1. n # 0 => n \in 1..n /\ i - 1 = n /\ i # 1
      BY <1>1, <2>2
    <3>2. n = 0 => i = 1
      BY <2>2
    <3> QED
      BY <1>1, <1>2, <2>2, <3>1, <3>2 DEF After, n
  <2> QED
    BY <1>1, <1>5, <2>1, <2>2
<1> QED
  BY <1>4, <1>5 DEF Consecutive, longer

\* Returning the pending hop moves the end of what was returned to its end.
LEMMA ReturnTiles ==
    ASSUME TilingInv, NEW s \in Streams, ~closed[s], Return(s)
    PROVE  /\ Consecutive(produced'[s])
           /\ After(produced'[s]) = NextStart(s)
           /\ \A t \in Streams \ {s} : produced'[t] = produced[t]
<1>1. produced \in [Streams -> Seq(EnhancedHop)] /\ Consecutive(produced[s])
  BY DEF TilingInv, TypeOK, ProducedContiguous, Consecutive
<1>2. CASE pending[s] = Nothing
  <2>1. produced[s] = <<>> /\ UNCHANGED produced
    BY <1>2 DEF TilingInv, FirstIsPending, Return
  <2> QED
    BY <1>1, <1>2, <2>1 DEF After, NextStart
<1>3. CASE pending[s] # Nothing
  <2> DEFINE hop == [start |-> pending[s].start, valid |-> pending[s].valid, heard |-> caches[s]]
  <2>1. pending[s] \in SourceHop /\ caches[s] \in CacheContent
    BY <1>3 DEF TilingInv, TypeOK
  <2>2. hop \in EnhancedHop /\ hop.start = pending[s].start /\ EndOf(hop) = NextStart(s)
    BY <1>3, <2>1 DEF SourceHop, EnhancedHop, EndOf, NextStart
  <2>3. produced' = [produced EXCEPT ![s] = Append(@, hop)]
    BY <1>3 DEF Return
  <2> HIDE DEF hop
  <2>4. hop.start = After(produced[s])
    BY <1>3, <2>2 DEF TilingInv, ProducedContiguous, After
  <2>5. produced'[s] = Append(produced[s], hop)
    BY <1>1, <2>3
  <2> QED
    BY <1>1, <2>2, <2>3, <2>4, <2>5, ConsecutiveAppend
<1> QED
  BY <1>2, <1>3

LEMMA NextTiles ==
    ASSUME Inv, TilingInv, [Next]_vars
    PROVE  TilingInv'
<1>1. TypeOK'
  BY NextInv DEF Inv
<1>2. pending \in [Streams -> SourceHop \cup {Nothing}] /\ closed \in [Streams -> BOOLEAN]
  BY DEF TilingInv, TypeOK
<1>3. ASSUME NEW s \in Streams, ~closed[s], Return(s),
             \/ closed'[s] /\ pending' = [pending EXCEPT ![s] = Nothing]
             \/ \E hop \in SourceHop : /\ pending' = [pending EXCEPT ![s] = hop]
                                       /\ hop.start = NextStart(s),
             \A t \in Streams \ {s} : closed'[t] = closed[t]
      PROVE  TilingInv'
  <2>1. /\ Consecutive(produced'[s])
        /\ After(produced'[s]) = NextStart(s)
        /\ \A t \in Streams \ {s} : produced'[t] = produced[t] /\ pending'[t] = pending[t]
    BY <1>2, <1>3, ReturnTiles
  <2>2. pending'[s] # Nothing => pending'[s].start = NextStart(s)
    BY <1>2, <1>3
  <2>3. ProducedContiguous'
    BY <2>1, <2>2 DEF TilingInv, ProducedContiguous, Consecutive, After
  <2>4. closed'[s] \/ pending'[s] # Nothing
    BY <1>2, <1>3, NothingIsNoHop
  <2>5. FirstIsPending'
    BY <1>3, <2>1, <2>4 DEF TilingInv, FirstIsPending
  <2> QED
    BY <1>1, <2>3, <2>5 DEF TilingInv
<1>4. ASSUME NEW s \in Streams, NEW valid \in 1..HopSamples,
             Push(s, [start |-> NextStart(s), valid |-> valid])
      PROVE  TilingInv'
  <2> DEFINE hop == [start |-> NextStart(s), valid |-> valid]
  <2>1. hop \in SourceHop /\ hop.start = NextStart(s)
    BY PushedHopType DEF Inv
  <2>2. /\ ~closed[s] /\ Return(s) /\ UNCHANGED closed
        /\ pending' = [pending EXCEPT ![s] = hop]
    BY <1>4 DEF Push
  <2> HIDE DEF hop
  <2> QED
    BY <1>3, <2>1, <2>2
<1>5. ASSUME NEW s \in Streams, Flush(s) PROVE TilingInv'
  <2>1. /\ ~closed[s] /\ Return(s) /\ closed'[s]
        /\ pending' = [pending EXCEPT ![s] = Nothing]
        /\ \A t \in Streams \ {s} : closed'[t] = closed[t]
    BY <1>2, <1>5 DEF Flush
  <2> QED
    BY <1>3, <2>1
<1>6. ASSUME NEW s \in Streams, Abandon(s) PROVE TilingInv'
  BY <1>1, <1>2, <1>6 DEF Abandon, TilingInv, FirstIsPending, ProducedContiguous
<1>7. CASE UNCHANGED vars
  BY <1>1, <1>7 DEF vars, TilingInv, FirstIsPending, ProducedContiguous
<1> QED
  BY <1>4, <1>5, <1>6, <1>7 DEF Next

\* The hops returned tile the source from its first sample, and the pending hop
\* comes next (pipeline.py: the positions push and flush return).
THEOREM PipelineTilesSource == Spec => []ProducedContiguous
<1>1. Init => TilingInv
  BY InitInv DEF Init, Inv, TilingInv, FirstIsPending, ProducedContiguous
<1>2. Inv /\ TilingInv /\ [Next]_vars => Inv' /\ TilingInv'
  BY NextInv, NextTiles
<1>3. TilingInv => ProducedContiguous
  BY DEF TilingInv
<1> QED
  BY InitInv, <1>1, <1>2, <1>3, PTL DEF Spec

-----------------------------------------------------------------------------
(* The buffer of enhanced segments, as a function of a list of runs. *)

Content(runs) ==
    [p \in CoveredBy(runs) |->
        LET i == CHOOSE i \in DOMAIN runs : p \in Positions(runs[i])
        IN  Slice(runs[i], p, p + 1)[1]]

LEMMA SliceOfOne ==
    ASSUME NEW Values, NEW run \in Segments(Values), NEW p \in Positions(run)
    PROVE  /\ p \in Int /\ p - run.start + 1 \in DOMAIN run.data
           /\ Slice(run, p, p + 1)[1] = run.data[p - run.start + 1]
           /\ run.data[p - run.start + 1] \in Values
<1> DEFINE m == p - run.start + 1
           data == run.data
<1>1. /\ run.start \in Nat /\ data \in Seq(Values) /\ Len(data) \in Nat
      /\ EndSample(run) = run.start + Len(data)
  BY SegmentEnd
<1>2. p \in Int /\ m \in 1..Len(data) /\ (p + 1) - run.start = m
  BY <1>1 DEF Positions
<1>3. Slice(run, p, p + 1) = SubSeq(data, m, m)
  BY <1>2 DEF Slice
<1> HIDE DEF m, data
<1>4. SubSeq(data, m, m)[1] = data[m] /\ data[m] \in Values /\ m \in DOMAIN data
  BY <1>1, <1>2
<1> QED
  BY <1>2, <1>3, <1>4 DEF m, data

\* In a tidy list each position belongs to one run.
LEMMA OneRunEach ==
    ASSUME NEW Values, NEW runs \in Seq(Segments(Values)), Tidy(runs),
           NEW i \in DOMAIN runs, NEW j \in DOMAIN runs,
           NEW p \in Positions(runs[i]), p \in Positions(runs[j])
    PROVE  i = j
<1>1. /\ i \in Int /\ j \in Int
      /\ runs[i].start \in Nat /\ EndSample(runs[i]) \in Nat
      /\ runs[j].start \in Nat /\ EndSample(runs[j]) \in Nat
  BY SegmentEnd
<1>2. /\ p \in Int /\ runs[i].start <= p /\ p < EndSample(runs[i])
      /\ runs[j].start <= p /\ p < EndSample(runs[j])
  BY <1>1 DEF Positions
<1>3. CASE i < j
  <2>1. EndSample(runs[i]) <= runs[j].start
    BY <1>3 DEF Tidy
  <2> QED
    BY <1>1, <1>2, <2>1
<1>4. CASE j < i
  <2>1. EndSample(runs[j]) <= runs[i].start
    BY <1>4 DEF Tidy
  <2> QED
    BY <1>1, <1>2, <2>1
<1> QED
  BY <1>1, <1>3, <1>4

\* The content of a tidy list at a position is the sample its run has there.
LEMMA ContentAt ==
    ASSUME NEW Values, NEW runs \in Seq(Segments(Values)), Tidy(runs),
           NEW i \in DOMAIN runs, NEW p \in Positions(runs[i])
    PROVE  /\ p \in CoveredBy(runs)
           /\ p - runs[i].start + 1 \in DOMAIN runs[i].data
           /\ Content(runs)[p] = runs[i].data[p - runs[i].start + 1]
           /\ Content(runs)[p] \in Values
<1>1. p \in CoveredBy(runs)
  BY Covers
<1> DEFINE j == CHOOSE j \in DOMAIN runs : p \in Positions(runs[j])
<1>2. j \in DOMAIN runs /\ p \in Positions(runs[j])
  OBVIOUS
<1>3. Content(runs)[p] = Slice(runs[j], p, p + 1)[1]
  BY <1>1 DEF Content
<1> HIDE DEF j
<1>4. j = i
  BY <1>2, OneRunEach
<1>5. runs[i] \in Segments(Values)
  OBVIOUS
<1> QED
  BY <1>1, <1>3, <1>4, <1>5, SliceOfOne

\* Insertion where nothing overlaps adds the positions of the run to those that
\* are there, and leaves what is there as it is.
LEMMA InsertedContent ==
    ASSUME NEW Values, NEW runs \in Seq(Segments(Values)), Tidy(runs),
           NEW run \in Segments(Values), run.data # <<>>, Overlapping(runs, run) = {}
    PROVE  LET longer == Inserted(runs, run)
           IN  /\ CoveredBy(longer) = CoveredBy(runs) \cup Positions(run)
               /\ CoveredBy(runs) \cap Positions(run) = {}
               /\ \A p \in CoveredBy(runs) : Content(longer)[p] = Content(runs)[p]
               /\ \A p \in Positions(run) : Content(longer)[p] \in Values
<1> DEFINE longer == Inserted(runs, run)
<1>1. /\ longer \in Seq(Segments(Values)) /\ Tidy(longer)
      /\ \A i \in DOMAIN longer : longer[i] = run \/ \E j \in DOMAIN runs : longer[i] = runs[j]
      /\ \E i \in DOMAIN longer : longer[i] = run
      /\ \A j \in DOMAIN runs : \E i \in DOMAIN longer : longer[i] = runs[j]
  BY InsertedTidy
<1> HIDE DEF longer
<1>2. CoveredBy(longer) = CoveredBy(runs) \cup Positions(run)
  <2>1. ASSUME NEW p \in CoveredBy(longer) PROVE p \in CoveredBy(runs) \cup Positions(run)
    BY <1>1, Covers
  <2>2. ASSUME NEW p \in CoveredBy(runs) PROVE p \in CoveredBy(longer)
    BY <1>1, Covers
  <2>3. ASSUME NEW p \in Positions(run) PROVE p \in CoveredBy(longer)
    BY <1>1, Covers
  <2> QED
    BY <2>1, <2>2, <2>3
<1>3. ASSUME NEW p \in CoveredBy(runs), p \in Positions(run)
      PROVE  FALSE
  <2>1. PICK i \in DOMAIN runs : p \in Positions(runs[i])
    BY Covers
  <2>2. EndSample(run) <= runs[i].start \/ run.start >= EndSample(runs[i])
    BY DEF Overlapping, Overlap
  <2>3. /\ runs[i].start \in Nat /\ EndSample(runs[i]) \in Nat
        /\ run.start \in Nat /\ EndSample(run) \in Nat
    BY SegmentEnd
  <2> QED
    BY <1>3, <2>1, <2>2, <2>3 DEF Positions
<1>4. ASSUME NEW p \in CoveredBy(runs)
      PROVE  Content(longer)[p] = Content(runs)[p]
  <2>1. PICK j \in DOMAIN runs : p \in Positions(runs[j])
    BY Covers
  <2>2. PICK i \in DOMAIN longer : longer[i] = runs[j]
    BY <1>1
  <2>3. Content(runs)[p] = runs[j].data[p - runs[j].start + 1]
    BY <2>1, ContentAt
  <2>4. Content(longer)[p] = longer[i].data[p - longer[i].start + 1]
    BY <1>1, <2>1, <2>2, ContentAt
  <2> QED
    BY <2>2, <2>3, <2>4
<1>5. ASSUME NEW p \in Positions(run)
      PROVE  Content(longer)[p] \in Values
  <2>1. PICK i \in DOMAIN longer : longer[i] = run
    BY <1>1
  <2> QED
    BY <1>1, <2>1, ContentAt
<1> QED
  BY <1>2, <1>3, <1>4, <1>5 DEF longer

\* Discarding keeps what is there from the position on, each sample as it was.
LEMMA DiscardedContent ==
    ASSUME NEW Values, NEW runs \in Seq(Segments(Values)), Tidy(runs), NEW sample \in Nat
    PROVE  LET shorter == Discarded(runs, sample)
           IN  /\ CoveredBy(shorter) = {p \in CoveredBy(runs) : p >= sample}
               /\ \A p \in CoveredBy(shorter) : Content(shorter)[p] = Content(runs)[p]
<1> DEFINE shorter == Discarded(runs, sample)
<1>1. /\ shorter \in Seq(Segments(Values)) /\ Tidy(shorter)
      /\ \A i \in DOMAIN shorter :
            /\ sample <= shorter[i].start
            /\ \E j \in DOMAIN runs : /\ EndSample(shorter[i]) = EndSample(runs[j])
                                      /\ TakenFrom(shorter[i], runs[j])
      /\ \A j \in DOMAIN runs : sample < EndSample(runs[j]) =>
            \E i \in DOMAIN shorter :
                /\ EndSample(shorter[i]) = EndSample(runs[j])
                /\ shorter[i].start = runs[j].start \/ shorter[i].start = sample
  BY DiscardedTidy
<1> HIDE DEF shorter
<1>2. /\ \A i \in DOMAIN shorter : /\ shorter[i] \in Segments(Values) /\ shorter[i].start \in Nat
                                  /\ EndSample(shorter[i]) \in Nat
      /\ \A j \in DOMAIN runs : /\ runs[j] \in Segments(Values) /\ runs[j].start \in Nat
                                /\ EndSample(runs[j]) \in Nat
                                /\ EndSample(runs[j]) = runs[j].start + Len(runs[j].data)
                                /\ runs[j].data \in Seq(Values)
  <2>1. /\ \A i \in DOMAIN shorter : shorter[i] \in Segments(Values)
        /\ \A j \in DOMAIN runs : runs[j] \in Segments(Values)
    BY <1>1
  <2> QED
    BY <2>1, SegmentEnd
<1>3. ASSUME NEW i \in DOMAIN shorter, NEW p \in Positions(shorter[i])
      PROVE  /\ p >= sample /\ p \in CoveredBy(runs)
             /\ Content(shorter)[p] = Content(runs)[p]
  <2>1. PICK j \in DOMAIN runs : TakenFrom(shorter[i], runs[j])
    BY <1>1
  <2> DEFINE m == p - shorter[i].start + 1
  <2>2. p \in Int /\ shorter[i].start <= p /\ m \in DOMAIN shorter[i].data
    BY <1>2, SliceOfOne DEF Positions
  <2>3. Content(shorter)[p] = shorter[i].data[m]
    BY <1>1, ContentAt
  <2>4. /\ m + (shorter[i].start - runs[j].start) \in DOMAIN runs[j].data
        /\ shorter[i].data[m] = runs[j].data[m + (shorter[i].start - runs[j].start)]
    BY <2>1, <2>2 DEF TakenFrom
  <2>5. m + (shorter[i].start - runs[j].start) = p - runs[j].start + 1
    <3>1. p \in Int /\ shorter[i].start \in Int /\ runs[j].start \in Int
      BY <1>2, <2>2
    <3> QED
      BY <3>1
  <2> HIDE DEF m
  <2>6. p \in Positions(runs[j])
    <3>0. /\ runs[j].data \in Seq(Values) /\ runs[j].start \in Nat /\ p \in Int
          /\ EndSample(runs[j]) = runs[j].start + Len(runs[j].data)
      BY <1>2, <2>2
    <3>1. p - runs[j].start + 1 \in 1..Len(runs[j].data) /\ Len(runs[j].data) \in Nat
      BY <2>4, <2>5, <3>0
    <3>2. PICK a, b : a = runs[j].start /\ b = Len(runs[j].data)
      OBVIOUS
    <3>3. p \in a..(a + b - 1)
      <4>1. p \in Int /\ a \in Nat /\ b \in Nat /\ p - a + 1 \in 1..b
        BY <3>0, <3>1, <3>2
      <4> QED
        BY ONLY <4>1
    <3> QED
      BY <3>0, <3>2, <3>3 DEF Positions
  <2>7. p \in CoveredBy(runs) /\ Content(runs)[p] = runs[j].data[p - runs[j].start + 1]
    BY <2>6, ContentAt
  <2>8. sample <= shorter[i].start
    BY <1>1
  <2> QED
    BY <1>2, <2>2, <2>3, <2>4, <2>5, <2>7, <2>8
<1>4. ASSUME NEW p \in CoveredBy(shorter)
      PROVE  /\ p >= sample /\ p \in CoveredBy(runs)
             /\ Content(shorter)[p] = Content(runs)[p]
  <2>1. PICK i \in DOMAIN shorter : p \in Positions(shorter[i])
    BY Covers
  <2> QED
    BY <1>3, <2>1
<1>5. ASSUME NEW p \in CoveredBy(runs), p >= sample
      PROVE  p \in CoveredBy(shorter)
  <2>1. PICK j \in DOMAIN runs : p \in Positions(runs[j])
    BY Covers
  <2>2. p \in Int /\ runs[j].start <= p /\ p < EndSample(runs[j])
    BY <1>2, <2>1 DEF Positions
  <2>3. sample < EndSample(runs[j])
    BY <1>2, <1>5, <2>2
  <2>4. PICK i \in DOMAIN shorter :
            /\ EndSample(shorter[i]) = EndSample(runs[j])
            /\ shorter[i].start = runs[j].start \/ shorter[i].start = sample
    BY <1>1, <2>3
  <2>5. p \in Positions(shorter[i])
    BY <1>2, <1>5, <2>2, <2>4 DEF Positions
  <2> QED
    BY <2>5, Covers
<1> QED
  BY <1>4, <1>5 DEF shorter

-----------------------------------------------------------------------------
(* The buffer under any sequence of calls.  That the segments are sorted and  *)
(* disjoint is inductive with their types and the bound of the positions.     *)

BufferInv ==
    /\ segments \in Seq(Segments(Sample))
    /\ Sorted
    /\ \A i \in DOMAIN segments : EndSample(segments[i]) <= LastPosition + 1

LEMMA SortedIsTidy == Sorted <=> Tidy(segments)
BY DEF Sorted, Tidy

LEMMA KnownIsContent == Covered = CoveredBy(segments) /\ Known = Content(segments)
BY DEF Covered, CoveredBy, Known, SampleAt, Content

LEMMA RunsAreSegments ==
    ASSUME NEW run \in Runs
    PROVE  /\ run \in Segments(Sample) /\ run.data # <<>>
           /\ EndSample(run) <= LastPosition + 1
<1>0. PICK first \in 0..LastPosition :
          run \in {Run(first, [i \in 1..n |-> [position |-> first + i - 1, take |-> t]]) :
                      n \in 1..(LastPosition + 1 - first), t \in Takes}
  BY DEF Runs
<1>1. PICK n \in 1..(LastPosition + 1 - first), t \in Takes :
          run = Run(first, [i \in 1..n |-> [position |-> first + i - 1, take |-> t]])
  BY <1>0
<1> DEFINE data == [i \in 1..n |-> [position |-> first + i - 1, take |-> t]]
<1>2. first \in Nat /\ n \in Nat \ {0} /\ first + n <= LastPosition + 1
  BY BufferAssumption
<1>3. data \in Seq(Sample) /\ Len(data) = n
  <2>1. \A i \in 1..n : first + i - 1 \in 0..LastPosition
    BY <1>2, BufferAssumption
  <2> QED
    BY <1>2, <2>1 DEF Sample
<1> HIDE DEF data
<1>4. run.start = first /\ run.data = data /\ run \in Segments(Sample)
  BY <1>1, <1>2, <1>3 DEF Run, Segments, data
<1>5. EndSample(run) = first + n
  BY <1>3, <1>4 DEF EndSample
<1> QED
  BY <1>2, <1>3, <1>4, <1>5

\* All positions are within the bound.
LEMMA CoveredBounded ==
    ASSUME BufferInv, NEW p \in Covered
    PROVE  p \in 0..LastPosition
<1>1. PICK i \in DOMAIN segments : p \in Positions(segments[i])
  BY DEF Covered
<1>2. /\ segments[i].start \in Nat /\ EndSample(segments[i]) \in Nat
      /\ EndSample(segments[i]) <= LastPosition + 1
  BY SegmentEnd DEF BufferInv
<1> QED
  BY <1>1, <1>2, BufferAssumption DEF Positions

\* insert: a duplicate changes nothing, a new run is stored.
LEMMA InsertStores ==
    ASSUME BufferInv, NEW run \in Runs, Insert(run)
    PROVE  BufferInv' /\ (Map!Store \/ UNCHANGED Known)
<1>1. /\ run \in Segments(Sample) /\ run.data # <<>>
      /\ EndSample(run) <= LastPosition + 1
  BY RunsAreSegments
<1>2. segments \in Seq(Segments(Sample)) /\ Tidy(segments)
  BY SortedIsTidy DEF BufferInv
<1>3. CASE Overlapping(segments, run) # {}
  <2>1. segments' = segments
    BY <1>3 DEF Insert, Inserted
  <2> QED
    BY <2>1 DEF BufferInv, Sorted, Known, Covered, SampleAt
<1>4. CASE Overlapping(segments, run) = {}
  <2>1. PICK longer : longer = Inserted(segments, run)
    OBVIOUS
  <2>2. segments' = longer
    BY <2>1 DEF Insert
  <2>3. /\ longer \in Seq(Segments(Sample)) /\ Tidy(longer)
        /\ \A i \in DOMAIN longer : longer[i] = run \/ \E j \in DOMAIN segments : longer[i] = segments[j]
    BY <1>1, <1>2, <1>4, <2>1, InsertedTidy
  <2>4. BufferInv'
    <3>1. \A i \in DOMAIN longer : EndSample(longer[i]) <= LastPosition + 1
      BY <1>1, <2>3 DEF BufferInv
    <3> QED
      BY <2>2, <2>3, <3>1 DEF BufferInv, Sorted, Tidy
  <2>5. Map!Store
    <3>1. /\ CoveredBy(longer) = CoveredBy(segments) \cup Positions(run)
          /\ CoveredBy(segments) \cap Positions(run) = {}
          /\ \A p \in CoveredBy(segments) : Content(longer)[p] = Content(segments)[p]
          /\ \A p \in Positions(run) : Content(longer)[p] \in Sample
      BY <1>1, <1>2, <1>4, <2>1, InsertedContent
    <3>2. PICK before, after : before = Content(segments) /\ after = Content(longer)
      OBVIOUS
    <3>3. Known = before /\ Known' = after
      BY <2>2, <3>2, KnownIsContent DEF Known, Covered, SampleAt, Content, CoveredBy
    <3>4. /\ before = [p \in CoveredBy(segments) |-> before[p]] /\ DOMAIN after = CoveredBy(longer)
          /\ DOMAIN before = CoveredBy(segments)
      BY <3>2 DEF Content
    <3>5. DOMAIN after \ DOMAIN before = Positions(run)
      BY <3>1, <3>4
    <3>6. /\ Positions(run) # {}
          /\ \E first, last \in 0..LastPosition : Positions(run) = first..last
      <4>1. run.start \in Nat /\ EndSample(run) \in Nat /\ run.start < EndSample(run)
        BY <1>1, SegmentEnd
      <4> DEFINE last == EndSample(run) - 1
      <4>2. /\ Positions(run) = run.start..last
            /\ run.start \in 0..LastPosition /\ last \in 0..LastPosition
            /\ run.start \in Positions(run)
        BY <1>1, <4>1, BufferAssumption DEF Positions
      <4> QED
        BY <4>2
    <3>7. \A p \in Positions(run) : after[p] \in Sample
      BY <3>1, <3>2
    <3>8. [p \in DOMAIN before |-> after[p]] = before
      BY <3>1, <3>2, <3>4
    <3> QED
      BY <3>3, <3>5, <3>6, <3>7, <3>8 DEF Map!Store, Map!Restrict
  <2> QED
    BY <2>4, <2>5
<1> QED
  BY <1>3, <1>4

\* discard_before: what is known from the position on stays known.
LEMMA DiscardKeeps ==
    ASSUME BufferInv, NEW sample \in Nat, Discard(sample)
    PROVE  /\ BufferInv'
           /\ Known' = [p \in {q \in Covered : q >= sample} |-> Known[p]]
<1>2. segments \in Seq(Segments(Sample)) /\ Tidy(segments)
  BY SortedIsTidy DEF BufferInv
<1>3. PICK shorter : shorter = Discarded(segments, sample)
  OBVIOUS
<1>4. segments' = shorter
  BY <1>3 DEF Discard
<1>5. /\ shorter \in Seq(Segments(Sample)) /\ Tidy(shorter)
      /\ \A i \in DOMAIN shorter : \E j \in DOMAIN segments :
            EndSample(shorter[i]) = EndSample(segments[j])
  BY <1>2, <1>3, DiscardedTidy
<1>6. BufferInv'
  <2>1. \A i \in DOMAIN shorter : EndSample(shorter[i]) <= LastPosition + 1
    BY <1>5 DEF BufferInv
  <2> QED
    BY <1>4, <1>5, <2>1 DEF BufferInv, Sorted, Tidy
<1>7. /\ CoveredBy(shorter) = {p \in CoveredBy(segments) : p >= sample}
      /\ \A p \in CoveredBy(shorter) : Content(shorter)[p] = Content(segments)[p]
  BY <1>2, <1>3, DiscardedContent
<1>8. PICK before, after : before = Content(segments) /\ after = Content(shorter)
  OBVIOUS
<1>9. Known = before /\ Known' = after
  BY <1>4, <1>8 DEF Known, Covered, SampleAt, Content, CoveredBy
<1>10. Covered = CoveredBy(segments)
  BY KnownIsContent
<1>11. after = [p \in CoveredBy(shorter) |-> after[p]]
  BY <1>8 DEF Content
<1>12. after = [p \in {q \in CoveredBy(segments) : q >= sample} |-> before[p]]
  BY <1>7, <1>8, <1>11
<1> QED
  BY <1>6, <1>9, <1>10, <1>12

LEMMA BufferInitInv == BufferInit => BufferInv
BY DEF BufferInit, BufferInv, Sorted

\* Every call keeps the invariant, and stores, forgets or leaves what is known.
LEMMA BufferNextInv ==
    ASSUME BufferInv, [BufferNext]_segments
    PROVE  BufferInv' /\ [Map!Next]_Known
<1>1. ASSUME NEW run \in Runs, Insert(run)
      PROVE  BufferInv' /\ [Map!Next]_Known
  BY <1>1, InsertStores DEF Map!Next
<1>2. ASSUME NEW sample \in 0..(LastPosition + 1), Discard(sample)
      PROVE  BufferInv' /\ [Map!Next]_Known
  <2>1. sample \in Nat
    OBVIOUS
  <2>2. BufferInv' /\ Known' = [p \in {q \in Covered : q >= sample} |-> Known[p]]
    BY <1>2, <2>1, DiscardKeeps
  <2>3. DOMAIN Known = Covered
    BY DEF Known
  <2>4. Map!Forget
    BY <2>2, <2>3 DEF Map!Forget, Map!Restrict
  <2> QED
    BY <2>2, <2>4 DEF Map!Next
<1>3. ASSUME Clear
      PROVE  BufferInv' /\ [Map!Next]_Known
  <2>1. segments' = <<>>
    BY <1>3 DEF Clear
  <2>2. BufferInv'
    BY <2>1 DEF BufferInv, Sorted
  <2>3. Known' = [p \in {} |-> Known[p]]
    BY <2>1 DEF Known, Covered
  <2>4. DOMAIN Known = Covered
    BY DEF Known
  <2>5. {p \in Covered : p >= LastPosition + 1} = {}
    BY CoveredBounded, BufferAssumption
  <2>6. LastPosition + 1 \in 0..(LastPosition + 1)
    BY BufferAssumption
  <2>7. Map!Forget
    BY <2>3, <2>4, <2>5, <2>6 DEF Map!Forget, Map!Restrict
  <2> QED
    BY <2>2, <2>7 DEF Map!Next
<1>4. CASE UNCHANGED segments
  BY <1>4 DEF BufferInv, Sorted, Known, Covered, SampleAt
<1> QED
  BY <1>1, <1>2, <1>3, <1>4 DEF BufferNext

LEMMA BufferInvariant == BufferSpec => []BufferInv
BY BufferInitInv, BufferNextInv, PTL DEF BufferSpec

\* The buffer is a map from positions to samples: nothing that is stored is ever
\* replaced (EnhancedSegments.insert, discard_before and clear of timeline.py).
THEOREM BufferIsMap == BufferSpec => ImplementsMap
<1>1. BufferInit => Map!Init
  BY DEF BufferInit, Map!Init, Known, Covered
<1>2. BufferInv /\ [BufferNext]_segments => [Map!Next]_Known
  BY BufferNextInv
<1> QED
  BY <1>1, <1>2, BufferInvariant, PTL DEF BufferSpec, ImplementsMap, Map!Spec

\* Discarding keeps every sample from the position on, also of a segment that
\* the position cuts (EnhancedSegments.discard_before).
THEOREM DiscardingKeepsTheRest == BufferSpec => DiscardsThePast
<1> DEFINE Kept == \A sample \in 0..(LastPosition + 1) : Discard(sample) =>
                       Known' = [p \in {q \in Covered : q >= sample} |-> SampleAt(p)]
<1>1. BufferInv => Kept
  <2> SUFFICES ASSUME BufferInv, NEW sample \in 0..(LastPosition + 1), Discard(sample)
               PROVE  Known' = [p \in {q \in Covered : q >= sample} |-> SampleAt(p)]
    OBVIOUS
  <2>1. sample \in Nat
    OBVIOUS
  <2>2. Known' = [p \in {q \in Covered : q >= sample} |-> Known[p]]
    BY <2>1, DiscardKeeps
  <2>3. \A p \in Covered : Known[p] = SampleAt(p)
    BY DEF Known
  <2> QED
    BY <2>2, <2>3
<1>2. BufferInv /\ [BufferNext]_segments => [Kept]_segments
  BY <1>1
<1> QED
  BY <1>2, BufferInvariant, PTL DEF BufferSpec, DiscardsThePast

\* read returns the samples of exactly the range it was asked for, across however
\* many segments, and None as soon as one position is missing
\* (EnhancedSegments.read).
THEOREM ReadsStayLookups == BufferSpec => []ReadsAreLookups
<1>1. BufferInv => ReadsAreLookups
  <2> SUFFICES ASSUME BufferInv PROVE ReadIsLookup
    BY DEF ReadsAreLookups, BufferInv
  <2>1. segments \in Seq(Segments(Sample)) /\ Tidy(segments)
    BY SortedIsTidy DEF BufferInv
  <2>2. ASSUME NEW start \in 0..LastPosition, NEW n \in 1..(LastPosition + 1 - start)
        PROVE  Read(segments, start, n) =
                   IF start..(start + n - 1) \subseteq Covered
                   THEN [i \in 1..n |-> SampleAt(start + i - 1)] ELSE None
    <3>1. start \in Nat /\ n \in Nat \ {0}
      BY BufferAssumption
    <3>2. LastSeen(segments, start, n).state = "complete" <=> start..(start + n - 1) \subseteq Covered
      BY <2>1, <3>1, ReadsWhatIsThere, KnownIsContent
    <3>3. CASE LastSeen(segments, start, n).state # "complete"
      BY <3>2, <3>3 DEF Read, LastSeen
    <3>4. CASE LastSeen(segments, start, n).state = "complete"
      <4>0. PICK last : last = LastSeen(segments, start, n)
        OBVIOUS
      <4>1. PICK found : found = last.output
        OBVIOUS
      <4>2. Read(segments, start, n) = found
        BY <3>4, <4>0, <4>1 DEF Read, LastSeen
      <4>3. \A i \in DOMAIN segments : Placed(segments[i], Content(segments))
        <5> SUFFICES ASSUME NEW i \in DOMAIN segments, NEW m \in DOMAIN segments[i].data
                     PROVE  segments[i].data[m] = Content(segments)[segments[i].start + m - 1]
          BY DEF Placed
        <5> DEFINE p == segments[i].start + m - 1
        <5>1. /\ segments[i].start \in Nat /\ segments[i].data \in Seq(Sample)
              /\ Len(segments[i].data) \in Nat
              /\ EndSample(segments[i]) = segments[i].start + Len(segments[i].data)
          BY <2>1, SegmentEnd
        <5>2. m \in 1..Len(segments[i].data)
          BY <5>1
        <5>3. p \in Positions(segments[i]) /\ p - segments[i].start + 1 = m
          BY <5>1, <5>2 DEF Positions
        <5> HIDE DEF p
        <5>4. Content(segments)[p] = segments[i].data[m]
          BY <2>1, <5>3, ContentAt
        <5> QED
          BY <5>4 DEF p
      <4>4. /\ found \in Seq(Sample) /\ Len(found) = n
            /\ \A m \in 1..n : found[m] = Content(segments)[start + m - 1]
        <5> DEFINE audio == Content(segments)
        <5>1. EachPlaced(segments, audio)
          BY <4>3 DEF EachPlaced
        <5> HIDE DEF audio
        <5>2. /\ segments \in Seq(Segments(Sample)) /\ start \in Nat /\ n \in Nat \ {0}
              /\ EachPlaced(segments, audio)
              /\ last = LastSeen(segments, start, n) /\ last.state = "complete"
          BY <2>1, <3>1, <3>4, <4>0, <5>1
        <5>3. /\ last.output \in Seq(Sample) /\ Len(last.output) = n
              /\ \A m \in 1..n : last.output[m] = audio[start + m - 1]
          BY <5>2, CompleteInPlace
        <5> QED
          BY <4>1, <5>3 DEF audio
      <4>5. ASSUME NEW m \in 1..n
            PROVE  found[m] = SampleAt(start + m - 1)
        <5> DEFINE p == start + m - 1
        <5>1. p \in start..(start + n - 1)
          BY <3>1
        <5> HIDE DEF p
        <5>2. p \in Covered
          BY <3>2, <3>4, <5>1
        <5>3. Content(segments)[p] = SampleAt(p)
          BY <5>2, KnownIsContent DEF Known
        <5> QED
          BY <4>4, <5>3 DEF p
      <4>6. found = [m \in 1..n |-> SampleAt(start + m - 1)]
        <5>1. found = [m \in 1..n |-> found[m]]
          BY <3>1, <4>4
        <5> QED
          BY <4>5, <5>1
      <4> QED
        BY <3>2, <3>4, <4>2, <4>6
    <3> QED
      BY <3>3, <3>4
  <2> QED
    BY <2>2 DEF ReadIsLookup
<1> QED
  BY <1>1, BufferInvariant, PTL

-----------------------------------------------------------------------------
(* The rechunker (audio.py). *)

\* n samples, from the one at position a on.
Numbered(a, n) == [i \in 1..n |-> a + i - 1]

LEMMA NumberedList ==
    ASSUME NEW a \in Nat, NEW n \in Nat
    PROVE  /\ Numbered(a, n) \in Seq(Nat) /\ Len(Numbered(a, n)) = n
           /\ \A i \in 1..n : Numbered(a, n)[i] = a + i - 1
BY DEF Numbered

\* A list of the positions after those of another continues it.
LEMMA NumberedJoin ==
    ASSUME NEW a \in Nat, NEW m \in Nat, NEW n \in Nat
    PROVE  Numbered(a, m) \o Numbered(a + m, n) = Numbered(a, m + n)
<1> DEFINE p == Numbered(a, m)
           q == Numbered(a + m, n)
           r == Numbered(a, m + n)
<1>1. a + m \in Nat /\ m + n \in Nat
  OBVIOUS
<1>2. /\ p \in Seq(Nat) /\ Len(p) = m /\ \A i \in 1..m : p[i] = a + i - 1
      /\ q \in Seq(Nat) /\ Len(q) = n /\ \A i \in 1..n : q[i] = (a + m) + i - 1
      /\ r \in Seq(Nat) /\ Len(r) = m + n /\ \A i \in 1..(m + n) : r[i] = a + i - 1
  BY <1>1, NumberedList
<1> HIDE DEF p, q, r
<1>3. PICK s : s = p \o q
  OBVIOUS
<1>4. /\ s \in Seq(Nat) /\ Len(s) = m + n
      /\ \A i \in 1..(m + n) : s[i] = IF i <= m THEN p[i] ELSE q[i - m]
  <2>1. /\ s \in Seq(Nat) /\ Len(s) = Len(p) + Len(q)
        /\ \A i \in 1..(Len(p) + Len(q)) : s[i] = IF i <= Len(p) THEN p[i] ELSE q[i - Len(p)]
    BY <1>2, <1>3, ConcatProperties
  <2> QED
    BY <1>2, <2>1
<1>5. ASSUME NEW i \in 1..(m + n) PROVE s[i] = r[i]
  <2>1. CASE i <= m
    <3>1. i \in 1..m
      BY <2>1
    <3> QED
      BY <1>2, <1>4, <2>1, <3>1
  <2>2. CASE ~(i <= m)
    <3>1. i - m \in 1..n /\ (a + m) + (i - m) - 1 = a + i - 1
      BY <2>2
    <3>2. q[i - m] = (a + m) + (i - m) - 1
      BY <1>2, <3>1
    <3> QED
      BY <1>2, <1>4, <2>2, <3>1, <3>2
  <2> QED
    BY <2>1, <2>2
<1>6. s = r
  BY <1>2, <1>4, <1>5, SeqEqual
<1> QED
  BY <1>3, <1>6 DEF p, q, r

\* The two parts of a list of positions are positions.
Counts(s, a) == s \in Seq(Nat) /\ s = Numbered(a, Len(s))

LEMMA NumberedCut ==
    ASSUME NEW a \in Nat, NEW s \in Seq(Nat), NEW t \in Seq(Nat), Counts(s \o t, a)
    PROVE  Counts(s, a) /\ Counts(t, a + Len(s))
<1> DEFINE m == Len(s)
           k == Len(t)
           p == Numbered(a, m)
           q == Numbered(a + m, k)
<1>1. PICK r : r = s \o t
  OBVIOUS
<1>2. /\ m \in Nat /\ k \in Nat /\ Len(r) = m + k
      /\ \A i \in 1..(m + k) : r[i] = IF i <= m THEN s[i] ELSE t[i - m]
  <2>1. /\ Len(r) = Len(s) + Len(t)
        /\ \A i \in 1..(Len(s) + Len(t)) : r[i] = IF i <= Len(s) THEN s[i] ELSE t[i - Len(s)]
    BY <1>1, ConcatProperties
  <2> QED
    BY <2>1
<1>3. \A i \in 1..(m + k) : r[i] = a + i - 1
  <2>1. r = Numbered(a, m + k) /\ m + k \in Nat
    BY <1>1, <1>2 DEF Counts
  <2> QED
    BY <2>1, NumberedList
<1>4. a + m \in Nat
  BY <1>2
<1>5. /\ p \in Seq(Nat) /\ Len(p) = m /\ \A i \in 1..m : p[i] = a + i - 1
      /\ q \in Seq(Nat) /\ Len(q) = k /\ \A i \in 1..k : q[i] = (a + m) + i - 1
  BY <1>2, <1>4, NumberedList
<1> HIDE DEF p, q
<1>6. ASSUME NEW i \in 1..m PROVE s[i] = p[i]
  <2>1. i \in 1..(m + k) /\ i <= m
    BY <1>2
  <2>2. r[i] = s[i] /\ r[i] = a + i - 1
    BY <1>2, <1>3, <2>1
  <2>3. p[i] = a + i - 1
    BY <1>5
  <2> QED
    BY <2>2, <2>3
<1>7. ASSUME NEW i \in 1..k PROVE t[i] = q[i]
  <2>1. i + m \in 1..(m + k) /\ ~(i + m <= m) /\ (i + m) - m = i
    BY <1>2
  <2>2. r[i + m] = t[i] /\ r[i + m] = a + (i + m) - 1
    BY <1>2, <1>3, <2>1
  <2>3. q[i] = (a + m) + i - 1
    BY <1>5
  <2> QED
    BY <1>2, <2>2, <2>3
<1>8. s = p /\ t = q
  BY <1>5, <1>6, <1>7, SeqEqual
<1> QED
  BY <1>8 DEF p, q, Counts

\* The instance's copy of the library's operator.
LEMMA SameFlatten == \A q : Rechunking!FlattenSeq(q) = FlattenSeq(q)
BY DEF FlattenSeq, Rechunking!FlattenSeq

SampleList == Seq(Nat)
RechunkedHop == [start : Nat, samples : SampleList]
SamplesOf(h) == [i \in DOMAIN h |-> h[i].samples]

LEMMA SampleLists == Lists(SampleList)
BY DEF Lists, SampleList

\* A chunk put behind the deque's parts.
LEMMA AppendedPart ==
    ASSUME NEW p \in Seq(SampleList), \A i \in DOMAIN p : p[i] # <<>>,
           NEW part \in SampleList, part # <<>>
    PROVE  LET q == Append(p, part) IN
           /\ q \in Seq(SampleList) /\ \A i \in DOMAIN q : q[i] # <<>>
           /\ FlattenSeq(q) = FlattenSeq(p) \o part
<1> DEFINE q == Append(p, part)
<1>1. /\ q \in Seq(SampleList) /\ \A i \in DOMAIN q : i \in DOMAIN p \/ i = Len(p) + 1
      /\ \A i \in DOMAIN p : q[i] = p[i]
      /\ q[Len(p) + 1] = part
  OBVIOUS
<1>2. FlattenSeq(q) = FlattenSeq(p) \o part
  BY SampleLists, FlattenLonger
<1> HIDE DEF q
<1>3. q \in Seq(SampleList) /\ \A i \in DOMAIN q : q[i] # <<>>
  BY <1>1
<1> QED
  BY <1>2, <1>3 DEF q

\* Where a list of positions is cut in two.
LEMMA NumberedParts ==
    ASSUME NEW a \in Nat, NEW m \in Nat, NEW n \in 0..m
    PROVE  /\ SubSeq(Numbered(a, m), 1, n) = Numbered(a, n)
           /\ SubSeq(Numbered(a, m), n + 1, m) = Numbered(a + n, m - n)
<1> DEFINE s == Numbered(a, m)
           front == SubSeq(s, 1, n)
           back == SubSeq(s, n + 1, m)
           k == m - n
           l == n + 1
<1>1. /\ n \in Nat /\ k \in Nat /\ a + n \in Nat /\ l \in Int /\ n <= m
      /\ IF 1 <= n THEN n - 1 + 1 = n ELSE 0 = n
      /\ IF l <= m THEN m - l + 1 = k ELSE 0 = k
      /\ m - l + 1 = k /\ n - 1 + 1 = n
  OBVIOUS
<1>2. \A i \in 1..m : s[i] = a + i - 1 /\ s[i] \in Nat
  <2>1. \A i \in 1..m : s[i] = a + i - 1
    BY NumberedList
  <2> HIDE DEF s
  <2> QED
    BY <2>1
<1>3. /\ Numbered(a, n) \in Seq(Nat) /\ Len(Numbered(a, n)) = n
      /\ \A i \in 1..n : Numbered(a, n)[i] = a + i - 1
  BY <1>1, NumberedList
<1>4. /\ Numbered(a + n, k) \in Seq(Nat) /\ Len(Numbered(a + n, k)) = k
      /\ \A i \in 1..k : Numbered(a + n, k)[i] = (a + n) + i - 1
  BY <1>1, NumberedList
<1> HIDE DEF s
<1>5. /\ front \in Seq(Nat) /\ Len(front) = n /\ \A i \in 1..n : front[i] = s[1 + i - 1]
  <2>1. \A i \in 1..n : s[i] \in Nat
    BY <1>1, <1>2
  <2>2. /\ front \in Seq(Nat) /\ Len(front) = IF 1 <= n THEN n - 1 + 1 ELSE 0
        /\ \A i \in 1..(n - 1 + 1) : front[i] = s[1 + i - 1]
    BY <1>1, <2>1, SubSeqProperties
  <2> HIDE DEF front
  <2> QED
    BY <1>1, <2>2
<1>6. /\ back \in Seq(Nat) /\ Len(back) = k /\ \A i \in 1..k : back[i] = s[l + i - 1]
  <2>1. \A i \in l..m : s[i] \in Nat
    BY <1>1, <1>2
  <2> HIDE DEF l
  <2>2. /\ SubSeq(s, l, m) \in Seq(Nat) /\ Len(SubSeq(s, l, m)) = IF l <= m THEN m - l + 1 ELSE 0
        /\ \A i \in 1..(m - l + 1) : SubSeq(s, l, m)[i] = s[l + i - 1]
    BY <1>1, <2>1, SubSeqProperties
  <2>3. back = SubSeq(s, l, m)
    BY DEF l
  <2> HIDE DEF back, k
  <2> QED
    BY <1>1, <2>2, <2>3
<1> HIDE DEF front, back
<1>7. ASSUME NEW i \in 1..n PROVE front[i] = Numbered(a, n)[i]
  <2>1. 1 + i - 1 = i /\ i \in 1..m
    BY <1>1
  <2>2. front[i] = s[i]
    BY <1>5, <2>1
  <2> QED
    BY <1>2, <1>3, <2>1, <2>2
<1>8. ASSUME NEW i \in 1..k PROVE back[i] = Numbered(a + n, k)[i]
  <2>1. PICK j : j = l + i - 1
    OBVIOUS
  <2>2. j \in 1..m /\ a + j - 1 = (a + n) + i - 1
    BY <1>1, <2>1
  <2> HIDE DEF k, l
  <2>3. back[i] = s[j] /\ s[j] = a + j - 1
    BY <1>2, <1>6, <2>1, <2>2
  <2> QED
    BY <1>4, <2>2, <2>3
<1>9. front = Numbered(a, n)
  BY <1>3, <1>5, <1>7, SeqEqual
<1>10. back = Numbered(a + n, k)
  BY <1>4, <1>6, <1>8, SeqEqual
<1> QED
  BY <1>9, <1>10 DEF front, back, s

\* The deque is its first part and the rest.
LEMMA FirstPart ==
    ASSUME NEW p \in Seq(SampleList), p # <<>>, \A i \in DOMAIN p : p[i] # <<>>,
           NEW a \in Nat, NEW left \in Nat, FlattenSeq(p) = Numbered(a, left)
    PROVE  /\ Head(p) \in SampleList /\ Len(Head(p)) \in 1..left
           /\ Head(p) = Numbered(a, Len(Head(p)))
           /\ Tail(p) \in Seq(SampleList) /\ \A i \in DOMAIN Tail(p) : Tail(p)[i] # <<>>
           /\ FlattenSeq(Tail(p)) = Numbered(a + Len(Head(p)), left - Len(Head(p)))
<1>1. PICK part, rest : part = Head(p) /\ rest = Tail(p)
  OBVIOUS
<1>2. /\ part \in SampleList /\ rest \in Seq(SampleList) /\ part = p[1] /\ 1 \in DOMAIN p
      /\ Len(rest) = Len(p) - 1 /\ \A i \in 1..Len(rest) : rest[i] = p[i + 1]
  BY <1>1, HeadTailProperties
<1>3. part # <<>> /\ \A i \in DOMAIN rest : rest[i] # <<>>
  <2>1. \A i \in 1..Len(rest) : i + 1 \in DOMAIN p
    BY <1>2
  <2>2. DOMAIN rest = 1..Len(rest)
    BY <1>2
  <2> QED
    BY <1>2, <2>1, <2>2
<1>4. p = <<part>> \o rest
  BY <1>1
<1>5. PICK tail : tail = FlattenSeq(rest)
  OBVIOUS
<1>6. tail \in SampleList /\ part \o tail = FlattenSeq(p)
  BY <1>2, <1>4, <1>5, SampleLists, FlattenFirst, FlattenType
<1>7. /\ Len(part) + Len(tail) = left /\ part = Numbered(a, Len(part))
      /\ tail = Numbered(a + Len(part), Len(tail))
  <2>1. part \in Seq(Nat) /\ tail \in Seq(Nat)
    BY <1>2, <1>6 DEF SampleList
  <2>2. Numbered(a, left) \in Seq(Nat) /\ Len(Numbered(a, left)) = left
    BY NumberedList
  <2>3. Counts(part \o tail, a) /\ Len(part \o tail) = left
    BY <1>6, <2>2 DEF Counts
  <2>4. Counts(part, a) /\ Counts(tail, a + Len(part))
    BY <2>1, <2>3, NumberedCut
  <2>5. Len(part \o tail) = Len(part) + Len(tail)
    BY <2>1, ConcatProperties
  <2> QED
    BY <2>3, <2>4, <2>5 DEF Counts
<1>8. PICK k, l : k = Len(part) /\ l = Len(tail)
  OBVIOUS
<1>9. k \in Nat \ {0} /\ l \in Nat
  BY <1>2, <1>3, <1>6, <1>8 DEF SampleList
<1>10. k + l = left /\ l = left - k /\ k \in 1..left
  BY <1>7, <1>8, <1>9
<1> QED
  BY <1>1, <1>2, <1>3, <1>5, <1>7, <1>8, <1>10

\* The deque whose first part was shortened.
LEMMA ShorterPart ==
    ASSUME NEW rest \in Seq(SampleList), \A i \in DOMAIN rest : rest[i] # <<>>,
           NEW a \in Nat, NEW k \in Nat \ {0}
    PROVE  LET q == <<Numbered(a, k)>> \o rest IN
           /\ q \in Seq(SampleList) /\ \A i \in DOMAIN q : q[i] # <<>>
           /\ FlattenSeq(q) = Numbered(a, k) \o FlattenSeq(rest)
<1>1. PICK part : part = Numbered(a, k)
  OBVIOUS
<1>2. part \in SampleList /\ Len(part) = k
  BY <1>1, NumberedList DEF SampleList
<1>3. part # <<>>
  BY <1>2
<1>4. PICK one : one = <<part>>
  OBVIOUS
<1> DEFINE q == one \o rest
<1>5. /\ one \in Seq(SampleList) /\ Len(one) = 1 /\ one[1] = part
  BY <1>1, <1>2, <1>4
<1>6. /\ q \in Seq(SampleList) /\ Len(q) = Len(one) + Len(rest)
      /\ \A i \in 1..(Len(one) + Len(rest)) :
           q[i] = IF i <= Len(one) THEN one[i] ELSE rest[i - Len(one)]
  BY <1>5, ConcatProperties
<1> HIDE DEF q
<1>7. /\ DOMAIN q = 1..(1 + Len(rest)) /\ DOMAIN rest = 1..Len(rest) /\ Len(rest) \in Nat
  BY <1>5, <1>6
<1>8. ASSUME NEW i \in DOMAIN q PROVE q[i] # <<>>
  <2>1. CASE i = 1
    <3>1. q[1] = part
      BY <1>5, <1>6, <1>7
    <3> QED
      BY <1>3, <2>1, <3>1
  <2>2. CASE i # 1
    <3>1. i \in 1..(1 + Len(rest)) /\ ~(i <= 1) /\ i - 1 \in 1..Len(rest)
      BY <1>7, <2>2
    <3>2. q[i] = rest[i - 1] /\ i - 1 \in DOMAIN rest
      BY <1>5, <1>6, <1>7, <3>1
    <3> QED
      BY <3>2
  <2> QED
    BY <2>1, <2>2
<1>9. FlattenSeq(<<part>> \o rest) = part \o FlattenSeq(rest)
  BY <1>2, SampleLists, FlattenFirst
<1>10. q = <<Numbered(a, k)>> \o rest
  BY <1>1, <1>4 DEF q
<1> QED
  BY <1>1, <1>6, <1>8, <1>9, <1>10

\* One iteration of _take: what it copies comes first, the rest follows.
LEMMA CopiedInOrder ==
    ASSUME NEW p \in Seq(SampleList), p # <<>>, \A i \in DOMAIN p : p[i] # <<>>,
           NEW a \in Nat, NEW left \in Nat, FlattenSeq(p) = Numbered(a, left),
           NEW n \in 1..Len(Head(p))
    PROVE  LET q == (IF n = Len(Head(p)) THEN <<>> ELSE <<Rechunking!Shortened(Head(p), n)>>)
                      \o Tail(p)
           IN  /\ n \in 1..left /\ SubSeq(Head(p), 1, n) = Numbered(a, n)
               /\ q \in Seq(SampleList) /\ \A i \in DOMAIN q : q[i] # <<>>
               /\ FlattenSeq(q) = Numbered(a + n, left - n)
<1> DEFINE q == (IF n = Len(Head(p)) THEN <<>> ELSE <<Rechunking!Shortened(Head(p), n)>>)
                  \o Tail(p)
<1>1. PICK part, rest, size : part = Head(p) /\ rest = Tail(p) /\ size = Len(part)
  OBVIOUS
<1>2. /\ size \in 1..left /\ part = Numbered(a, size)
      /\ rest \in Seq(SampleList) /\ \A i \in DOMAIN rest : rest[i] # <<>>
      /\ FlattenSeq(rest) = Numbered(a + size, left - size)
  BY <1>1, FirstPart
<1>3. /\ n \in 1..size /\ n \in 1..left /\ n \in 0..size /\ size \in Nat /\ n \in Nat
  BY <1>1, <1>2
<1>4. SubSeq(part, 1, n) = Numbered(a, n) /\ SubSeq(part, n + 1, size) = Numbered(a + n, size - n)
  <2>1. /\ SubSeq(Numbered(a, size), 1, n) = Numbered(a, n)
        /\ SubSeq(Numbered(a, size), n + 1, size) = Numbered(a + n, size - n)
    BY <1>2, <1>3, NumberedParts
  <2> QED
    BY <1>2, <2>1
<1>5. q = (IF n = size THEN <<>> ELSE <<Numbered(a + n, size - n)>>) \o rest
  BY <1>1, <1>4 DEF Rechunking!Shortened
<1> HIDE DEF q
<1>6. CASE n = size
  <2>1. q = rest
    <3>1. q = <<>> \o rest
      BY <1>5, <1>6
    <3> QED
      BY <1>2, <3>1, ConcatEmptySeq
  <2> QED
    BY <1>1, <1>2, <1>3, <1>4, <1>6, <2>1 DEF q
<1>7. CASE n # size
  <2>1. q = <<Numbered(a + n, size - n)>> \o rest
    BY <1>5, <1>7
  <2>2. PICK b, k, l : b = a + n /\ k = size - n /\ l = left - size
    OBVIOUS
  <2>3. /\ b \in Nat /\ k \in Nat \ {0} /\ l \in Nat
        /\ b + k = a + size /\ k + l = left - n
    BY <1>2, <1>3, <1>7, <2>2
  <2>4. q = <<Numbered(b, k)>> \o rest
    BY <2>1, <2>2
  <2>5. /\ q \in Seq(SampleList) /\ \A i \in DOMAIN q : q[i] # <<>>
        /\ FlattenSeq(q) = Numbered(b, k) \o FlattenSeq(rest)
    <3> DEFINE w == <<Numbered(b, k)>> \o rest
    <3>1. /\ w \in Seq(SampleList) /\ \A i \in DOMAIN w : w[i] # <<>>
          /\ FlattenSeq(w) = Numbered(b, k) \o FlattenSeq(rest)
      BY <1>2, <2>3, ShorterPart
    <3> HIDE DEF w
    <3>2. q = w
      BY <2>4 DEF w
    <3> QED
      BY <3>1, <3>2
  <2>6. Numbered(b, k) \o Numbered(b + k, l) = Numbered(b, k + l)
    BY <2>3, NumberedJoin
  <2>7. FlattenSeq(q) = Numbered(a + n, left - n)
    BY <1>2, <2>2, <2>3, <2>5, <2>6
  <2> QED
    BY <1>1, <1>3, <1>4, <2>5, <2>7 DEF q
<1> QED
  BY <1>6, <1>7

\* What _take has copied becomes a hop.
LEMMA ReturnedInOrder ==
    ASSUME NEW h \in Seq(RechunkedHop), NEW next \in Nat, NEW out \in SampleList,
           FlattenSeq(SamplesOf(h)) = Numbered(0, next), Counts(out, next),
           Len(out) > 0, \A i \in DOMAIN h : h[i].start = Head(h[i].samples)
    PROVE  LET g == Append(h, [start |-> next, samples |-> out]) IN
           /\ g \in Seq(RechunkedHop) /\ FlattenSeq(SamplesOf(g)) = Numbered(0, next + Len(out))
           /\ \A i \in DOMAIN g : g[i].start = Head(g[i].samples)
<1> DEFINE hop == [start |-> next, samples |-> out]
           g == Append(h, hop)
           s == SamplesOf(h)
           n == Len(h)
<1>1. hop \in RechunkedHop /\ hop.start = next /\ hop.samples = out
  BY DEF RechunkedHop
<1>2. Head(out) = next
  <2>1. Len(out) \in Nat /\ out \in Seq(Nat)
    BY DEF SampleList
  <2>2. PICK k : k = Len(out)
    OBVIOUS
  <2>3. k \in Nat /\ 1 \in 1..k /\ out = Numbered(next, k)
    BY <2>1, <2>2 DEF Counts
  <2>4. out[1] = next + 1 - 1
    BY <2>3, NumberedList
  <2> QED
    BY <2>1, <2>3, <2>4
<1>3. /\ g = Append(h, hop) /\ n \in Nat /\ DOMAIN h = 1..n
  OBVIOUS
<1> HIDE DEF hop
<1>4. /\ g \in Seq(RechunkedHop) /\ DOMAIN g = 1..(n + 1) /\ g[n + 1] = hop
      /\ \A i \in 1..n : g[i] = h[i]
  BY <1>1, <1>3
<1> HIDE DEF g
<1>5. \A i \in 1..n : h[i] \in RechunkedHop
  OBVIOUS
<1>6. s \in Seq(SampleList) /\ Len(s) = n /\ \A i \in 1..n : s[i] = h[i].samples
  <2>1. s \in [1..n -> SampleList]
    BY <1>3, <1>5 DEF SamplesOf, RechunkedHop
  <2> HIDE DEF s
  <2>2. s \in Seq(SampleList) /\ Len(s) = n
    BY <1>3, <2>1
  <2> QED
    BY <1>3, <2>2 DEF SamplesOf, s
<1> HIDE DEF s, n
<1>7. SamplesOf(g) = Append(s, out)
  <2> DEFINE longer == Append(s, out)
  <2>1. /\ longer \in Seq(SampleList) /\ Len(longer) = n + 1 /\ longer[n + 1] = out
        /\ \A i \in 1..n : longer[i] = s[i]
    BY <1>6
  <2>2. SamplesOf(g) = [i \in 1..(n + 1) |-> g[i].samples]
    BY <1>4 DEF SamplesOf
  <2> HIDE DEF longer
  <2>3. longer = [i \in 1..(n + 1) |-> longer[i]]
    BY <1>3, <2>1
  <2>4. \A i \in 1..(n + 1) : g[i].samples = longer[i]
    BY <1>1, <1>3, <1>4, <1>6, <2>1
  <2>5. SamplesOf(g) = longer
    BY <2>2, <2>3, <2>4
  <2> QED
    BY <2>5 DEF longer
<1>8. FlattenSeq(Append(s, out)) = FlattenSeq(s) \o out
  BY <1>6, SampleLists, FlattenLonger
<1>9. Numbered(0, next) \o Numbered(0 + next, Len(out)) = Numbered(0, next + Len(out))
  <2>1. Len(out) \in Nat
    BY DEF SampleList
  <2> QED
    BY <2>1, NumberedJoin
<1>10. 0 + next = next
  OBVIOUS
<1>11. FlattenSeq(SamplesOf(g)) = Numbered(0, next + Len(out))
  BY <1>7, <1>8, <1>9, <1>10 DEF s, Counts
<1>12. \A i \in DOMAIN g : g[i].start = Head(g[i].samples)
  BY <1>1, <1>2, <1>3, <1>4
<1> QED
  BY <1>4, <1>11, <1>12 DEF g, hop

\* The rechunker's inductive invariant: at every step of its loops the hops returned,
\* what is being copied and the deque are the appended samples, in order.
RechunkTypes ==
    /\ parts \in Seq(SampleList) /\ hops \in Seq(RechunkedHop) /\ output \in SampleList
    /\ {pendingSamples, nextSample, count, appended} \subseteq Nat
    /\ pc \in {"rest", "draining", "takingHop", "takingPartial"}
RechunkControl ==
    /\ pc = "rest" => pendingSamples < RechunkSamples
    /\ pc \in {"rest", "draining"} => output = <<>>
    /\ Rechunking!Taking => count > 0 /\ Len(output) <= count /\ count <= pendingSamples
    /\ pc = "takingPartial" => count = pendingSamples
RechunkOrder ==
    /\ FlattenSeq(SamplesOf(hops)) = Numbered(0, nextSample)
    /\ output = Numbered(nextSample, Len(output))
    /\ FlattenSeq(parts) = Numbered(nextSample + Len(output), pendingSamples - Len(output))
    /\ nextSample + pendingSamples = appended
    /\ \A i \in DOMAIN parts : parts[i] # <<>>
    /\ \A i \in DOMAIN hops : hops[i].start = Head(hops[i].samples)
RechunkInv == RechunkTypes /\ RechunkControl /\ RechunkOrder

LEMMA RechunkInit ==
    ASSUME Rechunking!Init
    PROVE  RechunkInv
<1>1. /\ parts = <<>> /\ pendingSamples = 0 /\ nextSample = 0 /\ pc = "rest" /\ count = 0
      /\ output = <<>> /\ hops = <<>> /\ appended = 0
  BY DEF Rechunking!Init
<1>2. RechunkSamples \in Nat \ {0}
  BY SequentialAssumption
<1>3. FlattenSeq(SamplesOf(hops)) = <<>>
  <2>1. SamplesOf(hops) = <<>>
    BY <1>1 DEF SamplesOf
  <2> QED
    BY <2>1, FlattenEmpty
<1>4. Numbered(0, 0) = <<>>
  BY DEF Numbered
<1>5. FlattenSeq(parts) = <<>> /\ Len(output) = 0
  BY <1>1, FlattenEmpty
<1>6. RechunkTypes /\ RechunkControl
  BY <1>1, <1>2 DEF RechunkTypes, RechunkControl, SampleList, Rechunking!Taking
<1>7. RechunkOrder
  BY <1>1, <1>3, <1>4, <1>5 DEF RechunkOrder
<1> QED
  BY <1>6, <1>7 DEF RechunkInv

\* append: the chunk comes last, with the positions that follow.
LEMMA AppendChunkInv ==
    ASSUME RechunkInv, NEW n \in 1..MaxChunk, Rechunking!AppendChunk(n)
    PROVE  RechunkInv'
<1>1. /\ parts' = Append(parts, [i \in 1..n |-> appended + i - 1])
      /\ pendingSamples' = pendingSamples + n /\ appended' = appended + n
      /\ pc = "rest" /\ pc' = "draining"
      /\ UNCHANGED <<nextSample, count, output, hops>>
  BY DEF Rechunking!AppendChunk
<1>2. /\ parts \in Seq(SampleList) /\ \A i \in DOMAIN parts : parts[i] # <<>>
      /\ nextSample \in Nat /\ pendingSamples \in Nat /\ n \in Nat \ {0} /\ appended \in Nat
      /\ output = <<>> /\ Len(output) = 0 /\ nextSample + pendingSamples = appended
      /\ FlattenSeq(parts) = Numbered(nextSample, pendingSamples)
  <2>1. /\ nextSample \in Nat /\ pendingSamples \in Nat /\ output = <<>> /\ Len(output) = 0
        /\ FlattenSeq(parts) = Numbered(nextSample + Len(output), pendingSamples - Len(output))
    BY <1>1 DEF RechunkInv, RechunkTypes, RechunkControl, RechunkOrder
  <2>2. nextSample + 0 = nextSample /\ pendingSamples - 0 = pendingSamples
    BY <2>1
  <2>3. n \in Nat \ {0}
    BY SequentialAssumption
  <2> QED
    BY <2>1, <2>2, <2>3 DEF RechunkInv, RechunkTypes, RechunkOrder
<1> DEFINE part == Numbered(appended, n)
<1>3. parts' = Append(parts, part) /\ part \in SampleList /\ part # <<>>
  <2>1. part \in Seq(Nat) /\ Len(part) = n
    BY <1>2, NumberedList
  <2>2. part = [i \in 1..n |-> appended + i - 1]
    BY DEF Numbered
  <2>3. parts' = Append(parts, part)
    BY <1>1, <2>2
  <2> HIDE DEF part
  <2> QED
    BY <1>2, <2>1, <2>3 DEF SampleList
<1>4. /\ parts' \in Seq(SampleList) /\ \A i \in DOMAIN parts' : parts'[i] # <<>>
      /\ FlattenSeq(parts') = Numbered(nextSample, pendingSamples + n)
  <2>1. Numbered(nextSample, pendingSamples) \o Numbered(nextSample + pendingSamples, n)
          = Numbered(nextSample, pendingSamples + n)
    BY <1>2, NumberedJoin
  <2>2. FlattenSeq(parts) \o part = Numbered(nextSample, pendingSamples + n)
    BY <1>2, <2>1
  <2> HIDE DEF part
  <2> DEFINE q == Append(parts, part)
  <2>3. /\ q \in Seq(SampleList) /\ \A i \in DOMAIN q : q[i] # <<>>
        /\ FlattenSeq(q) = FlattenSeq(parts) \o part
    BY <1>2, <1>3, AppendedPart
  <2> HIDE DEF q
  <2>4. parts' = q
    BY <1>3 DEF q
  <2> QED
    BY <2>2, <2>3, <2>4
<1> HIDE DEF part
<1>5. /\ pendingSamples' \in Nat /\ appended' \in Nat
      /\ nextSample' + pendingSamples' = appended'
      /\ nextSample' + 0 = nextSample' /\ pendingSamples' - 0 = pendingSamples'
  BY <1>1, <1>2
<1>6. RechunkTypes'
  BY <1>1, <1>4, <1>5 DEF RechunkInv, RechunkTypes
<1>7. RechunkControl'
  BY <1>1, <1>2 DEF RechunkInv, RechunkControl, Rechunking!Taking
<1>8. RechunkOrder'
  <2>1. FlattenSeq(parts') = Numbered(nextSample' + Len(output'), pendingSamples' - Len(output'))
    BY <1>1, <1>2, <1>4, <1>5
  <2>2. /\ FlattenSeq(SamplesOf(hops')) = Numbered(0, nextSample')
        /\ output' = Numbered(nextSample', Len(output'))
        /\ \A i \in DOMAIN hops' : hops'[i].start = Head(hops'[i].samples)
    BY <1>1 DEF RechunkInv, RechunkOrder
  <2> QED
    BY <1>4, <1>5, <2>1, <2>2 DEF RechunkOrder
<1> QED
  BY <1>6, <1>7, <1>8 DEF RechunkInv

\* _take begins with nothing copied, or the loop ends.
LEMMA TakeInv ==
    ASSUME RechunkInv, Rechunking!DrainHop \/ Rechunking!DrainDone \/ Rechunking!FlushPartial
    PROVE  RechunkInv'
<1>1. /\ output = <<>> /\ output' = <<>>
      /\ UNCHANGED <<parts, pendingSamples, nextSample, hops, appended>>
  BY DEF Rechunking!DrainHop, Rechunking!DrainDone, Rechunking!FlushPartial, Rechunking!Take,
         RechunkInv, RechunkControl
<1>2. RechunkOrder'
  BY <1>1 DEF RechunkInv, RechunkOrder
<1>3. RechunkSamples \in Nat \ {0} /\ pendingSamples \in Nat /\ Len(output') = 0
  BY <1>1, SequentialAssumption DEF RechunkInv, RechunkTypes
<1>4. CASE Rechunking!DrainHop
  <2>1. /\ count' = RechunkSamples /\ pc' = "takingHop" /\ pendingSamples >= RechunkSamples
    BY <1>4 DEF Rechunking!DrainHop, Rechunking!Take, Rechunking!HasFullHop
  <2>2. RechunkTypes'
    BY <1>1, <1>3, <2>1 DEF RechunkInv, RechunkTypes, SampleList
  <2>3. RechunkControl'
    BY <1>1, <1>3, <2>1 DEF RechunkControl, Rechunking!Taking
  <2> QED
    BY <1>2, <2>2, <2>3 DEF RechunkInv
<1>5. CASE Rechunking!DrainDone
  <2>1. /\ count' = count /\ pc' = "rest" /\ pendingSamples < RechunkSamples
    BY <1>3, <1>5 DEF Rechunking!DrainDone, Rechunking!HasFullHop
  <2>2. RechunkTypes'
    BY <1>1, <2>1 DEF RechunkInv, RechunkTypes, SampleList
  <2>3. RechunkControl'
    BY <1>1, <2>1 DEF RechunkControl, Rechunking!Taking
  <2> QED
    BY <1>2, <2>2, <2>3 DEF RechunkInv
<1>6. CASE Rechunking!FlushPartial
  <2>1. /\ count' = pendingSamples /\ pc' = "takingPartial" /\ pendingSamples > 0
    BY <1>6 DEF Rechunking!FlushPartial, Rechunking!Take
  <2>2. RechunkTypes'
    BY <1>1, <1>3, <2>1 DEF RechunkInv, RechunkTypes, SampleList
  <2>3. RechunkControl'
    BY <1>1, <1>3, <2>1 DEF RechunkControl, Rechunking!Taking
  <2> QED
    BY <1>2, <2>2, <2>3 DEF RechunkInv
<1> QED
  BY <1>4, <1>5, <1>6

\* An iteration of _take moves samples from the deque's front to what is copied.
LEMMA CopyInv ==
    ASSUME RechunkInv, Rechunking!CopyPart
    PROVE  RechunkInv'
<1> DEFINE part == Head(parts)
           n == Rechunking!Smaller(count - Len(output), Len(part))
           done == Len(output)
           left == pendingSamples - Len(output)
<1>1. /\ Rechunking!Taking /\ done < count
      /\ output' = output \o SubSeq(part, 1, n)
      /\ parts' = (IF n = Len(part) THEN <<>> ELSE <<Rechunking!Shortened(part, n)>>) \o Tail(parts)
      /\ UNCHANGED <<pendingSamples, nextSample, pc, count, hops, appended>>
  BY DEF Rechunking!CopyPart, Rechunking!TakenFromFirst
<1>2. /\ parts \in Seq(SampleList) /\ \A i \in DOMAIN parts : parts[i] # <<>>
      /\ nextSample \in Nat /\ pendingSamples \in Nat /\ count \in Nat /\ done \in Nat
      /\ output = Numbered(nextSample, done) /\ FlattenSeq(parts) = Numbered(nextSample + done, left)
      /\ count <= pendingSamples
  BY <1>1 DEF RechunkInv, RechunkTypes, RechunkControl, RechunkOrder, SampleList
<1> HIDE DEF done, left, part
<1>3. left \in Nat \ {0} /\ count - done \in Nat \ {0} /\ count - done <= left
  <2>1. left = pendingSamples - done
    BY DEF left, done
  <2> QED
    BY <1>1, <1>2, <2>1
<1>4. PICK at : at = nextSample + done
  OBVIOUS
<1>5. at \in Nat /\ FlattenSeq(parts) = Numbered(at, left)
  BY <1>2, <1>4
<1>6. parts # <<>>
  <2>1. Len(FlattenSeq(parts)) = left
    BY <1>3, <1>5, NumberedList
  <2>2. Len(<<>>) = 0
    OBVIOUS
  <2> QED
    BY <1>3, <2>1, <2>2, FlattenEmpty
<1>7. n \in 1..Len(Head(parts)) /\ n <= count - done
  <2>1. Len(part) \in 1..left
    BY <1>2, <1>3, <1>5, <1>6, FirstPart DEF part
  <2> QED
    BY <1>3, <2>1 DEF Rechunking!Smaller, done, part
<1> HIDE DEF n
<1> DEFINE q == (IF n = Len(Head(parts)) THEN <<>> ELSE <<Rechunking!Shortened(Head(parts), n)>>)
                  \o Tail(parts)
<1>8. /\ n \in 1..left /\ SubSeq(Head(parts), 1, n) = Numbered(at, n)
      /\ q \in Seq(SampleList) /\ \A i \in DOMAIN q : q[i] # <<>>
      /\ FlattenSeq(q) = Numbered(at + n, left - n)
  <2>1. /\ parts \in Seq(SampleList) /\ parts # <<>> /\ \A i \in DOMAIN parts : parts[i] # <<>>
        /\ at \in Nat /\ left \in Nat /\ FlattenSeq(parts) = Numbered(at, left)
        /\ n \in 1..Len(Head(parts))
    BY <1>2, <1>3, <1>5, <1>6, <1>7
  <2> QED
    BY ONLY <2>1, CopiedInOrder
<1>9. parts' = q /\ output' = output \o SubSeq(Head(parts), 1, n)
  BY <1>1 DEF part, q
<1> HIDE DEF q
<1>10. /\ output' = Numbered(nextSample, done + n) /\ done + n \in Nat /\ done + n <= count
       /\ at + n = nextSample + (done + n) /\ left - n = pendingSamples - (done + n)
  <2>1. /\ done + n \in Nat /\ done + n <= count
        /\ at + n = nextSample + (done + n) /\ left - n = pendingSamples - (done + n)
    <3>1. left = pendingSamples - done /\ n \in Nat
      BY <1>8 DEF left, done
    <3> QED
      BY <1>2, <1>3, <1>4, <1>7, <3>1
  <2>2. Numbered(nextSample, done) \o Numbered(nextSample + done, n) = Numbered(nextSample, done + n)
    <3>1. nextSample \in Nat /\ done \in Nat /\ n \in Nat
      BY <1>2, <1>8
    <3> QED
      BY <3>1, NumberedJoin
  <2> QED
    BY <1>2, <1>4, <1>8, <1>9, <2>1, <2>2
<1>11. output' \in SampleList /\ Len(output') = done + n
  BY <1>2, <1>10, NumberedList DEF SampleList
<1>12. RechunkTypes'
  BY <1>1, <1>8, <1>9, <1>11 DEF RechunkInv, RechunkTypes
<1>13. RechunkControl'
  BY <1>1, <1>10, <1>11 DEF RechunkInv, RechunkControl, Rechunking!Taking
<1>14. RechunkOrder'
  BY <1>1, <1>8, <1>9, <1>10, <1>11 DEF RechunkInv, RechunkOrder
<1> QED
  BY <1>12, <1>13, <1>14 DEF RechunkInv

\* _take returns: what was copied is a hop, and no longer pending.
LEMMA HopTakenInv ==
    ASSUME RechunkInv, Rechunking!HopTaken
    PROVE  RechunkInv'
<1>1. /\ Rechunking!Taking /\ Len(output) = count
      /\ pendingSamples' = pendingSamples - count /\ nextSample' = nextSample + count
      /\ hops' = Append(hops, [start |-> nextSample, samples |-> output])
      /\ pc' = (IF pc = "takingHop" THEN "draining" ELSE "rest")
      /\ count' = 0 /\ output' = <<>> /\ UNCHANGED <<parts, appended>>
  BY DEF Rechunking!HopTaken, Rechunking!Counted
<1>2. /\ hops \in Seq(RechunkedHop) /\ output \in SampleList
      /\ nextSample \in Nat /\ pendingSamples \in Nat /\ count \in Nat /\ appended \in Nat
      /\ count > 0 /\ count <= pendingSamples /\ nextSample + pendingSamples = appended
      /\ FlattenSeq(SamplesOf(hops)) = Numbered(0, nextSample)
      /\ output = Numbered(nextSample, Len(output))
      /\ \A i \in DOMAIN hops : hops[i].start = Head(hops[i].samples)
      /\ FlattenSeq(parts) = Numbered(nextSample + Len(output), pendingSamples - Len(output))
  BY <1>1 DEF RechunkInv, RechunkTypes, RechunkControl, RechunkOrder
<1>3. /\ hops' \in Seq(RechunkedHop)
      /\ FlattenSeq(SamplesOf(hops')) = Numbered(0, nextSample + Len(output))
      /\ \A i \in DOMAIN hops' : hops'[i].start = Head(hops'[i].samples)
  <2>1. Counts(output, nextSample) /\ Len(output) > 0
    BY <1>1, <1>2 DEF Counts, SampleList
  <2> DEFINE g == Append(hops, [start |-> nextSample, samples |-> output])
  <2>2. /\ g \in Seq(RechunkedHop)
        /\ FlattenSeq(SamplesOf(g)) = Numbered(0, nextSample + Len(output))
        /\ \A i \in DOMAIN g : g[i].start = Head(g[i].samples)
    BY <1>2, <2>1, ReturnedInOrder
  <2> HIDE DEF g
  <2>3. hops' = g
    BY <1>1 DEF g
  <2> QED
    BY <2>2, <2>3
<1>4. /\ pendingSamples' \in Nat /\ nextSample' \in Nat /\ count' \in Nat /\ appended' \in Nat
      /\ nextSample' + pendingSamples' = appended'
      /\ Len(output') = 0 /\ nextSample' + 0 = nextSample' /\ pendingSamples' - 0 = pendingSamples'
  BY <1>1, <1>2
<1>5. output' = Numbered(nextSample', Len(output'))
  <2>1. Numbered(nextSample', 0) \in Seq(Nat) /\ Len(Numbered(nextSample', 0)) = 0
    BY <1>4, NumberedList
  <2>2. Numbered(nextSample', 0) = <<>>
    BY <2>1, EmptySeq
  <2> QED
    BY <1>1, <1>4, <2>2
<1>6. RechunkTypes'
  BY <1>1, <1>3, <1>4 DEF RechunkInv, RechunkTypes, SampleList
<1>7. RechunkControl'
  <2>1. pc = "takingPartial" => pendingSamples' = 0
    <3>1. pc = "takingPartial" => count = pendingSamples
      BY DEF RechunkInv, RechunkControl
    <3> QED
      BY <1>1, <1>2, <3>1
  <2>2. pc' = "rest" => pc = "takingPartial"
    BY <1>1 DEF Rechunking!Taking
  <2>3. RechunkSamples \in Nat \ {0}
    BY SequentialAssumption
  <2> QED
    BY <1>1, <2>1, <2>2, <2>3 DEF RechunkControl, Rechunking!Taking
<1>8. RechunkOrder'
  <2>1. FlattenSeq(parts') = Numbered(nextSample' + Len(output'), pendingSamples' - Len(output'))
    BY <1>1, <1>2, <1>4
  <2>2. FlattenSeq(SamplesOf(hops')) = Numbered(0, nextSample')
    BY <1>1, <1>3
  <2>3. \A i \in DOMAIN parts' : parts'[i] # <<>>
    BY <1>1 DEF RechunkInv, RechunkOrder
  <2> QED
    BY <1>3, <1>4, <1>5, <2>1, <2>2, <2>3 DEF RechunkOrder
<1> QED
  BY <1>6, <1>7, <1>8 DEF RechunkInv

\* Between the calls the hops and the remainder are all of what was appended.
LEMMA RechunkGivesRecut ==
    ASSUME RechunkInv
    PROVE  Recut
<1>1. /\ parts \in Seq(SampleList) /\ output \in SampleList
      /\ nextSample \in Nat /\ pendingSamples \in Nat /\ appended \in Nat /\ Len(output) \in Nat
      /\ Len(output) <= pendingSamples
      /\ FlattenSeq(parts) = Numbered(nextSample + Len(output), pendingSamples - Len(output))
  <2>1. /\ nextSample \in Nat /\ pendingSamples \in Nat /\ appended \in Nat /\ count \in Nat
        /\ output \in SampleList /\ Len(output) \in Nat
    BY DEF RechunkInv, RechunkTypes, SampleList
  <2>2. CASE Rechunking!Taking
    <3>1. Len(output) <= count /\ count <= pendingSamples
      BY <2>2 DEF RechunkInv, RechunkControl
    <3> QED
      BY <2>1, <3>1 DEF RechunkInv, RechunkTypes, RechunkOrder
  <2>3. CASE ~Rechunking!Taking
    <3>1. output = <<>>
      BY <2>3 DEF RechunkInv, RechunkTypes, RechunkControl, Rechunking!Taking
    <3> QED
      BY <2>1, <3>1 DEF RechunkInv, RechunkTypes, RechunkOrder
  <2> QED
    BY <2>2, <2>3
<1>2. Len(FlattenSeq(parts)) = pendingSamples - Len(output)
  <2>1. PICK a, m : a = nextSample + Len(output) /\ m = pendingSamples - Len(output)
    OBVIOUS
  <2>2. a \in Nat /\ m \in Nat /\ FlattenSeq(parts) = Numbered(a, m)
    BY <1>1, <2>1
  <2>3. Len(FlattenSeq(parts)) = m
    BY <2>2, NumberedList
  <2> QED
    BY <2>1, <2>3
<1>3. Rechunking!CountsMatchParts
  <2>1. \A i \in DOMAIN parts : parts[i] # <<>>
    BY DEF RechunkInv, RechunkOrder
  <2>2. Rechunking!Taking => Len(output) <= count /\ count <= pendingSamples
    BY DEF RechunkInv, RechunkControl
  <2> QED
    BY <1>2, <2>1, <2>2, SameFlatten DEF Rechunking!CountsMatchParts
<1>4. ASSUME pc = "rest"
      PROVE  /\ Rechunking!Returned \o Rechunking!FlattenSeq(parts) = [i \in 1..appended |-> i - 1]
             /\ pendingSamples < RechunkSamples
  <2>1. output = <<>> /\ pendingSamples < RechunkSamples
    BY <1>4 DEF RechunkInv, RechunkControl
  <2>2. Len(output) = 0 /\ 0 + nextSample = nextSample
        /\ nextSample + 0 = nextSample /\ pendingSamples - 0 = pendingSamples
    BY <1>1, <2>1
  <2>3. FlattenSeq(parts) = Numbered(nextSample, pendingSamples)
    BY <1>1, <2>2
  <2>4. Rechunking!Returned = Numbered(0, nextSample)
    BY SameFlatten DEF Rechunking!Returned, SamplesOf, RechunkInv, RechunkOrder
  <2>5. Numbered(0, nextSample) \o Numbered(0 + nextSample, pendingSamples)
          = Numbered(0, nextSample + pendingSamples)
    BY <1>1, NumberedJoin
  <2>6. nextSample + pendingSamples = appended
    BY DEF RechunkInv, RechunkOrder
  <2>7. Numbered(0, appended) = [i \in 1..appended |-> i - 1]
    <3>1. \A i \in 1..appended : 0 + i - 1 = i - 1
      BY <1>1
    <3> QED
      BY <3>1 DEF Numbered
  <2>8. Rechunking!Returned \o Rechunking!FlattenSeq(parts) = [i \in 1..appended |-> i - 1]
    BY <2>2, <2>3, <2>4, <2>5, <2>6, <2>7, SameFlatten
  <2> QED
    BY <2>1, <2>8
<1>5. Rechunking!Resliced
  BY <1>4 DEF Rechunking!Resliced, RechunkInv, RechunkOrder
<1> QED
  BY <1>3, <1>5 DEF Recut, Rechunking!Recut

\* PCMRechunker returns every appended sample exactly once and in its order, in hops of
\* which each but a flushed one is full, whatever the sizes of chunks, hop and limit;
\* the loop of _take never looks for a part in an empty deque.
THEOREM HopsTileAppended == SequentialSpec => []Recut
<1>1. SequentialInit => RechunkInv
  BY RechunkInit DEF SequentialInit
<1>2. RechunkInv /\ [SequentialNext]_allVars => RechunkInv'
  <2> SUFFICES ASSUME RechunkInv, [SequentialNext]_allVars PROVE RechunkInv'
    OBVIOUS
  <2>1. CASE Rechunking!Next
    BY <2>1, AppendChunkInv, TakeInv, CopyInv, HopTakenInv DEF Rechunking!Next
  <2>2. CASE UNCHANGED rechunkingVars
    BY <2>2 DEF rechunkingVars, RechunkInv, RechunkTypes, RechunkControl, RechunkOrder,
                Rechunking!Taking
  <2> QED
    BY <2>1, <2>2 DEF SequentialNext, Pipelines, Rechunks, Converts, Batches, Buffers, allVars
<1>3. RechunkInv => Recut
  BY RechunkGivesRecut
<1> QED
  BY <1>1, <1>2, <1>3, PTL DEF SequentialSpec

-----------------------------------------------------------------------------
(* Batching.  In the combined caches of a batch the rows of the stream at     *)
(* place i are row i, and of a recurrent cache the i-th block of RfFreq rows. *)

HopHeard == [stream : BatchStreams, number : Nat]
Heard == Seq(HopHeard)
CacheRow == [frequency : Nat, hops : Heard]
RowOf(i, f) == (i - 1) * RfFreq + f
OwnCaches(H) == [i \in 1..Len(H) |-> Batching!CachesAfter(H[i])]
HeardBy(rnn, H) ==
    /\ DOMAIN rnn = 1..(Len(H) * RfFreq)
    /\ \A i \in 1..Len(H), f \in 1..RfFreq : rnn[RowOf(i, f)] = [frequency |-> f, hops |-> H[i]]
\* A batch's caches whose i-th stream has absorbed the hops H[i].
Holds(c, H) ==
    /\ \A i \in 1..Len(H) : c.stft[i] = H[i] /\ c.istft[i] = H[i]
    /\ DOMAIN c.stft = 1..Len(H) /\ DOMAIN c.istft = 1..Len(H)
    /\ \A b \in 1..RnnBlocks : HeardBy(c.rnn[b], H)

LEMMA SameBatchFlatten == \A q : Batching!FlattenSeq(q) = FlattenSeq(q)
BY DEF FlattenSeq, Batching!FlattenSeq

\* In whose block a row is.
LEMMA RowOwner ==
    ASSUME NEW i \in Nat \ {0}, NEW f \in 1..RfFreq
    PROVE  RowOf(i, f) \in Nat /\ (RowOf(i, f) - 1) \div RfFreq + 1 = i
<1>1. RfFreq \in Nat \ {0}
  BY SequentialAssumption
<1>2. PICK c, d : c = i - 1 /\ d = f - 1
  OBVIOUS
<1>3. c \in Nat /\ d \in 0..(RfFreq - 1) /\ c + 1 = i
  BY <1>1, <1>2
<1>4. (c * RfFreq + d) \div RfFreq = c
  BY <1>1, <1>3, DivideBlock
<1>5. c * RfFreq \in Nat
  BY <1>1, <1>3
<1>6. RowOf(i, f) = c * RfFreq + f /\ RowOf(i, f) - 1 = c * RfFreq + d /\ RowOf(i, f) \in Nat
  BY <1>1, <1>2, <1>3, <1>5 DEF RowOf
<1> QED
  BY <1>3, <1>4, <1>6

LEMMA RowInside ==
    ASSUME NEW n \in Nat, NEW i \in 1..n, NEW f \in 1..RfFreq
    PROVE  RowOf(i, f) \in 1..(n * RfFreq)
<1>1. RfFreq \in Nat \ {0}
  BY SequentialAssumption
<1>2. PICK c : c = i - 1
  OBVIOUS
<1>3. c \in Nat /\ i = c + 1 /\ i \in Nat /\ i <= n
  BY <1>2
<1>4. i * RfFreq \in Nat /\ n * RfFreq \in Nat /\ i * RfFreq <= n * RfFreq
  BY <1>1, <1>3, TimesMonotone
<1>5. c * RfFreq \in Nat /\ i * RfFreq = c * RfFreq + RfFreq
  BY <1>1, <1>3
<1>6. RowOf(i, f) = c * RfFreq + f
  BY <1>2 DEF RowOf
<1> QED
  BY <1>1, <1>4, <1>5, <1>6

\* combine_stream_caches puts the blocks of the streams one behind the other.
LEMMA CombinedHolds ==
    ASSUME NEW H \in Seq(Heard)
    PROVE  Holds(Batching!Combined(OwnCaches(H)), H)
<1> DEFINE n == Len(H)
           own == OwnCaches(H)
           signals == [i \in 1..n |-> <<H[i]>>]
           blocks == [i \in 1..n |-> [f \in 1..RfFreq |-> [frequency |-> f, hops |-> H[i]]]]
           c == Batching!Combined(own)
<1>1. /\ n \in Nat /\ RfFreq \in Nat \ {0} /\ DOMAIN own = 1..n
      /\ \A i \in 1..n : H[i] \in Heard
  BY SequentialAssumption DEF OwnCaches
<1>2. /\ [i \in DOMAIN own |-> own[i].stft] = signals
      /\ [i \in DOMAIN own |-> own[i].istft] = signals
      /\ \A b \in 1..RnnBlocks : [i \in DOMAIN own |-> own[i].rnn[b]] = blocks
  BY DEF OwnCaches, Batching!CachesAfter
<1>3. /\ c.stft = FlattenSeq(signals) /\ c.istft = FlattenSeq(signals)
      /\ \A b \in 1..RnnBlocks : c.rnn[b] = FlattenSeq(blocks)
  <2> HIDE DEF own, signals, blocks
  <2> QED
    BY <1>2, SameBatchFlatten DEF Batching!Combined
<1> HIDE DEF own, c
<1>4. /\ DOMAIN FlattenSeq(signals) = 1..n
      /\ \A i \in 1..n : FlattenSeq(signals)[i] = H[i]
  <2> DEFINE L == Seq(Heard)
  <2>1. \A i \in 1..n : <<H[i]>> \in L
    BY <1>1
  <2>2. /\ signals \in Seq(L) /\ Len(signals) = n /\ Lists(L)
        /\ \A i \in 1..n : Len(signals[i]) = 1 /\ signals[i][1] = H[i]
    BY <1>1, <2>1 DEF Lists
  <2> HIDE DEF signals, L
  <2>3. FlattenSeq(signals) \in L
    BY <2>2, FlattenType
  <2>4. Blockwise(FlattenSeq(signals), signals, 1)
    <3>1. 1 \in Nat /\ EachLong(signals, 1)
      BY <2>2 DEF EachLong
    <3> QED
      BY <2>2, <3>1, FlattenBlocks
  <2>5. n * 1 = n
    BY <1>1
  <2>6. DOMAIN FlattenSeq(signals) = 1..n
    BY <2>2, <2>3, <2>4, <2>5 DEF L, Blockwise
  <2>7. ASSUME NEW i \in 1..n PROVE FlattenSeq(signals)[i] = H[i]
    <3>1. (i - 1) * 1 + 1 = i /\ 1 \in 1..1
      OBVIOUS
    <3> QED
      BY <2>2, <2>4, <3>1 DEF Blockwise
  <2> QED
    BY <2>6, <2>7
<1>5. HeardBy(FlattenSeq(blocks), H)
  <2> DEFINE L == Seq(CacheRow)
             block(i) == [f \in 1..RfFreq |-> [frequency |-> f, hops |-> H[i]]]
  <2>1. ASSUME NEW i \in 1..n
        PROVE  block(i) \in L /\ Len(block(i)) = RfFreq
    <3>1. \A f \in 1..RfFreq : [frequency |-> f, hops |-> H[i]] \in CacheRow
      BY <1>1 DEF CacheRow
    <3> QED
      BY <1>1, <3>1
  <2>2. blocks = [i \in 1..n |-> block(i)]
    OBVIOUS
  <2>3. \A i \in 1..n, f \in 1..RfFreq : block(i)[f] = [frequency |-> f, hops |-> H[i]]
    OBVIOUS
  <2> HIDE DEF blocks, block
  <2>4. /\ blocks \in Seq(L) /\ Len(blocks) = n
        /\ \A i \in 1..n : Len(blocks[i]) = RfFreq
        /\ \A i \in 1..n, f \in 1..RfFreq : blocks[i][f] = [frequency |-> f, hops |-> H[i]]
    <3> HIDE DEF L
    <3> QED
      BY <1>1, <2>1, <2>2, <2>3
  <2>5. Lists(L)
    BY DEF Lists
  <2> HIDE DEF L
  <2>6. FlattenSeq(blocks) \in L
    BY <2>4, <2>5, FlattenType
  <2>7. RfFreq \in Nat /\ EachLong(blocks, RfFreq)
    BY <1>1, <2>4 DEF EachLong
  <2>8. Blockwise(FlattenSeq(blocks), blocks, RfFreq)
    BY <2>4, <2>5, <2>7, FlattenBlocks
  <2>9. DOMAIN FlattenSeq(blocks) = 1..(n * RfFreq)
    BY <2>4, <2>6, <2>8 DEF L, Blockwise
  <2>10. ASSUME NEW i \in 1..n, NEW f \in 1..RfFreq
         PROVE  FlattenSeq(blocks)[RowOf(i, f)] = [frequency |-> f, hops |-> H[i]]
    BY <2>4, <2>8 DEF Blockwise, RowOf
  <2> QED
    BY <2>9, <2>10 DEF HeardBy
<1> QED
  BY <1>3, <1>4, <1>5 DEF Holds, own, c

\* The network gives each row the next hop of its stream.
LEMMA AbsorbedHolds ==
    ASSUME NEW H \in Seq(Heard), NEW given \in Seq(HopHeard), Len(given) = Len(H),
           NEW c, Holds(c, H)
    PROVE  Holds(Batching!Absorbed(c, given), [i \in 1..Len(H) |-> Append(H[i], given[i])])
<1> DEFINE n == Len(H)
           G == [i \in 1..n |-> Append(H[i], given[i])]
           u == Batching!Absorbed(c, given)
           Owner(row) == (row - 1) \div RfFreq + 1
<1>1. n \in Nat /\ RfFreq \in Nat \ {0} /\ DOMAIN given = 1..n /\ Len(G) = n
  BY SequentialAssumption
<1>2. /\ u.stft = [i \in DOMAIN given |-> Append(c.stft[i], given[i])]
      /\ u.istft = [i \in DOMAIN given |-> Append(c.istft[i], given[i])]
      /\ \A b \in 1..RnnBlocks :
           u.rnn[b] = [row \in DOMAIN c.rnn[b] |->
                         [c.rnn[b][row] EXCEPT !.hops = Append(@, given[Owner(row)])]]
  BY DEF Batching!Absorbed
<1>3. \A i \in 1..n : G[i] = Append(H[i], given[i])
  OBVIOUS
<1> HIDE DEF u, G
<1>4. /\ \A i \in 1..n : u.stft[i] = G[i] /\ u.istft[i] = G[i]
      /\ DOMAIN u.stft = 1..n /\ DOMAIN u.istft = 1..n
  BY <1>1, <1>2, <1>3 DEF Holds
<1>5. ASSUME NEW b \in 1..RnnBlocks PROVE HeardBy(u.rnn[b], G)
  <2>1. HeardBy(c.rnn[b], H)
    BY DEF Holds
  <2>2. DOMAIN u.rnn[b] = 1..(Len(G) * RfFreq)
    BY <1>1, <1>2, <2>1 DEF HeardBy
  <2>3. ASSUME NEW i \in 1..n, NEW f \in 1..RfFreq
        PROVE  u.rnn[b][RowOf(i, f)] = [frequency |-> f, hops |-> G[i]]
    <3>1. PICK row : row = RowOf(i, f)
      OBVIOUS
    <3>2. row \in DOMAIN c.rnn[b]
      BY <1>1, <2>1, <3>1, RowInside DEF HeardBy
    <3>3. c.rnn[b][row] = [frequency |-> f, hops |-> H[i]]
      BY <2>1, <3>1 DEF HeardBy
    <3>4. Owner(row) = i
      BY <3>1, RowOwner
    <3> HIDE DEF Owner
    <3>5. u.rnn[b][row] = [c.rnn[b][row] EXCEPT !.hops = Append(@, given[i])]
      BY <1>2, <3>2, <3>4
    <3>6. u.rnn[b][row] = [frequency |-> f, hops |-> Append(H[i], given[i])]
      <4>1. PICK x, r : x = given[i] /\ r = c.rnn[b][row]
        OBVIOUS
      <4>2. r = [frequency |-> f, hops |-> H[i]]
        BY <3>3, <4>1
      <4>3. PICK longer : longer = Append(r.hops, x)
        OBVIOUS
      <4>4. longer = Append(H[i], x) /\ r.hops = H[i]
        BY <4>2, <4>3
      <4>5. [r EXCEPT !.hops = longer] = [frequency |-> f, hops |-> longer]
        BY <4>2
      <4> QED
        BY <3>5, <4>1, <4>3, <4>4, <4>5
    <3> QED
      BY <1>3, <3>1, <3>6
  <2> QED
    BY <1>1, <2>2, <2>3 DEF HeardBy
<1> QED
  BY <1>1, <1>4, <1>5 DEF Holds, u, G

\* A part of a list that holds the elements of another is that list.
Found(t, a, r) == \A f \in 1..Len(r) : t[a + f] = r[f]

LEMMA PartFound ==
    ASSUME NEW S, NEW r \in Seq(S), NEW t, NEW a \in Nat, Found(t, a, r)
    PROVE  SubSeq(t, a + 1, a + Len(r)) = r
<1> DEFINE k == Len(r)
<1>1. k \in Nat
  OBVIOUS
<1> HIDE DEF k
<1>2. PICK m, n : m = a + 1 /\ n = a + k
  OBVIOUS
<1>3. m \in Int /\ n \in Int /\ n - m + 1 = k /\ (m <= n <=> k # 0)
  BY <1>1, <1>2
<1>4. ASSUME NEW j \in m..n PROVE t[j] \in S
  <2>1. PICK f : f = j - a
    OBVIOUS
  <2>2. f \in 1..k /\ a + f = j
    BY <1>1, <1>2, <1>3, <2>1
  <2>3. t[j] = r[f] /\ r[f] \in S
    BY <2>2 DEF Found, k
  <2> QED
    BY <2>3
<1>5. /\ SubSeq(t, m, n) \in Seq(S)
      /\ Len(SubSeq(t, m, n)) = IF m <= n THEN n - m + 1 ELSE 0
      /\ \A i \in 1..(n - m + 1) : SubSeq(t, m, n)[i] = t[m + i - 1]
  BY <1>3, <1>4, SubSeqProperties
<1> DEFINE part == SubSeq(t, m, n)
<1>6. part \in Seq(S) /\ Len(part) = k
  BY <1>1, <1>3, <1>5
<1>7. ASSUME NEW f \in 1..k PROVE part[f] = r[f]
  <2>1. m + f - 1 = a + f
    BY <1>1, <1>2
  <2> QED
    BY <1>3, <1>5, <2>1 DEF Found, k
<1> HIDE DEF part
<1>8. part = r
  BY <1>1, <1>6, <1>7, SeqEqual DEF k
<1> QED
  BY <1>2, <1>8 DEF part, k

\* split_stream_caches gives each stream its row and its block.
LEMMA SplitOwn ==
    ASSUME NEW G \in Seq(Heard), NEW c, Holds(c, G)
    PROVE  Batching!Split(c, Len(G)) = OwnCaches(G)
<1> DEFINE block(i) == [f \in 1..RfFreq |-> [frequency |-> f, hops |-> G[i]]]
<1>1. RfFreq \in Nat \ {0} /\ Len(G) \in Nat /\ \A i \in 1..Len(G) : G[i] \in Heard
  BY SequentialAssumption
<1>2. ASSUME NEW i \in 1..Len(G), NEW s, \A j \in 1..Len(G) : s[j] = G[j]
      PROVE  SubSeq(s, i, i) = <<G[i]>>
  <2>1. PICK a : a = i - 1
    OBVIOUS
  <2>2. a \in Nat /\ a + 1 = i
    BY <2>1
  <2> DEFINE r == <<G[i]>>
  <2>3. r \in Seq(Heard) /\ Len(r) = 1 /\ r[1] = G[i]
    BY <1>1
  <2> HIDE DEF r
  <2>4. Found(s, a, r)
    BY <1>2, <2>2, <2>3 DEF Found
  <2>5. SubSeq(s, a + 1, a + Len(r)) = r
    BY <2>2, <2>3, <2>4, PartFound
  <2> QED
    BY <2>2, <2>3, <2>5 DEF r
<1>3. ASSUME NEW i \in 1..Len(G), NEW b \in 1..RnnBlocks
      PROVE  SubSeq(c.rnn[b], (i - 1) * RfFreq + 1, (i - 1) * RfFreq + RfFreq) = block(i)
  <2>1. PICK a : a = (i - 1) * RfFreq
    OBVIOUS
  <2>2. a \in Nat
    BY <1>1, <2>1
  <2>3. \A f \in 1..RfFreq : [frequency |-> f, hops |-> G[i]] \in CacheRow
    BY <1>1 DEF CacheRow
  <2> DEFINE r == block(i)
  <2>4. /\ r \in Seq(CacheRow) /\ Len(r) = RfFreq
        /\ \A f \in 1..RfFreq : r[f] = [frequency |-> f, hops |-> G[i]]
    BY <1>1, <2>3
  <2> HIDE DEF r
  <2>5. Found(c.rnn[b], a, r)
    BY <2>1, <2>4 DEF Found, Holds, HeardBy, RowOf
  <2>6. SubSeq(c.rnn[b], a + 1, a + Len(r)) = r
    BY <2>2, <2>4, <2>5, PartFound
  <2> QED
    BY <2>1, <2>4, <2>6 DEF r
<1>4. ASSUME NEW i \in 1..Len(G)
      PROVE  Batching!Split(c, Len(G))[i] = Batching!CachesAfter(G[i])
  <2>1. /\ SubSeq(c.stft, i, i) = <<G[i]>> /\ SubSeq(c.istft, i, i) = <<G[i]>>
    BY <1>2 DEF Holds
  <2>2. [b \in 1..RnnBlocks |->
           SubSeq(c.rnn[b], (i - 1) * RfFreq + 1, (i - 1) * RfFreq + RfFreq)]
        = [b \in 1..RnnBlocks |-> block(i)]
    BY <1>3
  <2> QED
    BY <2>1, <2>2 DEF Batching!Split, Batching!CachesAfter
<1> HIDE DEF block
<1>5. Batching!Split(c, Len(G)) = [i \in 1..Len(G) |-> Batching!Split(c, Len(G))[i]]
  BY DEF Batching!Split
<1> QED
  BY <1>4, <1>5 DEF OwnCaches

\* The audio of a stream is computed from its own rows.
LEMMA AudioOwn ==
    ASSUME NEW G \in Seq(Heard), NEW c, Holds(c, G), NEW i \in 1..Len(G)
    PROVE  Batching!AudioFrom(c, i) = Batching!ToSet(G[i])
<1> DEFINE rows == ((i - 1) * RfFreq + 1)..(i * RfFreq)
           heardThere(b, row) == Batching!ToSet(c.rnn[b][row].hops)
           recurrent == {heardThere(b, row) : b \in 1..RnnBlocks, row \in rows}
<1>1. RfFreq \in Nat \ {0}
  BY SequentialAssumption
<1>2. ASSUME NEW b \in 1..RnnBlocks, NEW row \in rows PROVE heardThere(b, row) = Batching!ToSet(G[i])
  <2>1. PICK a, f : a = (i - 1) * RfFreq /\ f = row - a
    OBVIOUS
  <2>2. a \in Nat /\ i * RfFreq = a + RfFreq
    BY <1>1, <2>1
  <2>3. f \in 1..RfFreq /\ row = a + f
    BY <1>1, <2>1, <2>2
  <2>4. row = RowOf(i, f)
    BY <2>1, <2>3 DEF RowOf
  <2>5. c.rnn[b][row] = [frequency |-> f, hops |-> G[i]]
    BY <2>3, <2>4 DEF Holds, HeardBy
  <2> QED
    BY <2>5
<1>3. c.stft[i] = G[i] /\ c.istft[i] = G[i]
  BY DEF Holds
<1>4. Batching!AudioFrom(c, i) = UNION {Batching!ToSet(c.stft[i]), Batching!ToSet(c.istft[i]), UNION recurrent}
  BY DEF Batching!AudioFrom
<1> HIDE DEF heardThere, rows
<1>5. UNION recurrent \subseteq Batching!ToSet(G[i])
  BY <1>2
<1> HIDE DEF recurrent
<1> QED
  BY <1>3, <1>4, <1>5

BatchingInv ==
    /\ heard \in [BatchStreams -> Heard]
    /\ BatchingIsTransparent

LEMMA BatchingInit == Batching!Init => BatchingInv
<1> SUFFICES ASSUME Batching!Init PROVE BatchingInv
  OBVIOUS
<1>1. <<>> \in Heard /\ Batching!ToSet(<<>>) = {}
  BY DEF Heard, Batching!ToSet
<1> QED
  BY <1>1 DEF Batching!Init, BatchingInv, BatchingIsTransparent,
              Batching!BatchingIsTransparent, Batching!CachesAreOwn, Batching!AudioIsOwn

\* The streams of a batch absorb one hop each, and no other stream anything.
LEMMA InferInv ==
    ASSUME BatchingInv, NEW batch \in Batching!Batches, Batching!InferBatch(batch)
    PROVE  BatchingInv'
<1> DEFINE H == [i \in DOMAIN batch |-> heard[batch[i]]]
           given == [i \in DOMAIN batch |-> Batching!Hop(batch[i], Len(heard[batch[i]]) + 1)]
           held == [i \in DOMAIN batch |-> batchCaches[batch[i]]]
           updated == Batching!Absorbed(Batching!Combined(held), given)
           Place(s) == CHOOSE i \in DOMAIN batch : batch[i] = s
           G == [i \in 1..Len(H) |-> Append(H[i], given[i])]
           among == Batching!ToSet(batch)
<1>1. batch \in Seq(BatchStreams)
  BY DEF Batching!Batches, Batching!SeqOf
<1>2. /\ heard \in [BatchStreams -> Heard]
      /\ \A s \in BatchStreams : batchCaches[s] = Batching!CachesAfter(heard[s])
      /\ \A s \in BatchStreams : batchOutput[s] = Batching!ToSet(heard[s])
  BY DEF BatchingInv, BatchingIsTransparent, Batching!BatchingIsTransparent,
         Batching!CachesAreOwn, Batching!AudioIsOwn
<1>3. /\ batchCaches' = [s \in BatchStreams |->
              IF s \in among THEN Batching!Split(updated, Len(batch))[Place(s)] ELSE batchCaches[s]]
      /\ batchOutput' = [s \in BatchStreams |->
              IF s \in among THEN Batching!AudioFrom(updated, Place(s)) ELSE batchOutput[s]]
      /\ heard' = [s \in BatchStreams |->
              IF s \in among THEN Append(heard[s], given[Place(s)]) ELSE heard[s]]
  BY DEF Batching!InferBatch
<1>4. /\ Len(batch) \in Nat /\ DOMAIN batch = 1..Len(batch)
      /\ \A i \in 1..Len(batch) : batch[i] \in BatchStreams /\ heard[batch[i]] \in Heard
  BY <1>1, <1>2
<1>5. H \in Seq(Heard) /\ Len(H) = Len(batch)
  BY <1>4
<1>6. given \in Seq(HopHeard) /\ Len(given) = Len(batch)
  <2>1. ASSUME NEW i \in 1..Len(batch)
        PROVE  Batching!Hop(batch[i], Len(heard[batch[i]]) + 1) \in HopHeard
    BY <1>4 DEF HopHeard, Heard, Batching!Hop
  <2> QED
    BY <1>4, <2>1
<1>7. held = OwnCaches(H)
  BY <1>2, <1>4, <1>5 DEF OwnCaches
<1>8. \A i \in 1..Len(batch) : H[i] = heard[batch[i]]
  BY <1>4
<1>9. ASSUME NEW s \in BatchStreams, s \in among
      PROVE  Place(s) \in 1..Len(batch) /\ batch[Place(s)] = s
  BY <1>4, <1>9 DEF Batching!ToSet
<1> HIDE DEF H, given, held, Place, among
<1>10. Holds(updated, G)
  <2>1. Holds(Batching!Combined(held), H)
    BY <1>5, <1>7, CombinedHolds
  <2>2. PICK c : c = Batching!Combined(held)
    OBVIOUS
  <2> QED
    BY <1>5, <1>6, <2>1, <2>2, AbsorbedHolds
<1>11. /\ G \in Seq(Heard) /\ Len(G) = Len(batch)
       /\ \A i \in 1..Len(batch) : G[i] = Append(heard[batch[i]], given[i]) /\ G[i] \in Heard
  <2>1. ASSUME NEW i \in 1..Len(batch)
        PROVE  Append(H[i], given[i]) \in Heard /\ H[i] = heard[batch[i]]
    <3>1. H[i] \in Heard /\ given[i] \in HopHeard
      BY <1>5, <1>6
    <3> QED
      BY <1>8, <3>1 DEF Heard
  <2> QED
    BY <1>4, <1>5, <2>1
<1> HIDE DEF G, updated
<1>12. ASSUME NEW s \in BatchStreams, s \in among
       PROVE  /\ heard'[s] = G[Place(s)] /\ G[Place(s)] \in Heard
              /\ batchCaches'[s] = Batching!CachesAfter(G[Place(s)])
              /\ batchOutput'[s] = Batching!ToSet(G[Place(s)])
  <2>1. PICK i : i = Place(s)
    OBVIOUS
  <2>2. i \in 1..Len(batch) /\ batch[i] = s
    BY <1>9, <1>12, <2>1
  <2>3. heard'[s] = G[i] /\ G[i] \in Heard
    BY <1>3, <1>11, <1>12, <2>1, <2>2
  <2>4. Batching!Split(updated, Len(batch))[i] = Batching!CachesAfter(G[i])
    <3>1. Batching!Split(updated, Len(batch)) = OwnCaches(G)
      BY <1>10, <1>11, SplitOwn
    <3> QED
      BY <1>11, <2>2, <3>1 DEF OwnCaches
  <2>5. Batching!AudioFrom(updated, i) = Batching!ToSet(G[i])
    BY <1>10, <1>11, <2>2, AudioOwn
  <2> QED
    BY <1>3, <1>12, <2>1, <2>3, <2>4, <2>5
<1>13. ASSUME NEW s \in BatchStreams, s \notin among
       PROVE  /\ heard'[s] = heard[s] /\ batchCaches'[s] = batchCaches[s]
              /\ batchOutput'[s] = batchOutput[s]
  BY <1>3, <1>13
<1>14. ASSUME NEW s \in BatchStreams
       PROVE  /\ heard'[s] \in Heard
              /\ batchCaches'[s] = Batching!CachesAfter(heard'[s])
              /\ batchOutput'[s] = Batching!ToSet(heard'[s])
  BY <1>2, <1>12, <1>13
<1>15. heard' \in [BatchStreams -> Heard]
  BY <1>3, <1>14
<1> QED
  BY <1>14, <1>15 DEF BatchingInv, BatchingIsTransparent, Batching!BatchingIsTransparent,
                      Batching!CachesAreOwn, Batching!AudioIsOwn

\* Batching is transparent: whatever batches its hops travelled in, in whatever company
\* and at whatever place, the caches and the audio of a stream are those of the stream
\* processed alone (model.py: combine_stream_caches, infer_batch, split_stream_caches).
THEOREM BatchesStayApart == SequentialSpec => []BatchingIsTransparent
<1>1. SequentialInit => BatchingInv
  BY BatchingInit DEF SequentialInit
<1>2. BatchingInv /\ [SequentialNext]_allVars => BatchingInv'
  <2> SUFFICES ASSUME BatchingInv, [SequentialNext]_allVars PROVE BatchingInv'
    OBVIOUS
  <2>1. CASE Batching!Next
    BY <2>1, InferInv DEF Batching!Next
  <2>2. CASE UNCHANGED batchingVars
    BY <2>2 DEF batchingVars, BatchingInv, BatchingIsTransparent,
                Batching!BatchingIsTransparent, Batching!CachesAreOwn, Batching!AudioIsOwn
  <2> QED
    BY <2>1, <2>2 DEF SequentialNext, Pipelines, Rechunks, Converts, Batches, Buffers, allVars
<1>3. BatchingInv => BatchingIsTransparent
  BY DEF BatchingInv
<1> QED
  BY <1>1, <1>2, <1>3, PTL DEF SequentialSpec

-----------------------------------------------------------------------------
(* The PCM conversions.  Numbers of two digits to the base Radix and the       *)
(* levels from -Full to Full - 1 name each other, in either order of digits.   *)

LEMMA RadixSquared ==
    /\ Radix \in Nat \ {0} /\ Fine \in Nat \ {0} /\ Excess \in Nat
    /\ Conversion!Full \in Nat \ {0} /\ 2 * Conversion!Full = Radix * Radix
<1>1. /\ Radix \in Nat \ {0} /\ Radix % 2 = 0 /\ Fine \in Nat \ {0} /\ Excess \in Nat
  BY SequentialAssumption
<1>2. PICK h \in Nat \ {0} : Radix = 2 * h
  BY <1>1
<1>3. PICK m : m = 2 * (h * h)
  OBVIOUS
<1>4. m \in Nat \ {0} /\ Radix * Radix = m * 2 + 0 /\ 2 * m = Radix * Radix
  <2>1. h * h \in Nat \ {0}
    OBVIOUS
  <2>2. (2 * h) * (2 * h) = 4 * (h * h)
    OBVIOUS
  <2> QED
    BY <1>2, <1>3, <2>1, <2>2
<1>5. (m * 2 + 0) \div 2 = m
  <2>1. m \in Int /\ 0 \in 0..(2 - 1) /\ 2 \in Nat \ {0}
    BY <1>4
  <2> QED
    BY <2>1, DivideBlock
<1>6. Conversion!Full = m
  BY <1>4, <1>5 DEF Conversion!Full
<1> QED
  BY <1>1, <1>4, <1>6

Digit == 0..(Radix - 1)
Level == (-Conversion!Full)..(Conversion!Full - 1)
TwoDigits == 0..(2 * Conversion!Full - 1)
Unsigned(p) == p % (2 * Conversion!Full)

\* Two digits make a number of two digits, and are its digits.
LEMMA DigitsOf ==
    ASSUME NEW low \in Digit, NEW high \in Digit
    PROVE  /\ low + Radix * high \in TwoDigits
           /\ (low + Radix * high) % Radix = low /\ (low + Radix * high) \div Radix = high
<1>1. low \in 0..(Radix - 1) /\ high \in Nat /\ high <= Radix - 1 /\ low \in Nat
  BY RadixSquared DEF Digit
<1>2. /\ Radix * high = high * Radix /\ Radix * high \in Nat
      /\ high * Radix + low = low + Radix * high
  BY <1>1, RadixSquared
<1>3. (high * Radix + low) \div Radix = high /\ (high * Radix + low) % Radix = low
  <2>1. Radix \in Nat \ {0} /\ high \in Int /\ low \in 0..(Radix - 1)
    BY <1>1, RadixSquared
  <2> QED
    BY ONLY <2>1, DivideBlock, RemainderOfBlock
<1>4. high * Radix <= (Radix - 1) * Radix
  BY <1>1, RadixSquared, TimesMonotone
<1>5. (Radix - 1) * Radix = Radix * Radix - Radix
  BY RadixSquared
<1>6. low + Radix * high < Radix * Radix
  BY <1>1, <1>2, <1>4, <1>5, RadixSquared
<1>7. PICK n : n = low + Radix * high
  OBVIOUS
<1>8. n \in Nat /\ n = high * Radix + low /\ n < 2 * Conversion!Full
  BY <1>1, <1>2, <1>6, <1>7, RadixSquared
<1>9. n \in TwoDigits
  BY <1>8, RadixSquared DEF TwoDigits
<1>10. n % Radix = low /\ n \div Radix = high
  BY <1>3, <1>8
<1> QED
  BY <1>7, <1>9, <1>10

\* A number of two digits has two digits, and is made of them.
LEMMA DigitsMake ==
    ASSUME NEW n \in TwoDigits
    PROVE  /\ n % Radix \in Digit /\ n \div Radix \in Digit
           /\ (n % Radix) + Radix * (n \div Radix) = n
<1>1. PICK low, high : low = n % Radix /\ high = n \div Radix
  OBVIOUS
<1>2. n \in Nat /\ n < Radix * Radix
  BY RadixSquared DEF TwoDigits
<1>3. low \in 0..(Radix - 1) /\ high \in Int /\ n = high * Radix + low
  BY <1>1, <1>2, RadixSquared
<1>4. high >= 0
  <2> SUFFICES ASSUME high < 0 PROVE FALSE
    BY <1>3
  <2>1. PICK e \in Nat \ {0} : high = -e
    BY <1>3
  <2>2. e * Radix >= Radix /\ high * Radix = -(e * Radix)
    BY <2>1, RadixSquared
  <2> QED
    BY <1>2, <1>3, <2>2, RadixSquared
<1>5. high <= Radix - 1
  <2> SUFFICES ASSUME high >= Radix PROVE FALSE
    BY <1>3, RadixSquared
  <2>1. Radix * Radix <= high * Radix /\ high * Radix \in Nat
    BY <1>3, <1>4, RadixSquared, TimesMonotone
  <2> QED
    BY <1>2, <1>3, <2>1, RadixSquared
<1>6. Radix * high = high * Radix
  BY <1>3, RadixSquared
<1> QED
  BY <1>1, <1>3, <1>4, <1>5, <1>6, RadixSquared DEF Digit

\* Two's complement, there and back.
LEMMA SignedLevel ==
    ASSUME NEW n \in TwoDigits
    PROVE  Conversion!Signed(n) \in Level /\ Unsigned(Conversion!Signed(n)) = n
<1> DEFINE F == Conversion!Full
<1>1. F \in Nat \ {0} /\ n \in Nat /\ n < 2 * F
  BY RadixSquared DEF TwoDigits
<1>2. PICK k : k = 2 * F
  OBVIOUS
<1>3. Conversion!Signed(n) = ((n + F) % k) - F /\ \A p : Unsigned(p) = p % k
  BY <1>2 DEF Conversion!Signed, Unsigned
<1>4. Level = (-F)..(F - 1)
  BY DEF Level
<1> HIDE DEF F
<1>5. k \in Nat \ {0}
  BY <1>1, <1>2
<1>6. CASE n < F
  <2>1. 0 * k + (n + F) = n + F /\ n + F \in 0..(k - 1) /\ 0 * k + n = n /\ n \in 0..(k - 1)
    BY <1>1, <1>2, <1>6
  <2>2. (0 * k + (n + F)) % k = n + F /\ (0 * k + n) % k = n
    BY <1>5, <2>1, RemainderOfBlock
  <2> QED
    BY <1>1, <1>3, <1>4, <1>6, <2>1, <2>2
<1>7. CASE n >= F
  <2>1. PICK d : d = n - F
    OBVIOUS
  <2>2. /\ 1 * k + d = n + F /\ d \in 0..(k - 1)
        /\ (-1) * k + n = d - F /\ n \in 0..(k - 1) /\ d <= F - 1 /\ d \in Nat
    BY <1>1, <1>2, <1>7, <2>1
  <2>3. (1 * k + d) % k = d /\ ((-1) * k + n) % k = n
    BY <1>5, <2>2, RemainderOfBlock
  <2>4. Conversion!Signed(n) = d - F
    BY <1>3, <2>2, <2>3
  <2>5. Unsigned(d - F) = n
    BY <1>3, <2>2, <2>3
  <2>6. d - F \in (-F)..(F - 1)
    BY <1>1, <2>2
  <2> QED
    BY <1>4, <2>4, <2>5, <2>6
<1> QED
  BY <1>1, <1>6, <1>7

LEMMA UnsignedLevel ==
    ASSUME NEW p \in Level
    PROVE  /\ Unsigned(p) \in TwoDigits
           /\ Conversion!Signed(p) = p /\ Conversion!Signed(Unsigned(p)) = p
<1> DEFINE F == Conversion!Full
<1>1. F \in Nat \ {0} /\ p \in Int /\ -F <= p /\ p <= F - 1
  BY RadixSquared DEF Level
<1>2. PICK k : k = 2 * F
  OBVIOUS
<1>3. (\A n : Conversion!Signed(n) = ((n + F) % k) - F) /\ Unsigned(p) = p % k
  BY <1>2 DEF Conversion!Signed, Unsigned
<1>4. TwoDigits = 0..(k - 1)
  BY <1>2 DEF TwoDigits
<1> HIDE DEF F
<1>5. k \in Nat \ {0}
  BY <1>1, <1>2
<1>6. Conversion!Signed(p) = p
  <2>1. PICK d : d = p + F
    OBVIOUS
  <2>2. 0 * k + d = d /\ d \in 0..(k - 1)
    BY <1>1, <1>2, <2>1
  <2>3. (0 * k + d) % k = d
    BY <1>5, <2>2, RemainderOfBlock
  <2>4. Conversion!Signed(p) = d - F
    BY <1>3, <2>1, <2>2, <2>3
  <2> QED
    BY <1>1, <2>1, <2>4
<1>7. CASE p >= 0
  <2>1. 0 * k + p = p /\ p \in 0..(k - 1)
    BY <1>1, <1>2, <1>7
  <2>2. (0 * k + p) % k = p
    BY <1>5, <2>1, RemainderOfBlock
  <2> QED
    BY <1>3, <1>4, <1>6, <2>1, <2>2
<1>8. CASE p < 0
  <2>1. PICK n : n = p + k
    OBVIOUS
  <2>2. (-1) * k + n = p /\ n \in 0..(k - 1)
    BY <1>1, <1>2, <1>8, <2>1
  <2>3. ((-1) * k + n) % k = n
    BY <1>5, <2>2, RemainderOfBlock
  <2>4. PICK d : d = p + F
    OBVIOUS
  <2>5. 1 * k + d = n + F /\ d \in 0..(k - 1) /\ d - F = p
    BY <1>1, <1>2, <1>8, <2>1, <2>4
  <2>6. (1 * k + d) % k = d
    BY <1>5, <2>5, RemainderOfBlock
  <2>7. Conversion!Signed(n) = p
    BY <1>3, <2>5, <2>6
  <2>8. Unsigned(p) = n
    BY <1>3, <2>2, <2>3
  <2> QED
    BY <1>4, <1>6, <2>2, <2>7, <2>8
<1> QED
  BY <1>1, <1>7, <1>8

\* Bytes in the order of the wire, whatever the host.
WireBytes(p) == <<Unsigned(p) % Radix, Unsigned(p) \div Radix>>

\* A sample read from the wire is swapped into what the wire says.
LEMMA SwappedFromWire ==
    ASSUME NEW low \in Digit, NEW high \in Digit
    PROVE  Conversion!Swapped(Conversion!Native(low, high))
             = Conversion!Signed(low + Radix * high)
<1>1. CASE host = "little"
  BY <1>1 DEF Conversion!Swapped, Conversion!Native
<1>2. CASE host # "little"
  <2>1. PICK n : n = high + Radix * low
    OBVIOUS
  <2>2. n \in TwoDigits /\ n % Radix = high /\ n \div Radix = low
    BY <2>1, DigitsOf
  <2>3. PICK p : p = Conversion!Signed(n)
    OBVIOUS
  <2>4. Unsigned(p) = n
    BY <2>2, <2>3, SignedLevel
  <2>5. Conversion!Native(low, high) = p
    BY <1>2, <2>1, <2>3 DEF Conversion!Native
  <2>6. Conversion!NativeBytes(p) = <<low, high>>
    BY <1>2, <2>2, <2>4 DEF Conversion!NativeBytes, Unsigned
  <2>7. Conversion!Swapped(p) = Conversion!Native(high, low)
    BY <1>2, <2>6 DEF Conversion!Swapped
  <2> QED
    BY <1>2, <2>5, <2>7 DEF Conversion!Native
<1> QED
  BY <1>1, <1>2

\* A level swapped and written is in the order of the wire.
LEMMA SwappedToWire ==
    ASSUME NEW p \in Level
    PROVE  Conversion!NativeBytes(Conversion!Swapped(p)) = WireBytes(p)
<1>1. CASE host = "little"
  BY <1>1 DEF Conversion!Swapped, Conversion!NativeBytes, WireBytes, Unsigned
<1>2. CASE host # "little"
  <2>1. PICK low, high : low = Unsigned(p) % Radix /\ high = Unsigned(p) \div Radix
    OBVIOUS
  <2>2. low \in Digit /\ high \in Digit
    BY <2>1, UnsignedLevel, DigitsMake
  <2>3. Conversion!NativeBytes(p) = <<high, low>>
    BY <1>2, <2>1 DEF Conversion!NativeBytes, Unsigned
  <2>4. Conversion!Swapped(p) = Conversion!Native(low, high)
    BY <1>2, <2>3 DEF Conversion!Swapped
  <2>5. PICK m : m = high + Radix * low
    OBVIOUS
  <2>6. m \in TwoDigits /\ m % Radix = high /\ m \div Radix = low
    BY <2>2, <2>5, DigitsOf
  <2>7. Conversion!Swapped(p) = Conversion!Signed(m)
    BY <1>2, <2>4, <2>5 DEF Conversion!Native
  <2>8. Unsigned(Conversion!Swapped(p)) = m
    BY <2>6, <2>7, SignedLevel
  <2>9. Conversion!NativeBytes(Conversion!Swapped(p)) = <<low, high>>
    BY <1>2, <2>6, <2>8 DEF Conversion!NativeBytes, Unsigned
  <2> QED
    BY <2>1, <2>9 DEF WireBytes
<1> QED
  BY <1>1, <1>2

LEMMA WireBytesMean ==
    ASSUME NEW p \in Level
    PROVE  /\ WireBytes(p) \in Seq(Nat) /\ Len(WireBytes(p)) = 2
           /\ Conversion!Signed(WireBytes(p)[1] + Radix * WireBytes(p)[2]) = p
<1>1. PICK low, high : low = Unsigned(p) % Radix /\ high = Unsigned(p) \div Radix
  OBVIOUS
<1>2. low \in Digit /\ high \in Digit /\ low + Radix * high = Unsigned(p)
  BY <1>1, UnsignedLevel, DigitsMake
<1>3. WireBytes(p) = <<low, high>> /\ low \in Nat /\ high \in Nat
  BY <1>1, <1>2 DEF WireBytes, Digit
<1> QED
  BY <1>2, <1>3, UnsignedLevel

LEMMA ProductsOrdered ==
    ASSUME NEW a \in Int, NEW b \in Int, a <= b, NEW k \in Nat
    PROVE  a * k \in Int /\ b * k \in Int /\ a * k <= b * k
<1>1. PICK c \in Nat : b = a + c
  OBVIOUS
<1>2. a * k \in Int /\ c * k \in Nat /\ (a + c) * k = a * k + c * k
  OBVIOUS
<1> QED
  BY <1>1, <1>2

\* No multiple lies between one and the next.
LEMMA MultiplesApart ==
    ASSUME NEW a \in Int, NEW b \in Int, NEW k \in Nat
    PROVE  a * k <= b * k \/ a * k >= b * k + k
<1>1. CASE a <= b
  BY <1>1, ProductsOrdered
<1>2. CASE a >= b + 1
  <2>1. PICK c : c = b + 1
    OBVIOUS
  <2>2. c \in Int /\ c <= a
    BY <1>2, <2>1
  <2>3. c * k <= a * k
    BY <2>2, ProductsOrdered
  <2>4. (b + 1) * k = b * k + k
    OBVIOUS
  <2> QED
    BY <2>1, <2>3, <2>4
<1> QED
  BY <1>1, <1>2

\* Rounding gives the nearest level, clamping the nearest in range.
LEMMA RoundedNearest ==
    ASSUME NEW v \in Int
    PROVE  LET l == Conversion!Rounded(Conversion!Clamped(v)) IN
           /\ l \in Level
           /\ \A p \in Level : Conversion!Distance(v, Fine * l) <= Conversion!Distance(v, Fine * p)
<1> DEFINE F == Conversion!Full
<1>1. F \in Nat \ {0} /\ Fine \in Nat \ {0}
  BY RadixSquared
<1>2. PICK w : w = Conversion!Clamped(v)
  OBVIOUS
<1>3. PICK q, r : q = w \div Fine /\ r = w % Fine
  OBVIOUS
<1>4. PICK l : l = Conversion!Rounded(w)
  OBVIOUS
<1>5. Level = (-F)..(F - 1)
  BY DEF Level
<1>6. w = IF v < -F * Fine THEN -F * Fine ELSE IF v > (F - 1) * Fine THEN (F - 1) * Fine ELSE v
  BY <1>2 DEF Conversion!Clamped
<1> HIDE DEF F
<1>7. w \in Int /\ (-F) * Fine <= w /\ w <= (F - 1) * Fine
  <2>1. F * Fine \in Nat /\ (F - 1) * Fine \in Nat /\ (-F) * Fine = -(F * Fine)
    BY <1>1
  <2>2. -F * Fine = -(F * Fine)
    BY <1>1
  <2>3. PICK a, b : a = -F * Fine /\ b = (F - 1) * Fine
    OBVIOUS
  <2>4. a \in Int /\ b \in Int /\ a <= b
    BY <2>1, <2>2, <2>3
  <2> QED
    BY <1>6, <2>1, <2>2, <2>3, <2>4
<1>8. q \in Int /\ r \in 0..(Fine - 1) /\ w = q * Fine + r
  BY <1>1, <1>3, <1>7
<1>9. \/ l = q /\ 2 * r <= Fine
      \/ l = q + 1 /\ 2 * r >= Fine
  <2>1. l = IF 2 * r < Fine \/ (2 * r = Fine /\ q % 2 = 0) THEN q ELSE q + 1
    BY <1>3, <1>4 DEF Conversion!Rounded
  <2>2. r \in Int /\ Fine \in Int
    BY <1>1, <1>8
  <2> QED
    BY <2>1, <2>2
<1>10. -F <= q
  <2> SUFFICES ASSUME q < -F PROVE FALSE
    BY <1>1, <1>8
  <2>1. PICK e \in Nat \ {0} : -F = q + e
    BY <1>1, <1>8
  <2>2. (q + e) * Fine = q * Fine + e * Fine /\ e * Fine >= Fine /\ q * Fine \in Int
    BY <1>1, <1>8
  <2> QED
    BY <1>1, <1>7, <1>8, <2>1, <2>2
<1>11. q <= F - 1
  <2> SUFFICES ASSUME q > F - 1 PROVE FALSE
    BY <1>1, <1>8
  <2>1. PICK e \in Nat \ {0} : q = (F - 1) + e
    BY <1>1, <1>8
  <2>2. ((F - 1) + e) * Fine = (F - 1) * Fine + e * Fine /\ e * Fine >= Fine /\ (F - 1) * Fine \in Int
    BY <1>1, <1>8
  <2> QED
    BY <1>1, <1>7, <1>8, <2>1, <2>2
<1>12. q = F - 1 => r = 0
  <2>1. (F - 1) * Fine \in Int
    BY <1>1
  <2> QED
    BY <1>1, <1>7, <1>8, <2>1
<1>13. l \in Int /\ -F <= l /\ l <= F - 1
  BY <1>1, <1>8, <1>9, <1>10, <1>11, <1>12
<1>14. PICK a, b, m, y : a = (-F) * Fine /\ b = (F - 1) * Fine /\ m = q * Fine /\ y = l * Fine
  OBVIOUS
<1>15. /\ a \in Int /\ b \in Int /\ m \in Int /\ y \in Int /\ v \in Int /\ a <= m
       /\ -F * Fine = a
  BY <1>1, <1>8, <1>10, <1>13, <1>14, ProductsOrdered
<1>16. w = (IF v < a THEN a ELSE IF v > b THEN b ELSE v) /\ w = m + r
  BY <1>6, <1>8, <1>14, <1>15
<1>17. \/ y = m /\ 2 * r <= Fine
       \/ y = m + Fine /\ 2 * r >= Fine
  <2>1. (q + 1) * Fine = q * Fine + Fine
    BY <1>1, <1>8
  <2> QED
    BY <1>9, <1>14, <2>1
<1>18. b <= m \/ b >= m + Fine
  BY <1>1, <1>8, <1>14, MultiplesApart
<1>19. ASSUME NEW p \in Level
       PROVE  Conversion!Distance(v, Fine * l) <= Conversion!Distance(v, Fine * p)
  <2>1. p \in Int /\ -F <= p /\ p <= F - 1
    BY <1>1, <1>5
  <2>2. PICK x : x = p * Fine
    OBVIOUS
  <2>3. x \in Int /\ a <= x /\ x <= b
    BY <1>1, <1>14, <2>1, <2>2, ProductsOrdered
  <2>4. x <= m \/ x >= m + Fine
    BY <1>1, <1>8, <1>14, <2>1, <2>2, MultiplesApart
  <2>5. Fine * l = y /\ Fine * p = x
    BY <1>1, <1>13, <1>14, <2>1, <2>2
  <2>6. Conversion!Distance(v, y) <= Conversion!Distance(v, x)
    BY <1>1, <1>8, <1>15, <1>16, <1>17, <1>18, <2>3, <2>4 DEF Conversion!Distance
  <2> QED
    BY <2>5, <2>6
<1> QED
  BY <1>2, <1>4, <1>5, <1>13, <1>19

Waves == Seq(Int)
ConversionInv ==
    /\ wave \in Waves
    /\ chunk # <<>> => \A i \in DOMAIN wave : wave[i] = Fine * Conversion!OnWire(chunk, i)
    /\ NearestLevel

\* What is decoded is the signed value of each pair of bytes.
LEMMA DecodeInv ==
    ASSUME NEW n \in Nat, NEW pcm \in [1..n -> Conversion!Byte], Conversion!Decode(pcm)
    PROVE  ConversionInv'
<1>1. /\ pcm \in Seq(Digit) /\ Len(pcm) \in Nat /\ DOMAIN pcm = 1..Len(pcm)
      /\ \A i \in 1..Len(pcm) : pcm[i] \in Digit
  <2>1. pcm \in [1..n -> Digit]
    BY DEF Conversion!Byte, Digit
  <2> QED
    BY <2>1
<1>2. PICK m : m = Len(pcm) \div 2
  OBVIOUS
<1>3. m \in Nat /\ 2 * m <= Len(pcm)
  <2>1. PICK k, r : k = Len(pcm) /\ r = k % 2
    OBVIOUS
  <2>2. k \in Nat /\ m = k \div 2
    BY <1>1, <1>2, <2>1
  <2>3. m \in Int /\ r \in 0..1 /\ k = m * 2 + r
    BY <2>1, <2>2
  <2> QED
    BY <2>1, <2>2, <2>3
<1>4. /\ wave' = [i \in 1..m |-> Fine * Conversion!Swapped(Conversion!Native(pcm[2 * i - 1], pcm[2 * i]))]
      /\ chunk' = pcm /\ reply' = <<>>
  BY <1>2 DEF Conversion!Decode, Conversion!Decoded
<1>5. ASSUME NEW i \in 1..m
      PROVE  wave'[i] = Fine * Conversion!OnWire(chunk', i) /\ wave'[i] \in Int
  <2>1. PICK low, high : low = pcm[2 * i - 1] /\ high = pcm[2 * i]
    OBVIOUS
  <2>2. 2 * i - 1 \in 1..Len(pcm) /\ 2 * i \in 1..Len(pcm)
    BY <1>1, <1>3
  <2>3. low \in Digit /\ high \in Digit
    BY <1>1, <2>1, <2>2
  <2>4. PICK s : s = Conversion!Signed(low + Radix * high)
    OBVIOUS
  <2>5. Conversion!Swapped(Conversion!Native(low, high)) = s
    BY <2>3, <2>4, SwappedFromWire
  <2>6. s \in Int
    BY <2>3, <2>4, DigitsOf, SignedLevel, RadixSquared DEF Level
  <2>7. Conversion!OnWire(chunk', i) = s
    BY <1>4, <2>1, <2>4 DEF Conversion!OnWire
  <2>8. wave'[i] = Fine * s
    BY <1>4, <2>1, <2>5
  <2> QED
    BY <2>6, <2>7, <2>8, RadixSquared
<1>6. wave' = [i \in 1..m |-> wave'[i]]
  BY <1>4
<1>7. wave' \in Waves /\ DOMAIN wave' = 1..m
  BY <1>3, <1>5, <1>6 DEF Waves
<1>8. NearestLevel'
  BY <1>4 DEF NearestLevel, Conversion!NearestLevel
<1> QED
  BY <1>5, <1>7, <1>8 DEF ConversionInv

\* What is returned has two bytes for each sample, which mean the nearest level.
LEMMA EncodeInv ==
    ASSUME ConversionInv, Conversion!Encode
    PROVE  ConversionInv'
<1> DEFINE n == Len(wave)
           level(i) == Conversion!Rounded(Conversion!Clamped(wave[i]))
           pairs == [i \in 1..n |-> WireBytes(level(i))]
           Bytes == Seq(Nat)
<1>1. /\ wave \in Waves /\ reply' = Conversion!Encoded(wave)
      /\ UNCHANGED <<host, chunk, wave>>
  BY DEF ConversionInv, Conversion!Encode
<1>2. n \in Nat /\ DOMAIN wave = 1..n /\ \A i \in 1..n : wave[i] \in Int
  BY <1>1 DEF Waves
<1>3. ASSUME NEW i \in 1..n
      PROVE  /\ level(i) \in Level
             /\ \A p \in Level : Conversion!Distance(wave[i], Fine * level(i))
                                   <= Conversion!Distance(wave[i], Fine * p)
  BY <1>2, RoundedNearest
<1> HIDE DEF level
<1>4. ASSUME NEW i \in 1..n
      PROVE  /\ WireBytes(level(i)) \in Bytes /\ Len(WireBytes(level(i))) = 2
             /\ Conversion!Signed(WireBytes(level(i))[1] + Radix * WireBytes(level(i))[2]) = level(i)
             /\ Conversion!NativeBytes(Conversion!Swapped(Conversion!Signed(level(i))))
                  = WireBytes(level(i))
  BY <1>3, WireBytesMean, UnsignedLevel, SwappedToWire
<1>5. reply' = FlattenSeq(pairs)
  <2>1. [i \in DOMAIN wave |->
           Conversion!NativeBytes(Conversion!Swapped(Conversion!Signed(
             Conversion!Rounded(Conversion!Clamped(wave[i])))))]
        = pairs
    BY <1>2, <1>4 DEF level
  <2>2. \A q : Conversion!FlattenSeq(q) = FlattenSeq(q)
    BY DEF FlattenSeq, Conversion!FlattenSeq
  <2> HIDE DEF pairs
  <2> QED
    BY <1>1, <2>1, <2>2 DEF Conversion!Encoded
<1>6. /\ pairs \in Seq(Bytes) /\ Len(pairs) = n
      /\ \A i \in 1..n : pairs[i] = WireBytes(level(i)) /\ Len(pairs[i]) = 2
  <2> HIDE DEF Bytes
  <2> QED
    BY <1>2, <1>4
<1> HIDE DEF pairs
<1>7. Blockwise(FlattenSeq(pairs), pairs, 2)
  <2>1. Lists(Bytes) /\ 2 \in Nat /\ EachLong(pairs, 2)
    BY <1>6 DEF Lists, EachLong
  <2> HIDE DEF Bytes
  <2> QED
    BY <1>6, <2>1, FlattenBlocks
<1>8. Len(reply') = 2 * n
  BY <1>2, <1>5, <1>6, <1>7 DEF Blockwise
<1>9. ASSUME NEW i \in 1..n PROVE Conversion!OnWire(reply', i) = level(i)
  <2>1. (i - 1) * 2 + 1 = 2 * i - 1 /\ (i - 1) * 2 + 2 = 2 * i
    OBVIOUS
  <2>2. reply'[2 * i - 1] = WireBytes(level(i))[1] /\ reply'[2 * i] = WireBytes(level(i))[2]
    <3>1. \A j \in 1..2 : FlattenSeq(pairs)[(i - 1) * 2 + j] = pairs[i][j]
      BY <1>6, <1>7 DEF Blockwise
    <3>2. 1 \in 1..2 /\ 2 \in 1..2
      OBVIOUS
    <3>3. FlattenSeq(pairs)[(i - 1) * 2 + 1] = pairs[i][1] /\ FlattenSeq(pairs)[(i - 1) * 2 + 2] = pairs[i][2]
      BY <3>1, <3>2
    <3> QED
      BY <1>5, <1>6, <2>1, <3>3
  <2> QED
    BY <1>4, <2>2 DEF Conversion!OnWire
<1>10. NearestLevel'
  <2>1. ASSUME NEW i \in DOMAIN wave', NEW p \in (-Conversion!Full)..(Conversion!Full - 1)
        PROVE  Conversion!Distance(wave'[i], Fine * Conversion!OnWire(reply', i))
                 <= Conversion!Distance(wave'[i], Fine * p)
    BY <1>1, <1>2, <1>3, <1>9 DEF Level
  <2> QED
    BY <1>1, <1>8, <2>1 DEF NearestLevel, Conversion!NearestLevel
<1>11. chunk' # <<>> => \A i \in DOMAIN wave' : wave'[i] = Fine * Conversion!OnWire(chunk', i)
  BY <1>1 DEF ConversionInv, Conversion!OnWire
<1> QED
  BY <1>1, <1>10, <1>11 DEF ConversionInv

LEMMA ConversionNext ==
    ASSUME ConversionInv, Conversion!Next
    PROVE  ConversionInv'
<1>1. ASSUME NEW n \in Nat, NEW samples \in [1..n -> Conversion!Levels], Conversion!Enhance(samples)
      PROVE  ConversionInv'
  <2>1. wave' = samples /\ chunk' = <<>> /\ reply' = <<>>
    BY <1>1 DEF Conversion!Enhance
  <2>2. Conversion!Levels \subseteq Int
    BY DEF Conversion!Levels
  <2>3. samples \in [1..n -> Int]
    BY <2>2
  <2>4. samples \in Waves
    BY <2>3 DEF Waves
  <2> QED
    BY <2>1, <2>4 DEF ConversionInv, NearestLevel, Conversion!NearestLevel
<1>2. MaxConverted \in Nat
  BY SequentialAssumption
<1>3. (\A n \in 0..(2 * MaxConverted) : n \in Nat) /\ (\A n \in 1..MaxConverted : n \in Nat)
  BY <1>2
<1> QED
  BY <1>1, <1>3, DecodeInv, EncodeInv DEF Conversion!Next

LEMMA ConversionStep ==
    ASSUME ConversionInv, [SequentialNext]_allVars
    PROVE  ConversionInv'
<1>1. CASE Conversion!Next
  BY <1>1, ConversionNext
<1>2. CASE UNCHANGED conversionVars
  BY <1>2 DEF conversionVars, ConversionInv, NearestLevel, Conversion!NearestLevel,
              Conversion!OnWire
<1> QED
  BY <1>1, <1>2 DEF SequentialNext, Pipelines, Rechunks, Converts, Batches, Buffers, allVars

LEMMA ConversionInit == SequentialInit => ConversionInv
BY DEF SequentialInit, Conversion!Init, ConversionInv, Waves, NearestLevel, Conversion!NearestLevel

\* pcm16le_to_float32 reads the bytes in the order of the wire on hosts of either order,
\* for every base and number of samples.
THEOREM EveryHostReadsAlike == SequentialSpec => []WireIsLittleEndian
<1>1. ConversionInv => WireIsLittleEndian
  BY DEF ConversionInv, WireIsLittleEndian, Conversion!WireIsLittleEndian
<1> QED
  BY ConversionInit, ConversionStep, <1>1, PTL DEF SequentialSpec

\* float32_to_pcm16le returns the level nearest to each sample and clips what is beyond
\* the range, on hosts of either order, however fine the samples are.
THEOREM NearestIsReturned == SequentialSpec => []NearestLevel
<1>1. ConversionInv => NearestLevel
  BY DEF ConversionInv
<1> QED
  BY ConversionInit, ConversionStep, <1>1, PTL DEF SequentialSpec

=============================================================================
