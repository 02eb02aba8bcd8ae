---------------------------- MODULE TimelineProofs ----------------------------
(* Lemmas about the buffers of the plugin, whatever a sample is: what         *)
(* insertion and discarding do to a list of runs, and what read returns.      *)
EXTENDS Timeline, CountingProofs

Segments(Values) == [start : Nat, data : Seq(Values)]

\* No run is empty, and each ends before the later ones start.
Tidy(segments) ==
    /\ \A i \in DOMAIN segments : segments[i].data # <<>>
    /\ \A i, j \in DOMAIN segments : i < j => EndSample(segments[i]) <= segments[j].start

\* The run holds a stretch of the audio, each sample at its position.
Placed(run, audio) == \A m \in DOMAIN run.data : run.data[m] = audio[run.start + m - 1]

\* Every sample of one run is one of the other, at the same position.
TakenFrom(run, whole) ==
    \A m \in DOMAIN run.data :
        /\ m + (run.start - whole.start) \in DOMAIN whole.data
        /\ run.data[m] = whole.data[m + (run.start - whole.start)]

LEMMA SegmentEnd ==
    ASSUME NEW Values, NEW run \in Segments(Values)
    PROVE  /\ run.start \in Nat /\ run.data \in Seq(Values)
           /\ Len(run.data) \in Nat /\ EndSample(run) \in Nat
           /\ EndSample(run) = run.start + Len(run.data)
           /\ run.data # <<>> => run.start < EndSample(run)
<1>1. run.start \in Nat /\ run.data \in Seq(Values) /\ Len(run.data) \in Nat
  BY DEF Segments
<1>2. run.data # <<>> => Len(run.data) # 0
  BY <1>1
<1> QED
  BY <1>1, <1>2 DEF EndSample

LEMMA PartIsPlaced ==
    ASSUME NEW Values, NEW audio, NEW run \in Segments(Values), NEW whole \in Segments(Values),
           TakenFrom(run, whole), Placed(whole, audio)
    PROVE  Placed(run, audio)
<1>1. run.start \in Nat /\ whole.start \in Nat /\ DOMAIN run.data = 1..Len(run.data)
  BY SegmentEnd
<1>2. ASSUME NEW m \in DOMAIN run.data
      PROVE  run.data[m] = audio[run.start + m - 1]
  <2> DEFINE l == m + (run.start - whole.start)
  <2>1. l \in DOMAIN whole.data /\ run.data[m] = whole.data[l]
    BY DEF TakenFrom
  <2>2. whole.start + l - 1 = run.start + m - 1
    BY <1>1
  <2> HIDE DEF l
  <2> QED
    BY <2>1, <2>2 DEF Placed
<1> QED
  BY <1>2 DEF Placed

\* What follows a stretch at its end makes a longer stretch of it, ...
LEMMA JoinedInPlace ==
    ASSUME NEW Values, NEW audio, NEW first \in Nat,
           NEW front \in Seq(Values), \A m \in 1..Len(front) : front[m] = audio[first + m - 1],
           NEW back \in Seq(Values),
           \A m \in 1..Len(back) : back[m] = audio[first + Len(front) + m - 1],
           NEW joined, joined = front \o back
    PROVE  /\ joined \in Seq(Values) /\ Len(joined) = Len(front) + Len(back)
           /\ \A m \in 1..Len(joined) : joined[m] = audio[first + m - 1]
<1>1. /\ joined \in Seq(Values) /\ Len(joined) = Len(front) + Len(back)
      /\ \A m \in 1..(Len(front) + Len(back)) :
           joined[m] = IF m <= Len(front) THEN front[m] ELSE back[m - Len(front)]
  BY JoinTwo
<1>2. Len(front) \in Nat /\ Len(back) \in Nat
  OBVIOUS
<1>3. ASSUME NEW m \in 1..Len(joined)
      PROVE  joined[m] = audio[first + m - 1]
  <2>1. m \in 1..(Len(front) + Len(back))
    BY <1>1
  <2>2. CASE m <= Len(front)
    <3>1. m \in 1..Len(front)
      BY <1>2, <2>1, <2>2
    <3> QED
      BY <1>1, <2>1, <2>2, <3>1
  <2>3. CASE ~(m <= Len(front))
    <3>1. /\ m - Len(front) \in 1..Len(back)
          /\ first + Len(front) + (m - Len(front)) - 1 = first + m - 1
      BY <1>2, <2>1, <2>3
    <3>2. joined[m] = back[m - Len(front)]
      BY <1>1, <2>1, <2>3
    <3> QED
      BY <3>1, <3>2
  <2> QED
    BY <2>2, <2>3
<1> QED
  BY <1>1, <1>3

\* ... and what is cut out of one is one.
LEMMA CutInPlace ==
    ASSUME NEW Values, NEW audio, NEW first \in Nat,
           NEW data \in Seq(Values), \A m \in 1..Len(data) : data[m] = audio[first + m - 1],
           NEW low \in Int, NEW high \in Int, 1 <= low, low <= high + 1, high <= Len(data),
           NEW part, part = SubSeq(data, low, high)
    PROVE  /\ part \in Seq(Values) /\ Len(part) = high - low + 1
           /\ \A m \in 1..(high - low + 1) : part[m] = audio[first + low - 1 + m - 1]
<1>1. /\ part \in Seq(Values) /\ Len(part) = high - low + 1
      /\ \A m \in 1..(high - low + 1) : part[m] = data[low + m - 1]
  OBVIOUS
<1>2. ASSUME NEW m \in 1..(high - low + 1)
      PROVE  part[m] = audio[first + low - 1 + m - 1]
  <2>1. /\ low + m - 1 \in 1..Len(data)
        /\ first + (low + m - 1) - 1 = first + low - 1 + m - 1
    OBVIOUS
  <2> QED
    BY <1>1, <2>1
<1> QED
  BY <1>1, <1>2

-----------------------------------------------------------------------------
(* insert and discard_before. *)

LEMMA InsertAtParts ==
    \A segments, i, run : InsertAt(segments, i, run)
        = SubSeq(segments, 1, i - 1) \o <<run>> \o SubSeq(segments, i, Len(segments))
BY DEF InsertAt

\* Insertion where nothing overlaps keeps the list tidy, and adds the run.
LEMMA InsertedTidy ==
    ASSUME NEW Values, NEW segments \in Seq(Segments(Values)), Tidy(segments),
           NEW run \in Segments(Values), run.data # <<>>,
           Overlapping(segments, run) = {}
    PROVE  /\ Inserted(segments, run) \in Seq(Segments(Values))
           /\ Tidy(Inserted(segments, run))
           /\ \A i \in DOMAIN Inserted(segments, run) :
                 \/ Inserted(segments, run)[i] = run
                 \/ \E j \in DOMAIN segments : Inserted(segments, run)[i] = segments[j]
           /\ \E i \in DOMAIN Inserted(segments, run) : Inserted(segments, run)[i] = run
           /\ \A j \in DOMAIN segments :
                 \E i \in DOMAIN Inserted(segments, run) : Inserted(segments, run)[i] = segments[j]
<1> DEFINE n == Len(segments)
           S == NoLater(segments, run)
           k == Cardinality(S)
           result == [i \in 1..(n + 1) |-> IF i <= k THEN segments[i]
                                           ELSE IF i = k + 1 THEN run
                                           ELSE segments[i - 1]]
<1>1. n \in Nat /\ DOMAIN segments = 1..n /\ \A i \in 1..n : segments[i] \in Segments(Values)
  OBVIOUS
<1>2. \A i \in 1..n : /\ segments[i].start \in Nat /\ EndSample(segments[i]) \in Nat
                      /\ segments[i].start < EndSample(segments[i])
  BY <1>1, SegmentEnd DEF Tidy
<1>3. run.start \in Nat /\ EndSample(run) \in Nat /\ run.start < EndSample(run)
  BY SegmentEnd
<1>4. k \in 0..n /\ S = 1..k
  <2>1. S \in SUBSET (1..n)
    BY <1>1 DEF NoLater
  <2>2. ASSUME NEW i \in S, NEW j \in 1..i PROVE j \in S
    <3>1. i \in 1..n /\ j \in 1..n /\ segments[i].start <= run.start
      BY <1>1, <2>2 DEF NoLater
    <3>2. j < i => EndSample(segments[j]) <= segments[i].start
      BY <1>1, <3>1 DEF Tidy
    <3>3. segments[j].start <= run.start
      <4>1. CASE j = i
        BY <3>1, <4>1
      <4>2. CASE j < i
        BY <1>2, <1>3, <3>1, <3>2, <4>2
      <4> QED
        BY <1>1, <3>1, <4>1, <4>2
    <3> QED
      BY <1>1, <3>1, <3>3 DEF NoLater
  <2> HIDE DEF S, n
  <2> QED
    BY <1>1, <2>1, <2>2, FirstOnes
<1>5. ASSUME NEW i \in 1..n
      PROVE  IF i <= k THEN EndSample(segments[i]) <= run.start
                       ELSE EndSample(run) <= segments[i].start
  <2>1. EndSample(run) <= segments[i].start \/ run.start >= EndSample(segments[i])
    BY <1>1 DEF Overlapping, Overlap
  <2>2. i \in S <=> i <= k
    BY <1>4
  <2>3. i \in S <=> segments[i].start <= run.start
    BY <1>1 DEF NoLater
  <2> HIDE DEF S, n, k
  <2> QED
    BY <1>2, <1>3, <2>1, <2>2, <2>3
<1>6. Inserted(segments, run) = result
  <2>1. Inserted(segments, run) = InsertAt(segments, k + 1, run)
    BY DEF Inserted
  <2> HIDE DEF k
  <2>3. InsertAt(segments, k + 1, run)
          = SubSeq(segments, 1, k) \o <<run>> \o SubSeq(segments, k + 1, n)
    <3> DEFINE place == k + 1
    <3>1. place - 1 = k
      BY <1>1, <1>4
    <3> HIDE DEF place
    <3>2. InsertAt(segments, place, run)
            = SubSeq(segments, 1, place - 1) \o <<run>> \o SubSeq(segments, place, Len(segments))
      BY InsertAtParts
    <3>3. InsertAt(segments, place, run)
            = SubSeq(segments, 1, k) \o <<run>> \o SubSeq(segments, place, n)
      BY <3>1, <3>2
    <3> QED
      BY <3>3 DEF place
  <2> DEFINE front == SubSeq(segments, 1, k)
             back == SubSeq(segments, k + 1, n)
  <2> HIDE DEF n
  <2>4. /\ front \in Seq(Segments(Values)) /\ Len(front) = k
        /\ \A i \in 1..k : front[i] = segments[i]
    BY <1>1, <1>4
  <2>5. /\ back \in Seq(Segments(Values)) /\ Len(back) = n - k
        /\ \A i \in 1..(n - k) : back[i] = segments[i + k]
    BY <1>1, <1>4
  <2> HIDE DEF front, back
  <2> DEFINE joined == front \o <<run>> \o back
  <2>6. /\ joined \in Seq(Segments(Values))
        /\ Len(joined) = Len(front) + 1 + Len(back)
        /\ \A i \in 1..(Len(front) + 1 + Len(back)) :
             joined[i] = IF i <= Len(front) THEN front[i]
                         ELSE IF i = Len(front) + 1 THEN run
                         ELSE back[i - Len(front) - 1]
    <3>1. /\ front \in Seq(Segments(Values)) /\ run \in Segments(Values) /\ back \in Seq(Segments(Values))
          /\ joined = front \o <<run>> \o back
      BY <2>4, <2>5
    <3> HIDE DEF joined
    <3> QED
      BY <3>1, JoinAround
  <2> HIDE DEF joined
  <2>7. Len(front) = k /\ Len(front) + 1 + Len(back) = n + 1
    BY <1>1, <1>4, <2>4, <2>5
  <2>8. ASSUME NEW i \in 1..(n + 1)
        PROVE  joined[i] = result[i]
    <3>1. joined[i] = IF i <= k THEN front[i]
                      ELSE IF i = k + 1 THEN run ELSE back[i - k - 1]
      BY <2>6, <2>7
    <3>2. i \in Int /\ k \in Nat
      BY <1>1, <1>4
    <3>3. CASE i <= k
      <4>1. i \in 1..k
        BY <1>1, <1>4, <3>3
      <4> QED
        BY <2>4, <3>1, <3>3, <4>1
    <3>4. CASE i = k + 1
      <4>1. ~(i <= k)
        BY <3>2, <3>4
      <4> QED
        BY <3>1, <3>4, <4>1
    <3>5. CASE i > k + 1
      <4>1. i - k - 1 \in 1..(n - k) /\ i - k - 1 + k = i - 1
        BY <1>1, <1>4, <3>5
      <4>2. back[i - k - 1] = segments[i - 1]
        BY <2>5, <4>1
      <4>3. ~(i <= k) /\ i # k + 1
        BY <3>2, <3>5
      <4> QED
        BY <3>1, <4>2, <4>3
    <3>6. i <= k \/ i = k + 1 \/ i > k + 1
      BY <3>2
    <3> QED
      BY <3>3, <3>4, <3>5, <3>6, Zenon
  <2>9. joined = result
    BY <1>1, <2>6, <2>7, <2>8
  <2> QED
    BY <2>1, <2>3, <2>9 DEF front, back, joined
<1> HIDE DEF S, k, n
<1>7. result \in Seq(Segments(Values))
  <2>1. ASSUME NEW i \in 1..(n + 1) PROVE result[i] \in Segments(Values)
    BY <1>1, <1>4
  <2> QED
    BY <1>1, <2>1
<1>8. Tidy(result)
  <2>1. ASSUME NEW i \in 1..(n + 1) PROVE result[i].data # <<>>
    BY <1>1, <1>4 DEF Tidy
  <2>2. ASSUME NEW i \in 1..(n + 1), NEW j \in 1..(n + 1), i < j
        PROVE  EndSample(result[i]) <= result[j].start
    <3>1. CASE j <= k
      <4>1. result[i] = segments[i] /\ result[j] = segments[j] /\ i \in 1..n /\ j \in 1..n
        BY <1>1, <1>4, <2>2, <3>1
      <4> QED
        BY <1>1, <2>2, <4>1 DEF Tidy
    <3>2. CASE j = k + 1
      <4>1. result[i] = segments[i] /\ result[j] = run /\ i \in 1..n /\ i <= k
        BY <1>1, <1>4, <2>2, <3>2
      <4> QED
        BY <1>5, <4>1
    <3>3. CASE j > k + 1 /\ i = k + 1
      <4>1. result[i] = run /\ result[j] = segments[j - 1] /\ j - 1 \in 1..n /\ ~(j - 1 <= k)
        BY <1>1, <1>4, <2>2, <3>3
      <4> QED
        BY <1>5, <4>1
    <3>4. CASE j > k + 1 /\ i # k + 1
      <4> DEFINE m == IF i <= k THEN i ELSE i - 1
      <4>1. /\ result[i] = segments[m] /\ result[j] = segments[j - 1]
            /\ m \in 1..n /\ j - 1 \in 1..n /\ m < j - 1
        BY <1>1, <1>4, <2>2, <3>4
      <4> HIDE DEF m
      <4> QED
        BY <1>1, <4>1 DEF Tidy
    <3> QED
      BY <1>4, <3>1, <3>2, <3>3, <3>4
  <2> QED
    BY <2>1, <2>2 DEF Tidy
<1>9. ASSUME NEW i \in 1..(n + 1)
      PROVE  result[i] = run \/ \E j \in DOMAIN segments : result[i] = segments[j]
  BY <1>1, <1>4
<1>10. DOMAIN result = 1..(n + 1)
  OBVIOUS
<1>11. \E i \in DOMAIN result : result[i] = run
  <2> DEFINE i == k + 1
  <2>1. i \in 1..(n + 1) /\ ~(i <= k) /\ i = k + 1
    BY <1>1, <1>4
  <2> HIDE DEF i
  <2>2. result[i] = run
    BY <2>1
  <2> HIDE DEF result
  <2> QED
    BY <1>10, <2>1, <2>2
<1>12. ASSUME NEW j \in DOMAIN segments
       PROVE  \E i \in DOMAIN result : result[i] = segments[j]
  <2>1. j \in 1..n
    BY <1>1
  <2>2. CASE j <= k
    <3>1. j \in 1..(n + 1) /\ result[j] = segments[j]
      BY <1>1, <2>1, <2>2
    <3> HIDE DEF result
    <3> QED
      BY <1>10, <3>1
  <2>3. CASE ~(j <= k)
    <3> DEFINE i == j + 1
    <3>1. i \in 1..(n + 1) /\ ~(i <= k) /\ i # k + 1 /\ i - 1 = j
      BY <1>1, <1>4, <2>1, <2>3
    <3> HIDE DEF i
    <3>2. result[i] = segments[j]
      BY <3>1
    <3> HIDE DEF result
    <3> QED
      BY <1>10, <3>1, <3>2
  <2> QED
    BY <2>2, <2>3
<1> HIDE DEF result
<1> QED
  BY <1>6, <1>7, <1>8, <1>9, <1>10, <1>11, <1>12

\* A run that reaches past the cut loses only what lies before it.
LEMMA CutRun ==
    ASSUME NEW Values, NEW run \in Segments(Values), run.data # <<>>,
           NEW sample \in Nat, sample < EndSample(run)
    PROVE  LET rest == DiscardBefore(run, sample)
           IN  /\ rest \in Segments(Values) /\ rest.data # <<>>
               /\ EndSample(rest) = EndSample(run)
               /\ sample <= rest.start /\ run.start <= rest.start
               /\ rest.start = run.start \/ rest.start = sample
               /\ TakenFrom(rest, run)
<1> DEFINE removed == AtMost(AtLeast(0, sample - run.start), Len(run.data))
           data == SubSeq(run.data, removed + 1, Len(run.data))
<1>1. /\ run.start \in Nat /\ run.data \in Seq(Values)
      /\ Len(run.data) \in Nat /\ EndSample(run) = run.start + Len(run.data)
  BY SegmentEnd
<1>2. /\ removed \in Nat /\ removed < Len(run.data) /\ sample <= run.start + removed
      /\ run.start + removed = run.start \/ run.start + removed = sample
  <2>1. Len(run.data) # 0
    BY <1>1
  <2> QED
    BY <1>1, <2>1 DEF AtMost, AtLeast
<1>3. DiscardBefore(run, sample) = Run(run.start + removed, data)
  BY DEF DiscardBefore
<1> HIDE DEF removed
<1>4. /\ data \in Seq(Values) /\ Len(data) = Len(run.data) - removed
      /\ \A m \in 1..(Len(run.data) - removed) : data[m] = run.data[m + removed]
  BY <1>1, <1>2
<1> HIDE DEF data
<1> DEFINE rest == Run(run.start + removed, data)
<1>5. rest.start = run.start + removed /\ rest.data = data
  BY DEF Run
<1>6. rest \in Segments(Values)
  BY <1>1, <1>2, <1>4 DEF Run, Segments
<1>7. EndSample(rest) = EndSample(run)
  <2>1. EndSample(rest) = rest.start + Len(rest.data)
    BY DEF EndSample
  <2> HIDE DEF rest
  <2> QED
    BY <1>1, <1>2, <1>4, <1>5, <2>1
<1> HIDE DEF rest
<1>8. rest.data # <<>>
  BY <1>1, <1>2, <1>4, <1>5
<1>9. TakenFrom(rest, run)
  <2>1. ASSUME NEW m \in DOMAIN rest.data
        PROVE  /\ m + (rest.start - run.start) \in DOMAIN run.data
               /\ rest.data[m] = run.data[m + (rest.start - run.start)]
    <3>1. m \in 1..(Len(run.data) - removed)
      BY <1>4, <1>5, <2>1
    <3>2. m + removed \in DOMAIN run.data
      BY <1>1, <1>2, <3>1
    <3>3. rest.data[m] = run.data[m + removed]
      BY <1>4, <1>5, <3>1
    <3>4. rest.start - run.start = removed
      BY <1>1, <1>2, <1>5
    <3> QED
      BY <3>2, <3>3, <3>4
  <2> QED
    BY <2>1 DEF TakenFrom
<1> QED
  BY <1>1, <1>2, <1>3, <1>5, <1>6, <1>7, <1>8, <1>9 DEF rest

\* Discarding keeps the list tidy, and of the later runs what lies behind the
\* cut, up to where they ended.
LEMMA DiscardedTidy ==
    ASSUME NEW Values, NEW segments \in Seq(Segments(Values)), Tidy(segments), NEW sample \in Nat
    PROVE  /\ Discarded(segments, sample) \in Seq(Segments(Values))
           /\ Tidy(Discarded(segments, sample))
           /\ \A i \in DOMAIN Discarded(segments, sample) :
                 /\ sample <= Discarded(segments, sample)[i].start
                 /\ \E j \in DOMAIN segments :
                      /\ EndSample(Discarded(segments, sample)[i]) = EndSample(segments[j])
                      /\ TakenFrom(Discarded(segments, sample)[i], segments[j])
           /\ \A j \in DOMAIN segments : sample < EndSample(segments[j]) =>
                 \E i \in DOMAIN Discarded(segments, sample) :
                    LET rest == Discarded(segments, sample)[i]
                    IN  /\ EndSample(rest) = EndSample(segments[j])
                        /\ rest.start = segments[j].start \/ rest.start = sample
<1> DEFINE n == Len(segments)
           S == Past(segments, sample)
           k == Cardinality(S)
           kept == SubSeq(segments, k + 1, n)
           result == [i \in 1..(n - k) |-> DiscardBefore(segments[i + k], sample)]
<1>1. n \in Nat /\ DOMAIN segments = 1..n /\ \A i \in 1..n : segments[i] \in Segments(Values)
  OBVIOUS
<1>2. \A i \in 1..n : /\ segments[i].start \in Nat /\ EndSample(segments[i]) \in Nat
                      /\ segments[i].start < EndSample(segments[i])
  BY <1>1, SegmentEnd DEF Tidy
<1>3. k \in 0..n /\ S = 1..k
  <2>1. S \in SUBSET (1..n)
    BY <1>1 DEF Past
  <2>2. ASSUME NEW i \in S, NEW j \in 1..i PROVE j \in S
    <3>1. i \in 1..n /\ j \in 1..n /\ EndSample(segments[i]) <= sample
      BY <1>1, <2>2 DEF Past
    <3>2. j < i => EndSample(segments[j]) <= segments[i].start
      BY <1>1, <3>1 DEF Tidy
    <3>3. EndSample(segments[j]) <= sample
      <4>1. CASE j = i
        BY <3>1, <4>1
      <4>2. CASE j < i
        BY <1>2, <3>1, <3>2, <4>2
      <4> QED
        BY <1>1, <3>1, <4>1, <4>2
    <3> QED
      BY <1>1, <3>1, <3>3 DEF Past
  <2> HIDE DEF S, n
  <2> QED
    BY <1>1, <2>1, <2>2, FirstOnes
<1>4. ASSUME NEW i \in 1..n, i > k
      PROVE  sample < EndSample(segments[i])
  <2>1. i \notin S
    BY <1>3, <1>4
  <2>2. ~(EndSample(segments[i]) <= sample)
    BY <1>1, <2>1 DEF Past
  <2> QED
    BY <1>2, <2>2
<1>5. Discarded(segments, sample) = [i \in DOMAIN kept |-> DiscardBefore(kept[i], sample)]
  BY DEF Discarded
<1> HIDE DEF S, k, n
<1>6. /\ DOMAIN kept = 1..(n - k)
      /\ \A i \in 1..(n - k) : kept[i] = segments[i + k]
  BY <1>1, <1>3
<1> HIDE DEF kept
<1>7. Discarded(segments, sample) = result
  BY <1>5, <1>6
<1>8. ASSUME NEW i \in 1..(n - k)
      PROVE  /\ i + k \in 1..n
             /\ result[i] \in Segments(Values) /\ result[i].data # <<>>
             /\ EndSample(result[i]) = EndSample(segments[i + k])
             /\ sample <= result[i].start /\ segments[i + k].start <= result[i].start
             /\ result[i].start = segments[i + k].start \/ result[i].start = sample
             /\ TakenFrom(result[i], segments[i + k])
  <2>1. i + k \in 1..n /\ i + k > k
    BY <1>1, <1>3
  <2>2. result[i] = DiscardBefore(segments[i + k], sample)
    OBVIOUS
  <2>3. /\ segments[i + k] \in Segments(Values) /\ segments[i + k].data # <<>>
        /\ sample < EndSample(segments[i + k])
    BY <1>1, <1>4, <2>1 DEF Tidy
  <2> HIDE DEF result
  <2> QED
    BY <2>1, <2>2, <2>3, CutRun
<1>9. result \in Seq(Segments(Values)) /\ DOMAIN result = 1..(n - k)
  <2>1. n - k \in Nat
    BY <1>1, <1>3
  <2>2. \A i \in 1..(n - k) : DiscardBefore(segments[i + k], sample) \in Segments(Values)
    BY <1>8
  <2> QED
    BY <2>1, <2>2
<1> HIDE DEF result
<1>10. Tidy(result)
  <2>1. ASSUME NEW i \in 1..(n - k), NEW j \in 1..(n - k), i < j
        PROVE  EndSample(result[i]) <= result[j].start
    <3>1. /\ i + k \in 1..n /\ j + k \in 1..n /\ i + k < j + k
      BY <1>3, <1>8, <2>1
    <3>2. EndSample(segments[i + k]) <= segments[j + k].start
      BY <1>1, <3>1 DEF Tidy
    <3>3. /\ result[j] \in Segments(Values) /\ EndSample(result[i]) = EndSample(segments[i + k])
          /\ segments[j + k].start <= result[j].start
      BY <1>8
    <3>4. result[j].start \in Nat
      BY <3>3 DEF Segments
    <3> QED
      BY <1>2, <3>1, <3>2, <3>3, <3>4
  <2> QED
    BY <1>8, <1>9, <2>1 DEF Tidy
<1>11. ASSUME NEW j \in 1..n, sample < EndSample(segments[j])
       PROVE  \E i \in 1..(n - k) : /\ EndSample(result[i]) = EndSample(segments[j])
                                    /\ result[i].start = segments[j].start \/ result[i].start = sample
  <2>1. j \notin S
    <3>1. ~(EndSample(segments[j]) <= sample)
      BY <1>2, <1>11
    <3> QED
      BY <1>1, <3>1 DEF S, Past
  <2> DEFINE i == j - k
  <2>2. i \in 1..(n - k) /\ i + k = j
    BY <1>1, <1>3, <2>1
  <2> HIDE DEF i
  <2> QED
    BY <1>8, <2>2
<1> QED
  BY <1>1, <1>7, <1>8, <1>9, <1>10, <1>11

-----------------------------------------------------------------------------
(* read. *)

LEMMA SeenRecursion ==
    ASSUME NEW segments, Len(segments) \in Nat, NEW start, NEW end
    PROVE  Seen(segments, start, end) = [i \in 0..Len(segments) |->
              IF i = 0 THEN [cursor |-> start, output |-> <<>>, state |-> "reading"]
              ELSE ReadStep(Seen(segments, start, end)[i - 1], segments[i], end)]
<1> DEFINE n == Len(segments)
           base == [cursor |-> start, output |-> <<>>, state |-> "reading"]
           Upto(f, k) == f = [i \in 0..k |-> IF i = 0 THEN base
                                         ELSE ReadStep(f[i - 1], segments[i], end)]
           S == {k \in 0..n : \E f : Upto(f, k)}
<1>0. Seen(segments, start, end) = CHOOSE f : Upto(f, n)
  BY DEF Seen
<1> HIDE DEF base
<1>1. 0 \in S
  <2> DEFINE f == [i \in 0..0 |-> base]
  <2>1. Upto(f, 0)
    OBVIOUS
  <2>2. 0 \in 0..n
    OBVIOUS
  <2> HIDE DEF f
  <2> QED
    BY <2>1, <2>2
<1>2. ASSUME NEW k \in 0..(n - 1), k \in S
      PROVE  k + 1 \in S
  <2>1. PICK f : Upto(f, k)
    BY <1>2
  <2> DEFINE g == [i \in 0..(k + 1) |-> IF i = k + 1 THEN ReadStep(f[k], segments[k + 1], end)
                                        ELSE f[i]]
  <2>2. ASSUME NEW i \in 0..(k + 1)
        PROVE  g[i] = IF i = 0 THEN base ELSE ReadStep(g[i - 1], segments[i], end)
    <3>1. CASE i = k + 1
      <4>1. i # 0 /\ i - 1 = k /\ k \in 0..(k + 1) /\ k # k + 1
        BY <3>1
      <4> QED
        BY <3>1, <4>1
    <3>2. CASE i # k + 1
      <4>1. i \in 0..k
        BY <3>2
      <4>2. f[i] = IF i = 0 THEN base ELSE ReadStep(f[i - 1], segments[i], end)
        BY <2>1, <4>1
      <4>3. g[i] = f[i]
        BY <3>2
      <4>4. i # 0 => i - 1 \in 0..(k + 1) /\ i - 1 # k + 1
        BY <4>1
      <4>5. i # 0 => g[i - 1] = f[i - 1]
        BY <4>4
      <4> HIDE DEF g
      <4> QED
        BY <4>2, <4>3, <4>5
    <3> QED
      BY <3>1, <3>2
  <2>3. Upto(g, k + 1)
    <3>1. g = [i \in 0..(k + 1) |-> g[i]]
      OBVIOUS
    <3> HIDE DEF g
    <3> QED
      BY <2>2, <3>1
  <2>4. k + 1 \in 0..n
    OBVIOUS
  <2> QED
    BY <2>3, <2>4
<1>3. n \in S
  <2> HIDE DEF S, n
  <2>1. 0..n \subseteq S
    BY <1>1, <1>2, Counting DEF n
  <2> QED
    BY <2>1 DEF n
<1>4. \E f : Upto(f, n)
  BY <1>3
<1>5. Upto(Seen(segments, start, end), n)
  BY <1>0, <1>4
<1> QED
  BY <1>5 DEF base

\* What a loop over the segments has read so far: the samples from start up to
\* its cursor, each in its place.
ReadOK(seen, start, end, audio, Values) ==
    /\ seen.cursor \in start..end
    /\ seen.output \in Seq(Values)
    /\ Len(seen.output) = seen.cursor - start
    /\ \A m \in 1..(seen.cursor - start) :
         seen.output[m] = audio[start + m - 1]
    /\ seen.state = "complete" => seen.cursor = end

LEMMA StepReads ==
    ASSUME NEW Values, NEW audio, NEW start \in Nat, NEW end \in Nat,
           NEW seen, seen.state = "reading" => seen.cursor # end,
           ReadOK(seen, start, end, audio, Values),
           NEW segment \in Segments(Values), Placed(segment, audio),
           NEW next, next = ReadStep(seen, segment, end)
    PROVE  /\ ReadOK(next, start, end, audio, Values)
           /\ next.state = "reading" => next.cursor # end
<1>1. /\ segment.start \in Nat /\ segment.data \in Seq(Values)
      /\ Len(segment.data) \in Nat /\ EndSample(segment) \in Nat
      /\ EndSample(segment) = segment.start + Len(segment.data)
  BY SegmentEnd
<1>2. seen.cursor \in Nat /\ start <= seen.cursor /\ seen.cursor <= end
  BY DEF ReadOK
<1>3. CASE next = seen
  BY <1>3
<1>4. CASE next = [seen EXCEPT !.state = "gap"]
  BY <1>4 DEF ReadOK
<1>5. CASE /\ ~(EndSample(segment) <= seen.cursor) /\ ~(segment.start > seen.cursor)
           /\ seen.state = "reading"
  <2> DEFINE until == AtMost(EndSample(segment), end)
             c == seen.cursor
             part == SubSeq(segment.data, c - segment.start + 1, until - segment.start)
  <2>1. until \in Nat /\ c < until /\ until <= end /\ until <= EndSample(segment)
    BY <1>1, <1>2, <1>5 DEF AtMost
  <2>2. next = [cursor |-> until, output |-> seen.output \o part,
                state |-> IF until = end THEN "complete" ELSE "reading"]
    BY <1>5 DEF ReadStep, Slice
  <2> HIDE DEF until, part
  <2>3. next.cursor = until /\ next.output = seen.output \o part
    BY <2>2
  <2>9. next.state = IF until = end THEN "complete" ELSE "reading"
    BY <2>2
  <2>4. c \in Nat /\ segment.start <= c /\ start <= c
    BY <1>1, <1>2, <1>5
  <2> DEFINE data == segment.data
             first == segment.start
  <2>5. /\ data \in Seq(Values) /\ first \in Nat /\ Len(data) \in Nat
        /\ until - first <= Len(data) /\ first <= c
        /\ \A m \in 1..Len(data) : data[m] = audio[first + m - 1]
    <3>1. until - segment.start <= Len(segment.data)
      BY <1>1, <2>1, <2>4
    <3>2. DOMAIN segment.data = 1..Len(segment.data)
      BY <1>1
    <3> QED
      BY <1>1, <2>4, <3>1, <3>2 DEF Placed
  <2>6. /\ part \in Seq(Values) /\ Len(part) = until - c
        /\ \A m \in 1..(until - c) : part[m] = audio[c + m - 1]
    <3> DEFINE low == c - first + 1
               high == until - first
    <3>1. part = SubSeq(data, low, high)
      BY DEF part
    <3> HIDE DEF data, first, c
    <3>2. /\ low \in Int /\ high \in Int /\ 1 <= low /\ low <= high + 1 /\ high <= Len(data)
          /\ high - low + 1 = until - c
          /\ \A m \in 1..(until - c) : first + low - 1 + m - 1 = c + m - 1
      BY <2>1, <2>4, <2>5
    <3> HIDE DEF low, high
    <3>3. /\ part \in Seq(Values) /\ Len(part) = high - low + 1
          /\ \A m \in 1..(high - low + 1) : part[m] = audio[first + low - 1 + m - 1]
      BY <2>5, <3>1, <3>2, CutInPlace
    <3> QED
      BY <3>2, <3>3
  <2> HIDE DEF c
  <2> DEFINE front == seen.output
             joined == front \o part
  <2>8. /\ front \in Seq(Values) /\ Len(front) = c - start
        /\ \A m \in 1..(c - start) : front[m] = audio[start + m - 1]
    BY DEF ReadOK, c
  <2>10. joined = front \o part
    OBVIOUS
  <2> HIDE DEF front, joined
  <2>11. /\ joined \in Seq(Values) /\ Len(joined) = Len(front) + Len(part)
         /\ \A m \in 1..Len(joined) : joined[m] = audio[start + m - 1]
    <3>1. \A m \in 1..Len(part) : part[m] = audio[start + Len(front) + m - 1]
      <4>1. start + Len(front) = c
        BY <2>4, <2>8
      <4> QED
        BY <2>6, <4>1
    <3>2. /\ front \in Seq(Values) /\ \A m \in 1..Len(front) : front[m] = audio[start + m - 1]
          /\ part \in Seq(Values) /\ joined = front \o part /\ start \in Nat
      BY <2>6, <2>8, <2>10
    <3> QED
      BY <3>1, <3>2, JoinedInPlace
  <2>12. Len(joined) = until - start
    BY <2>1, <2>4, <2>6, <2>8, <2>11
  <2>13. until \in start..end
    BY <2>1, <2>4
  <2> QED
    BY <2>3, <2>9, <2>11, <2>12, <2>13 DEF ReadOK, joined, front
<1> QED
  BY <1>3, <1>4, <1>5 DEF ReadStep

\* The loop starts before the first segment, and takes a step for each.
LEMMA SeenSteps ==
    ASSUME NEW segments, Len(segments) \in Nat, NEW start, NEW end,
           NEW seen, seen = Seen(segments, start, end)
    PROVE  /\ seen[0] = [cursor |-> start, output |-> <<>>, state |-> "reading"]
           /\ \A i \in 0..(Len(segments) - 1) : seen[i + 1] = ReadStep(seen[i], segments[i + 1], end)
<1> DEFINE len == Len(segments)
           base == [cursor |-> start, output |-> <<>>, state |-> "reading"]
<1>1. len \in Nat
  OBVIOUS
<1>2. seen = [i \in 0..len |-> IF i = 0 THEN base ELSE ReadStep(seen[i - 1], segments[i], end)]
  BY SeenRecursion
<1> HIDE DEF base, len
<1>3. seen[0] = base
  <2>1. 0 \in 0..len
    BY <1>1
  <2> QED
    BY <1>2, <2>1
<1>4. ASSUME NEW i \in 0..(len - 1)
      PROVE  seen[i + 1] = ReadStep(seen[i], segments[i + 1], end)
  <2> DEFINE j == i + 1
  <2>1. j \in 0..len /\ j # 0 /\ j - 1 = i
    BY <1>1
  <2> HIDE DEF j
  <2>2. seen[j] = ReadStep(seen[j - 1], segments[j], end)
    BY <1>2, <2>1
  <2> QED
    BY <2>1, <2>2 DEF j
<1> QED
  BY <1>3, <1>4 DEF base, len

\* What the loop of read has in the end.
LastSeen(segments, start, n) == Seen(segments, start, start + n)[Len(segments)]

EachPlaced(segments, audio) == \A i \in DOMAIN segments : Placed(segments[i], audio)

\* What a loop that has come to the end of the range returns are the samples
\* asked for, each in its place.
LEMMA CompleteInPlace ==
    ASSUME NEW Values, NEW segments \in Seq(Segments(Values)), NEW audio,
           EachPlaced(segments, audio),
           NEW start \in Nat, NEW n \in Nat \ {0},
           NEW last, last = LastSeen(segments, start, n), last.state = "complete"
    PROVE  /\ last.output \in Seq(Values) /\ Len(last.output) = n
           /\ \A m \in 1..n : last.output[m] = audio[start + m - 1]
<1> DEFINE end == start + n
           len == Len(segments)
           seen == Seen(segments, start, end)
           base == [cursor |-> start, output |-> <<>>, state |-> "reading"]
           Fine(i) == /\ ReadOK(seen[i], start, end, audio, Values)
                      /\ seen[i].state = "reading" => seen[i].cursor # end
           S == {i \in 0..len : Fine(i)}
<1>1. len \in Nat /\ end \in Nat /\ start <= end /\ start # end
  OBVIOUS
<1>2. last = seen[len]
  BY DEF LastSeen
<1>3. /\ seen[0] = base
      /\ \A i \in 0..(len - 1) : seen[i + 1] = ReadStep(seen[i], segments[i + 1], end)
  BY <1>1, SeenSteps
<1> HIDE DEF end, seen
<1>4. 0 \in S
  <2>1. 0 \in 0..len
    BY <1>1
  <2>2. base.cursor = start /\ base.output = <<>> /\ base.state = "reading"
    OBVIOUS
  <2> HIDE DEF base
  <2>3. <<>> \in Seq(Values) /\ Len(<<>>) = 0
    OBVIOUS
  <2>4. start \in start..end /\ 0 = start - start /\ 1..(start - start) = {}
    BY <1>1
  <2>5. ReadOK(base, start, end, audio, Values)
    BY <2>2, <2>3, <2>4 DEF ReadOK
  <2> QED
    BY <1>1, <1>3, <2>1, <2>2, <2>5
<1> HIDE DEF base
<1>5. ASSUME NEW i \in 0..(len - 1), i \in S
      PROVE  i + 1 \in S
  <2>1. i + 1 \in 0..len /\ i + 1 \in DOMAIN segments
    OBVIOUS
  <2>2. segments[i + 1] \in Segments(Values) /\ Placed(segments[i + 1], audio)
    BY <2>1 DEF EachPlaced
  <2>3. Fine(i)
    BY <1>5
  <2>4. seen[i + 1] = ReadStep(seen[i], segments[i + 1], end)
    BY <1>3
  <2>5. Fine(i + 1)
    <3> HIDE DEF len
    <3> QED
      BY <1>1, <2>2, <2>3, <2>4, StepReads
  <2> QED
    BY <2>1, <2>5
<1>6. len \in S
  <2> HIDE DEF S, len
  <2>1. 0..len \subseteq S
    BY <1>1, <1>4, <1>5, Counting
  <2> QED
    BY <1>1, <2>1
<1>7. ReadOK(last, start, end, audio, Values)
  BY <1>2, <1>6
<1>9. end - start = n
  BY DEF end
<1> QED
  BY <1>7, <1>9 DEF ReadOK

\* The positions of a list of runs.
CoveredBy(segments) == UNION {Positions(segments[i]) : i \in DOMAIN segments}

LEMMA Covers ==
    ASSUME NEW segments, NEW p
    PROVE  p \in CoveredBy(segments) <=> \E i \in DOMAIN segments : p \in Positions(segments[i])
BY DEF CoveredBy

\* What a loop over the first i segments knows: everything before its cursor is
\* there, and where it gave up there is nothing.
LookOK(seen, segments, i, start, end) ==
    /\ seen.state \in {"reading", "gap", "complete"}
    /\ seen.cursor \in start..end
    /\ \A p \in start..(seen.cursor - 1) : p \in CoveredBy(segments)
    /\ seen.state = "complete" => seen.cursor = end
    /\ seen.state # "complete" => seen.cursor # end
    /\ seen.state = "reading" => \A j \in 1..i : EndSample(segments[j]) <= seen.cursor
    /\ seen.state = "gap" => seen.cursor \notin CoveredBy(segments)

LEMMA StepLooks ==
    ASSUME NEW Values, NEW segments \in Seq(Segments(Values)), Tidy(segments),
           NEW start \in Nat, NEW end \in Nat, NEW i \in 1..Len(segments),
           NEW seen, LookOK(seen, segments, i - 1, start, end),
           NEW next, next = ReadStep(seen, segments[i], end)
    PROVE  LookOK(next, segments, i, start, end)
<1> DEFINE n == Len(segments)
           segment == segments[i]
           c == seen.cursor
<1>1. /\ n \in Nat /\ i \in 1..n /\ DOMAIN segments = 1..n
      /\ \A j \in 1..n : segments[j].start \in Nat /\ EndSample(segments[j]) \in Nat
  BY SegmentEnd
<1>2. c \in Nat /\ start <= c /\ c <= end
  BY DEF LookOK
<1> HIDE DEF n, segment, c
<1>3. CASE seen.state # "reading"
  <2>1. next = seen
    BY <1>3 DEF ReadStep
  <2> QED
    BY <1>3, <2>1 DEF LookOK
<1>4. CASE seen.state = "reading" /\ EndSample(segment) <= c
  <2>1. next = seen
    BY <1>4 DEF ReadStep, segment, c
  <2>2. \A j \in 1..i : j \in 1..(i - 1) \/ j = i
    BY <1>1
  <2>3. \A j \in 1..i : EndSample(segments[j]) <= c
    BY <1>4, <2>2 DEF LookOK, segment, c
  <2> QED
    BY <1>4, <2>1, <2>3 DEF LookOK, c
<1>5. CASE seen.state = "reading" /\ ~(EndSample(segment) <= c) /\ segment.start > c
  <2>1. next = [seen EXCEPT !.state = "gap"]
    BY <1>5 DEF ReadStep, segment, c
  <2>2. ASSUME c \in CoveredBy(segments)
        PROVE  FALSE
    <3>1. PICK j \in 1..n : c \in Positions(segments[j])
      BY <1>1, <2>2, Covers
    <3>2. segments[j].start <= c /\ c < EndSample(segments[j])
      BY <1>1, <1>2, <3>1 DEF Positions
    <3>3. CASE j < i
      <4>1. EndSample(segments[j]) <= c
        BY <1>1, <1>5, <3>3 DEF LookOK, c
      <4> QED
        BY <1>1, <1>2, <3>2, <4>1
    <3>4. CASE j = i
      BY <1>1, <1>2, <1>5, <3>2, <3>4 DEF segment
    <3>5. CASE i < j
      <4>1. EndSample(segments[i]) <= segments[j].start
        BY <1>1, <3>5 DEF Tidy
      <4> QED
        BY <1>1, <1>2, <1>5, <3>2, <4>1 DEF segment
    <3> QED
      BY <1>1, <3>3, <3>4, <3>5
  <2>3. next.state = "gap" /\ next.cursor = c
    BY <2>1 DEF LookOK, c
  <2> QED
    BY <1>5, <2>2, <2>3 DEF LookOK, c
<1>6. CASE seen.state = "reading" /\ ~(EndSample(segment) <= c) /\ ~(segment.start > c)
  <2> DEFINE until == AtMost(EndSample(segment), end)
  <2>1. /\ next.cursor = until
        /\ next.state = IF until = end THEN "complete" ELSE "reading"
    BY <1>6 DEF ReadStep, segment, c
  <2>2. segment.start \in Nat /\ EndSample(segment) \in Nat
    BY <1>1 DEF segment
  <2>3. /\ until \in Nat /\ c <= until /\ until <= end /\ until <= EndSample(segment)
        /\ until # end => until = EndSample(segment)
    BY <1>2, <1>6, <2>2 DEF AtMost
  <2> HIDE DEF until
  <2>4. ASSUME NEW p \in start..(until - 1)
        PROVE  p \in CoveredBy(segments)
    <3>1. CASE p < c
      <4>1. p \in start..(c - 1)
        BY <1>2, <2>3, <3>1
      <4> QED
        BY <4>1 DEF LookOK, c
    <3>2. CASE ~(p < c)
      <4>1. p \in segment.start..(EndSample(segment) - 1)
        BY <1>2, <1>6, <2>2, <2>3, <3>2
      <4> QED
        BY <1>1, <4>1, Covers DEF Positions, segment
    <3> QED
      BY <3>1, <3>2
  <2>5. ASSUME until # end, NEW j \in 1..i
        PROVE  EndSample(segments[j]) <= until
    <3>1. CASE j = i
      BY <2>2, <2>3, <2>5, <3>1 DEF segment
    <3>2. CASE j # i
      <4>1. j \in 1..(i - 1) /\ j \in 1..n
        BY <1>1, <3>2
      <4>2. EndSample(segments[j]) <= c
        BY <1>6, <4>1 DEF LookOK, c
      <4> QED
        BY <1>1, <1>2, <2>3, <4>1, <4>2
    <3> QED
      BY <3>1, <3>2
  <2>6. until \in start..end
    BY <1>2, <2>3
  <2> QED
    BY <2>1, <2>4, <2>5, <2>6 DEF LookOK
<1> QED
  BY <1>3, <1>4, <1>5, <1>6

\* read comes to the end of the range exactly when every position of it is there.
LEMMA ReadsWhatIsThere ==
    ASSUME NEW Values, NEW segments \in Seq(Segments(Values)), Tidy(segments),
           NEW start \in Nat, NEW n \in Nat \ {0}
    PROVE  LastSeen(segments, start, n).state = "complete"
              <=> start..(start + n - 1) \subseteq CoveredBy(segments)
<1> DEFINE last == LastSeen(segments, start, n)
           end == start + n
           len == Len(segments)
           seen == Seen(segments, start, end)
           S == {i \in 0..len : LookOK(seen[i], segments, i, start, end)}
<1>1. /\ len \in Nat /\ end \in Nat /\ start <= end /\ start # end /\ start + n - 1 = end - 1
      /\ DOMAIN segments = 1..len
  OBVIOUS
<1>2. last = seen[len]
  BY DEF LastSeen
<1>3. /\ seen[0] = [cursor |-> start, output |-> <<>>, state |-> "reading"]
      /\ \A i \in 0..(len - 1) : seen[i + 1] = ReadStep(seen[i], segments[i + 1], end)
  BY <1>1, SeenSteps
<1> HIDE DEF last, end, seen, len
<1>4. 0 \in S
  <2>1. 0 \in 0..len /\ start \in start..end /\ start..(start - 1) = {} /\ 1..0 = {}
    BY <1>1
  <2>2. seen[0].cursor = start /\ seen[0].state = "reading"
    BY <1>3
  <2>3. LookOK(seen[0], segments, 0, start, end)
    BY <1>1, <2>1, <2>2 DEF LookOK
  <2> QED
    BY <2>1, <2>3
<1>5. ASSUME NEW i \in 0..(len - 1), i \in S
      PROVE  i + 1 \in S
  <2> DEFINE j == i + 1
  <2>1. j \in 1..len /\ j \in 0..len /\ j - 1 = i
    BY <1>1
  <2>2. seen[j] = ReadStep(seen[i], segments[j], end)
    BY <1>3
  <2>3. LookOK(seen[i], segments, j - 1, start, end)
    BY <1>5, <2>1
  <2> HIDE DEF j, S
  <2>4. LookOK(seen[j], segments, j, start, end)
    BY <1>1, <2>1, <2>2, <2>3, StepLooks DEF len
  <2> QED
    BY <2>1, <2>4 DEF S, j
<1>6. LookOK(last, segments, len, start, end)
  <2> HIDE DEF S
  <2>1. 0..len \subseteq S
    BY <1>1, <1>4, <1>5, Counting
  <2>2. len \in S
    BY <1>1, <2>1
  <2> QED
    BY <1>2, <2>2 DEF S
<1>7. last.cursor \in start..end /\ last.state \in {"reading", "gap", "complete"}
  BY <1>6 DEF LookOK
<1>8. ASSUME last.state = "complete"
      PROVE  start..(end - 1) \subseteq CoveredBy(segments)
  BY <1>1, <1>6, <1>8 DEF LookOK
<1>9. ASSUME last.state # "complete"
      PROVE  ~(start..(end - 1) \subseteq CoveredBy(segments))
  <2>1. last.cursor \in start..(end - 1)
    BY <1>1, <1>6, <1>7, <1>9 DEF LookOK
  <2>2. last.cursor \notin CoveredBy(segments)
    <3>1. CASE last.state = "gap"
      BY <1>6, <3>1 DEF LookOK
    <3>2. CASE last.state = "reading"
      <4> SUFFICES ASSUME last.cursor \in CoveredBy(segments)
                   PROVE  FALSE
        OBVIOUS
      <4>1. PICK i \in 1..len : last.cursor \in Positions(segments[i])
        BY <1>1, Covers
      <4>2. EndSample(segments[i]) <= last.cursor
        BY <1>6, <3>2 DEF LookOK
      <4>3. segments[i].start \in Nat /\ EndSample(segments[i]) \in Nat
        BY <1>1, SegmentEnd
      <4> QED
        <5>1. /\ last.cursor \in Int
              /\ last.cursor \in segments[i].start..(EndSample(segments[i]) - 1)
          BY <1>1, <1>7, <4>1 DEF Positions
        <5> QED
          BY <4>2, <4>3, <5>1
    <3> QED
      BY <1>7, <1>9, <3>1, <3>2
  <2> QED
    BY <2>1, <2>2
<1>10. start..(start + n - 1) = start..(end - 1)
  BY <1>1
<1> QED
  BY <1>8, <1>9, <1>10 DEF last

=============================================================================
