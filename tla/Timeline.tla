------------------------------- MODULE Timeline -------------------------------
(***************************************************************************)
(* The buffers of the plugin (timeline.py): PCM under absolute sample      *)
(* positions.  ContiguousPCM and one Segment are both a run, the position  *)
(* of a first sample and the samples from there on; EnhancedSegments is a  *)
(* sequence of runs.  Operators only: the buffers are state of the frame   *)
(* processor, and of EnhancedBuffer, which drives them on their own.       *)
(***************************************************************************)
EXTENDS Integers, Sequences, SequencesExt

CONSTANT None   \* Python's None: what read returns for a gap

Run(start, data) == [start |-> start, data |-> data]
EndSample(run) == run.start + Len(run.data)
Positions(run) == run.start..(EndSample(run) - 1)

AtMost(a, b) == IF a <= b THEN a ELSE b
AtLeast(a, b) == IF a <= b THEN b ELSE a

\* The samples of a run at the positions [from, until).
Slice(run, from, until) == SubSeq(run.data, from - run.start + 1, until - run.start)

-----------------------------------------------------------------------------
(* ContiguousPCM.  append and read raise unless Appendable or Readable.      *)

Appendable(raw, start) == start = EndSample(raw)
Appended(raw, data) == Run(raw.start, raw.data \o data)

Readable(raw, start, n) == raw.start <= start /\ start + n <= EndSample(raw)
RawRead(raw, start, n) == Slice(raw, start, start + n)

\* discard_before: also what EnhancedSegments does to one of its segments.
DiscardBefore(raw, sample) ==
    LET removed == AtMost(AtLeast(0, sample - raw.start), Len(raw.data))
    IN  Run(raw.start + removed, SubSeq(raw.data, removed + 1, Len(raw.data)))

-----------------------------------------------------------------------------
(* EnhancedSegments. *)

\* (fault: runs that share one sample do not overlap)
Overlap_Loose(a, b) == ~(EndSample(a) <= b.start + 1 \/ a.start + 1 >= EndSample(b))
Overlap(a, b) == ~(EndSample(a) <= b.start \/ a.start >= EndSample(b))
Overlapping(segments, run) == {i \in DOMAIN segments : Overlap(run, segments[i])}

\* insert raises ValueError for an empty run and for one whose first overlap
\* is with a segment that is not the same run.
InsertRaises(segments, run) ==
    \/ run.data = <<>>
    \/ /\ Overlapping(segments, run) # {}
       /\ segments[Min(Overlapping(segments, run))] # run

\* ... ignores a duplicate, and otherwise adds the run and sorts by position;
\* of a sorted list that is insertion behind the runs that start no later.
NoLater(segments, run) == {i \in DOMAIN segments : segments[i].start <= run.start}
Inserted(segments, run) ==
    IF Overlapping(segments, run) # {} THEN segments
    ELSE InsertAt(segments, Cardinality(NoLater(segments, run)) + 1, run)

\* The loop of read: skip what lies before the cursor, give up at a gap, stop
\* at the end.  (fault: every segment is taken from its first sample)
ReadStep_FromStart(seen, segment, end) ==
    IF seen.state # "reading" \/ EndSample(segment) <= seen.cursor THEN seen
    ELSE IF segment.start > seen.cursor THEN [seen EXCEPT !.state = "gap"]
    ELSE LET until == AtMost(EndSample(segment), end)
         IN  [cursor |-> until,
              output |-> seen.output \o SubSeq(segment.data, 1, until - seen.cursor),
              state |-> IF until = end THEN "complete" ELSE "reading"]
ReadStep(seen, segment, end) ==
    IF seen.state # "reading" \/ EndSample(segment) <= seen.cursor THEN seen
    ELSE IF segment.start > seen.cursor THEN [seen EXCEPT !.state = "gap"]
    ELSE LET until == AtMost(EndSample(segment), end)
         IN  [cursor |-> until,
              output |-> seen.output \o Slice(segment, seen.cursor, until),
              state |-> IF until = end THEN "complete" ELSE "reading"]
\* What the loop has, by the number of segments it has been over.
Seen(segments, start, end) ==
    LET seen[i \in 0..Len(segments)] ==
            IF i = 0 THEN [cursor |-> start, output |-> <<>>, state |-> "reading"]
            ELSE ReadStep(seen[i - 1], segments[i], end)
    IN  seen
Read(segments, start, n) ==
    LET last == Seen(segments, start, start + n)[Len(segments)]
    IN  IF last.state = "complete" THEN last.output ELSE None

\* What ends by the cut is dropped; of a sorted list without overlap, the first
\* segments.  The rest is cut.
Past(segments, sample) == {i \in DOMAIN segments : EndSample(segments[i]) <= sample}
\* (fault: a segment that straddles the cut is dropped as a whole)
Discarded_Whole(segments, sample) ==
    SelectSeq(segments, LAMBDA segment : segment.start >= sample)
Discarded(segments, sample) ==
    LET kept == SubSeq(segments, Cardinality(Past(segments, sample)) + 1, Len(segments))
    IN  [i \in DOMAIN kept |-> DiscardBefore(kept[i], sample)]

=============================================================================
