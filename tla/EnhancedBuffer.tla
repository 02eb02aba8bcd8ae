---------------------------- MODULE EnhancedBuffer ----------------------------
(***************************************************************************)
(* EnhancedSegments (timeline.py) under any sequence of calls: runs of any *)
(* length arrive in any order, overlapping or repeated; the past is        *)
(* discarded at any position.  Each position has a sample in each of       *)
(* Takes, so that two runs for one position may differ.                    *)
(***************************************************************************)
EXTENDS Timeline, FiniteSets

CONSTANTS
    LastPosition,   \* bound: positions are 0..LastPosition
    Takes           \* versions of the audio, for example of two connections

ASSUME BufferAssumption == LastPosition \in Nat

VARIABLE segments   \* _segments

Sample == [position : 0..LastPosition, take : Takes]
Runs == UNION {
    {Run(first, [i \in 1..n |-> [position |-> first + i - 1, take |-> t]]) :
        n \in 1..(LastPosition + 1 - first), t \in Takes} : first \in 0..LastPosition}

BufferInit == segments = <<>>

Insert(run) ==
    /\ ~InsertRaises(segments, run)
    /\ segments' = Inserted(segments, run)

\* (a run that raises leaves the buffer as it is: no step)

Discard(sample) == segments' = Discarded(segments, sample)

Clear == segments' = <<>>

BufferNext ==
    \/ \E run \in Runs : Insert(run)
    \/ \E sample \in 0..(LastPosition + 1) : Discard(sample)
    \/ Clear

BufferSpec == BufferInit /\ [][BufferNext]_segments

-----------------------------------------------------------------------------
(* Properties. *)

Covered == UNION {Positions(segments[i]) : i \in DOMAIN segments}
SampleAt(p) ==
    LET i == CHOOSE i \in DOMAIN segments : p \in Positions(segments[i])
    IN  Slice(segments[i], p, p + 1)[1]

\* The segments are non-empty, sorted and disjoint, which read relies on when
\* it gives up at the first segment behind the cursor.
Sorted ==
    /\ \A i \in DOMAIN segments : segments[i].data # <<>>
    /\ \A i, j \in DOMAIN segments : i < j => EndSample(segments[i]) <= segments[j].start

\* read returns the samples of exactly the range it was asked for, across
\* however many segments, and None as soon as one position is missing.
ReadIsLookup ==
    \A start \in 0..LastPosition : \A n \in 1..(LastPosition + 1 - start) :
        Read(segments, start, n) =
            IF start..(start + n - 1) \subseteq Covered
            THEN [i \in 1..n |-> SampleAt(start + i - 1)] ELSE None

\* Together, what the processor relies on.
ReadsAreLookups == Sorted /\ ReadIsLookup

\* Whatever the calls, the buffer is a map from positions to samples: a run
\* never replaces part of another one, ...
Known == [p \in Covered |-> SampleAt(p)]
Map == INSTANCE SampleMap WITH known <- Known
ImplementsMap == Map!Spec

\* ... and discarding keeps every sample from the position on, also of a segment
\* that the position cuts.
DiscardsThePast ==
    [][\A sample \in 0..(LastPosition + 1) : Discard(sample) =>
           Known' = [p \in {q \in Covered : q >= sample} |-> SampleAt(p)]]_segments

=============================================================================
