------------------------------- MODULE Rechunker -------------------------------
(***************************************************************************)
(* PCMRechunker (audio.py): PCM chunks of any size go into a deque of      *)
(* tensors, and hops of exactly HopSamples samples are copied out of its   *)
(* front, a part at a time.  One iteration of the copying loop is one      *)
(* step.  A sample is its position in the stream; the service's model      *)
(* (StreamSession) keeps only the counts that this module justifies.       *)
(***************************************************************************)
EXTENDS Integers, Sequences, SequencesExt

CONSTANTS
    HopSamples,          \* HOP_SAMPLES
    MaxPendingSamples,   \* the constructor's max_pending_samples
    MaxChunk,            \* bound: most samples of one chunk
    MaxAppended          \* bound: most samples appended in all

VARIABLES
    parts,           \* _parts
    pendingSamples,  \* _pending_samples
    nextSample,      \* _next_sample
    pc,              \* where append or flush_partial stands
    count,           \* how many samples _take was asked for
    output,          \* what _take has copied so far
    hops,            \* history: the hops returned
    appended         \* history: how many samples were appended

vars == <<parts, pendingSamples, nextSample, pc, count, output, hops, appended>>

Init ==
    /\ parts = <<>>
    /\ pendingSamples = 0
    /\ nextSample = 0
    /\ pc = "rest"
    /\ count = 0
    /\ output = <<>>
    /\ hops = <<>>
    /\ appended = 0

\* append: a chunk that does not fit raises BufferError and changes nothing.
Fits(n) == pendingSamples + n <= MaxPendingSamples
AppendChunk(n) ==
    /\ pc = "rest"
    /\ appended + n <= MaxAppended
    /\ Fits(n)
    /\ parts' = Append(parts, [i \in 1..n |-> appended + i - 1])
    /\ pendingSamples' = pendingSamples + n
    /\ appended' = appended + n
    /\ pc' = "draining"
    /\ UNCHANGED <<nextSample, count, output, hops>>

\* _take(n) begins.
Take(n, state) ==
    /\ count' = n
    /\ output' = <<>>
    /\ pc' = state
    /\ UNCHANGED <<parts, pendingSamples, nextSample, hops, appended>>

\* _drain_full_hops: as long as a whole hop is pending.
\* (fault: a hop that is exactly complete is left behind)
HasFullHop_Strict == pendingSamples > HopSamples
HasFullHop == pendingSamples >= HopSamples
DrainHop == pc = "draining" /\ HasFullHop /\ Take(HopSamples, "takingHop")
DrainDone ==
    /\ pc = "draining"
    /\ ~HasFullHop
    /\ pc' = "rest"
    /\ UNCHANGED <<parts, pendingSamples, nextSample, count, output, hops, appended>>

\* flush_partial: everything that is left, if anything is.
FlushPartial == pc = "rest" /\ pendingSamples > 0 /\ Take(pendingSamples, "takingPartial")

\* One iteration of _take: the first part is used up or shortened.
Taking == pc \in {"takingHop", "takingPartial"}
Smaller(a, b) == IF a <= b THEN a ELSE b
TakenFromFirst == Smaller(count - Len(output), Len(Head(parts)))
Shortened(part, n) == SubSeq(part, n + 1, Len(part))
CopyPart ==
    /\ Taking
    /\ Len(output) < count
    /\ LET part == Head(parts)
           n == TakenFromFirst
       IN  /\ output' = output \o SubSeq(part, 1, n)
           /\ parts' = (IF n = Len(part) THEN <<>> ELSE <<Shortened(part, n)>>) \o Tail(parts)
    /\ UNCHANGED <<pendingSamples, nextSample, pc, count, hops, appended>>

\* _take returns, and its caller makes a hop of what it copied.
\* (fault: the whole model hop is counted even when fewer samples were real)
Counted_Padded == HopSamples
Counted == count
HopTaken ==
    /\ Taking
    /\ Len(output) = count
    /\ pendingSamples' = pendingSamples - count
    /\ hops' = Append(hops, [start |-> nextSample, samples |-> output])
    /\ nextSample' = nextSample + Counted
    /\ pc' = IF pc = "takingHop" THEN "draining" ELSE "rest"
    /\ count' = 0
    /\ output' = <<>>
    /\ UNCHANGED <<parts, appended>>

Next ==
    \/ \E n \in 1..MaxChunk : AppendChunk(n)
    \/ DrainHop \/ DrainDone \/ FlushPartial \/ CopyPart \/ HopTaken

Spec == Init /\ [][Next]_vars

-----------------------------------------------------------------------------
(* Properties. *)

\* The deque always holds the samples that are counted and not copied yet, so
\* the loop of _take never looks for a part in an empty deque, and it holds
\* no empty part, on which the loop would not advance.
CountsMatchParts ==
    /\ Len(FlattenSeq(parts)) = pendingSamples - Len(output)
    /\ \A i \in DOMAIN parts : parts[i] # <<>>
    /\ Taking => Len(output) <= count /\ count <= pendingSamples

\* Between calls, the hops returned and the parts left are the appended
\* samples in order, each hop labelled with the position of its first sample,
\* and less than one hop is left.
Returned == FlattenSeq([i \in DOMAIN hops |-> hops[i].samples])
Resliced ==
    pc = "rest" =>
        /\ Returned \o FlattenSeq(parts) = [i \in 1..appended |-> i - 1]
        /\ \A i \in DOMAIN hops : hops[i].start = Head(hops[i].samples)
        /\ pendingSamples < HopSamples
        /\ nextSample + pendingSamples = appended

\* Both: inside the copying loop and between the calls.
Recut == CountsMatchParts /\ Resliced

=============================================================================
