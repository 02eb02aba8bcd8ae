--------------------------- MODULE StreamingPipeline ---------------------------
(***************************************************************************)
(* The single-stream pipeline (pipeline.py), one per stream: every source  *)
(* hop goes through the model by itself, and the audio that comes back is  *)
(* the enhancement of the hop before it.  This is the specification of     *)
(* what a stream hears; the batching server is shown to implement it.      *)
(***************************************************************************)
EXTENDS Integers, Sequences

CONSTANTS
    Streams,       \* the streams, one pipeline each
    Nothing,       \* Python's None: no pending hop, nothing absorbed
    HopSamples,    \* HOP_SAMPLES
    MaxSamples     \* bound: most samples pushed into one pipeline

ASSUME PipelineAssumption ==
    /\ HopSamples \in Nat \ {0}
    /\ MaxSamples \in Nat

VARIABLES
    pending,       \* StreamingPipeline._pending
    caches,        \* StreamingPipeline.caches: the hop absorbed last
    produced,      \* the enhanced hops returned so far
    closed         \* StreamingPipeline._closed

vars == <<pending, caches, produced, closed>>

SourceHop == [start : Nat, valid : 1..HopSamples]
ASSUME NothingIsNoHop == Nothing \notin SourceHop

CacheContent == [stream : Streams, start : Nat] \cup {Nothing}
EnhancedHop == [start : Nat, valid : 1..HopSamples, heard : CacheContent]

Init ==
    /\ pending = [s \in Streams |-> Nothing]
    /\ caches = [s \in Streams |-> Nothing]
    /\ produced = [s \in Streams |-> <<>>]
    /\ closed = [s \in Streams |-> FALSE]

\* A caller pushes consecutive hops.
NextStart(s) == IF pending[s] = Nothing THEN 0 ELSE pending[s].start + pending[s].valid

\* infer_batch of one row returns what the caches had absorbed.
Return(s) ==
    produced' = IF pending[s] = Nothing THEN produced
                ELSE [produced EXCEPT ![s] =
                        Append(@, [start |-> pending[s].start, valid |-> pending[s].valid,
                                   heard |-> caches[s]])]

\* (fault: nothing is absorbed)
Absorb_Nothing(s, content) == UNCHANGED caches
Absorb(s, content) == caches' = [caches EXCEPT ![s] = content]

Push(s, hop) ==
    /\ ~closed[s]
    /\ hop.start = NextStart(s)
    /\ hop.start + hop.valid <= MaxSamples
    /\ Return(s)
    /\ Absorb(s, [stream |-> s, start |-> hop.start])
    /\ pending' = [pending EXCEPT ![s] = hop]
    /\ UNCHANGED closed

\* flush absorbs a hop of zeros and returns the last hop, if there is one.
\* (fault: the pipeline stays open)
Flush_StaysOpen(s) ==
    /\ ~closed[s]
    /\ UNCHANGED closed
    /\ Return(s)
    /\ Absorb(s, Nothing)
    /\ pending' = [pending EXCEPT ![s] = Nothing]
Flush(s) ==
    /\ ~closed[s]
    /\ closed' = [closed EXCEPT ![s] = TRUE]
    /\ Return(s)
    /\ Absorb(s, Nothing)
    /\ pending' = [pending EXCEPT ![s] = Nothing]

\* The caller stops using a pipeline: what is pending is never returned.
Abandon(s) ==
    /\ ~closed[s]
    /\ closed' = [closed EXCEPT ![s] = TRUE]
    /\ Absorb(s, Nothing)
    /\ pending' = [pending EXCEPT ![s] = Nothing]
    /\ UNCHANGED produced

Next ==
    \E s \in Streams :
        \/ \E valid \in 1..HopSamples : Push(s, [start |-> NextStart(s), valid |-> valid])
        \/ Flush(s)
        \/ Abandon(s)

Spec == Init /\ [][Next]_vars

-----------------------------------------------------------------------------
TypeOK ==
    /\ pending \in [Streams -> SourceHop \cup {Nothing}]
    /\ caches \in [Streams -> CacheContent]
    /\ produced \in [Streams -> Seq(EnhancedHop)]
    /\ closed \in [Streams -> BOOLEAN]

\* The delay of the model is compensated: what is returned under the position
\* of a hop was computed from that hop, of that stream.
DelayCompensated ==
    \A s \in Streams : \A i \in DOMAIN produced[s] :
        produced[s][i].heard = [stream |-> s, start |-> produced[s][i].start]

\* The hops returned tile the source, and the pending hop comes next.
EndOf(hop) == hop.start + hop.valid
ProducedContiguous ==
    \A s \in Streams :
        LET out == produced[s]
        IN  /\ \A i \in DOMAIN out : out[i].start = IF i = 1 THEN 0 ELSE EndOf(out[i-1])
            /\ pending[s] # Nothing =>
                 pending[s].start = IF out = <<>> THEN 0 ELSE EndOf(out[Len(out)])

=============================================================================
