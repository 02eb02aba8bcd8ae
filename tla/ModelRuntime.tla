----------------------------- MODULE ModelRuntime -----------------------------
(***************************************************************************)
(* The model as the scheduler calls it (model.py): the caches of the       *)
(* streams of a batch are concatenated, one network runs over all rows,    *)
(* and the caches are split again.  Signal caches have a row per stream;   *)
(* recurrent caches a block of RfFreq rows per stream and no other mark of *)
(* whose they are.  A cache row is the hops it has absorbed and, for a     *)
(* recurrent one, the frequency it belongs to: of the network's arithmetic *)
(* only what depends on what is left.                                      *)
(***************************************************************************)
EXTENDS Integers, Sequences, SequencesExt, FiniteSets

CONSTANTS
    Streams,
    RfFreq,         \* rows of a stream in a recurrent cache
    RnnBlocks,      \* recurrent caches
    MaxHops         \* bound: hops of a stream

VARIABLES
    caches,         \* by stream: the StreamCaches its session holds
    heard,          \* history: by stream, the hops the model was given
    output          \* by stream: the last row of audio it got

vars == <<caches, heard, output>>

Hop(s, k) == [stream |-> s, number |-> k]

\* What a stream's caches hold after some hops.
CachesAfter(hops) ==
    [stft |-> <<hops>>, istft |-> <<hops>>,
     rnn |-> [b \in 1..RnnBlocks |-> [f \in 1..RfFreq |-> [frequency |-> f, hops |-> hops]]]]

\* assert_layout: the shapes of the caches of a batch.
LayoutOK(c, batch) ==
    /\ Len(c.stft) = batch
    /\ Len(c.istft) = batch
    /\ Len(c.rnn) = RnnBlocks
    /\ \A b \in DOMAIN c.rnn : Len(c.rnn[b]) = batch * RfFreq

Combined(batch) ==
    [stft |-> FlattenSeq([i \in DOMAIN batch |-> batch[i].stft]),
     istft |-> FlattenSeq([i \in DOMAIN batch |-> batch[i].istft]),
     rnn |-> [b \in 1..RnnBlocks |-> FlattenSeq([i \in DOMAIN batch |-> batch[i].rnn[b]])]]

\* (fault: a block starts at the row of the stream)
Split_ByRow(c, size) ==
    [i \in 1..size |->
        [stft |-> SubSeq(c.stft, i, i), istft |-> SubSeq(c.istft, i, i),
         rnn |-> [b \in 1..RnnBlocks |-> SubSeq(c.rnn[b], i, i + RfFreq - 1)]]]
Split(c, size) ==
    [i \in 1..size |->
        LET start == (i - 1) * RfFreq
        IN  [stft |-> SubSeq(c.stft, i, i), istft |-> SubSeq(c.istft, i, i),
             rnn |-> [b \in 1..RnnBlocks |-> SubSeq(c.rnn[b], start + 1, start + RfFreq)]]]

\* The network, row by row: each absorbs the hop of its stream (the rows of a
\* recurrent cache are [batch, frequency]), and the audio of a stream is computed
\* from all that its rows have absorbed.
Absorbed(c, hops) ==
    LET Owner(row) == (row - 1) \div RfFreq + 1
    IN  [stft |-> [i \in DOMAIN hops |-> Append(c.stft[i], hops[i])],
         istft |-> [i \in DOMAIN hops |-> Append(c.istft[i], hops[i])],
         rnn |-> [b \in 1..RnnBlocks |->
                    [row \in DOMAIN c.rnn[b] |->
                        [c.rnn[b][row] EXCEPT !.hops = Append(@, hops[Owner(row)])]]]]
AudioFrom(c, i) == UNION {ToSet(c.stft[i]), ToSet(c.istft[i]),
                          UNION {ToSet(c.rnn[b][row].hops) : b \in 1..RnnBlocks,
                                     row \in ((i - 1) * RfFreq + 1)..(i * RfFreq)}}

-----------------------------------------------------------------------------

Init ==
    /\ caches = [s \in Streams |-> CachesAfter(<<>>)]
    /\ heard = [s \in Streams |-> <<>>]
    /\ output = [s \in Streams |-> {}]

\* A batch: distinct streams in any order, one hop each.
Batches == {batch \in SeqOf(Streams, Cardinality(Streams)) :
               batch # <<>> /\ IsInjective(batch)}

InferBatch(batch) ==
    LET hops == [i \in DOMAIN batch |-> Hop(batch[i], Len(heard[batch[i]]) + 1)]
        combined == Combined([i \in DOMAIN batch |-> caches[batch[i]]])
        updated == Absorbed(combined, hops)
        rows == Split(updated, Len(batch))
        Place(s) == CHOOSE i \in DOMAIN batch : batch[i] = s
    IN  /\ \A i \in DOMAIN batch : Len(heard[batch[i]]) < MaxHops
        /\ \A i \in DOMAIN batch : LayoutOK(caches[batch[i]], 1)
        /\ LayoutOK(combined, Len(batch))
        /\ caches' = [s \in Streams |-> IF s \in ToSet(batch) THEN rows[Place(s)] ELSE caches[s]]
        /\ output' = [s \in Streams |->
                         IF s \in ToSet(batch) THEN AudioFrom(updated, Place(s)) ELSE output[s]]
        /\ heard' = [s \in Streams |->
                        IF s \in ToSet(batch) THEN Append(heard[s], hops[Place(s)]) ELSE heard[s]]

\* (a batch that raises, for its shapes or a result that is not finite, changes
\* nothing here: the scheduler fails its streams)

Next == \E batch \in Batches : InferBatch(batch)

Spec == Init /\ [][Next]_vars

-----------------------------------------------------------------------------
(* Properties. *)

\* Batching is transparent: whatever batches its hops travelled in, at whatever
\* place, the caches of a stream are those of the stream processed alone, every
\* block at its own frequency.
CachesAreOwn == \A s \in Streams : caches[s] = CachesAfter(heard[s])

\* ... and its audio was computed from its own hops.
AudioIsOwn == \A s \in Streams : output[s] = ToSet(heard[s])

BatchingIsTransparent == CachesAreOwn /\ AudioIsOwn

=============================================================================
