----------------------------- MODULE MCSequential -----------------------------
(***************************************************************************)
(* The sequential parts: the pipeline, the rechunker, the PCM conversions, *)
(* the batching of caches and the plugin's buffer of enhanced segments.    *)
(* They share no state; a behaviour drives one of them, the subject, and   *)
(* leaves the others as they were created.                                 *)
(***************************************************************************)
EXTENDS StreamingPipeline, EnhancedBuffer

CONSTANTS
    RechunkSamples, MaxPendingSamples, MaxChunk, MaxAppended,   \* Rechunker
    Radix, Fine, MaxConverted, Excess,                          \* PcmConversion
    BatchStreams, RfFreq, RnnBlocks, MaxHops                    \* ModelRuntime

ASSUME SequentialAssumption ==
    /\ {RechunkSamples, MaxChunk, RfFreq, RnnBlocks, Fine} \subseteq Nat \ {0}
    /\ {MaxPendingSamples, MaxAppended, MaxConverted, Excess, MaxHops} \subseteq Nat
    /\ MaxPendingSamples >= RechunkSamples
    /\ Radix \in Nat \ {0} /\ Radix % 2 = 0

VARIABLES
    subject,
    parts, pendingSamples, nextSample, pc, count, output, hops, appended,
    host, chunk, wave, reply,
    batchCaches, heard, batchOutput

rechunkingVars == <<parts, pendingSamples, nextSample, pc, count, output, hops, appended>>
conversionVars == <<host, chunk, wave, reply>>
batchingVars == <<batchCaches, heard, batchOutput>>

Rechunking == INSTANCE Rechunker WITH HopSamples <- RechunkSamples
Conversion == INSTANCE PcmConversion WITH MaxSamples <- MaxConverted
Batching == INSTANCE ModelRuntime WITH
    Streams <- BatchStreams, caches <- batchCaches, output <- batchOutput

SequentialInit ==
    /\ subject \in {"pipeline", "rechunker", "conversion", "batching", "buffer"}
    /\ Init
    /\ Rechunking!Init
    /\ Conversion!Init
    /\ Batching!Init
    /\ BufferInit

Pipelines ==
    /\ subject = "pipeline"
    /\ Next
    /\ UNCHANGED <<subject, rechunkingVars, conversionVars, batchingVars, segments>>
Rechunks ==
    /\ subject = "rechunker"
    /\ Rechunking!Next
    /\ UNCHANGED <<subject, vars, conversionVars, batchingVars, segments>>
Converts ==
    /\ subject = "conversion"
    /\ Conversion!Next
    /\ UNCHANGED <<subject, vars, rechunkingVars, batchingVars, segments>>
Batches ==
    /\ subject = "batching"
    /\ Batching!Next
    /\ UNCHANGED <<subject, vars, rechunkingVars, conversionVars, segments>>
Buffers ==
    /\ subject = "buffer"
    /\ BufferNext
    /\ UNCHANGED <<subject, vars, rechunkingVars, conversionVars, batchingVars>>

SequentialNext == Pipelines \/ Rechunks \/ Converts \/ Batches \/ Buffers

allVars == <<subject, vars, rechunkingVars, conversionVars, batchingVars, segments>>

SequentialSpec == SequentialInit /\ [][SequentialNext]_allVars

Symmetry == Permutations(Streams)

-----------------------------------------------------------------------------
(* The properties of the parts, each stated and explained in its module. *)

\* PCMRechunker: the deque holds what is counted and not copied yet, and hops and
\* remainder are the appended samples in order.
Recut == Rechunking!Recut

\* pcm16le_to_float32: the wire is little-endian on every host.
WireIsLittleEndian == Conversion!WireIsLittleEndian
\* float32_to_pcm16le: the nearest level, clipped and never wrapped.
NearestLevel == Conversion!NearestLevel

\* infer_batch: the caches and the audio of a stream are those of the stream alone.
BatchingIsTransparent == Batching!BatchingIsTransparent

=============================================================================
