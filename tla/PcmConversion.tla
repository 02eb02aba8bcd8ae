---------------------------- MODULE PcmConversion ----------------------------
(***************************************************************************)
(* PCM-S16LE to float32 and back (audio.py), at the edges of the range and *)
(* on hosts of either byte order.  A byte is a digit to the base Radix and *)
(* a sample has two.  A float is a whole number of steps of 1/(Full*Fine): *)
(* Fine steps are one PCM level, so that a wave can lie between levels.    *)
(***************************************************************************)
EXTENDS Integers, Sequences, SequencesExt

CONSTANTS
    Radix,          \* 256 in the program
    Fine,           \* float values per PCM level
    MaxSamples,     \* bound: samples of a chunk
    Excess          \* bound: levels by which the network exceeds full scale

VARIABLES
    host,           \* sys.byteorder
    chunk,          \* PCM received, until the network has been over it
    wave,           \* float samples
    reply           \* PCM returned

vars == <<host, chunk, wave, reply>>

Byte == 0..(Radix - 1)
Full == (Radix * Radix) \div 2      \* 32768

\* array("h"): two's complement in two bytes, in the order of the host.
Signed(n) == ((n + Full) % (2 * Full)) - Full
Native(low, high) == IF host = "little" THEN Signed(low + Radix * high)
                                        ELSE Signed(high + Radix * low)
NativeBytes(p) ==
    LET n == p % (2 * Full)
    IN  IF host = "little" THEN <<n % Radix, n \div Radix>> ELSE <<n \div Radix, n % Radix>>

\* byteswap, on hosts that are not little-endian.
Swapped(p) ==
    LET b == NativeBytes(p) IN IF host = "little" THEN p ELSE Native(b[2], b[1])

\* (fault: the array is left in the order of the host)
Decoded_NoSwap(pcm) ==
    [i \in 1..(Len(pcm) \div 2) |-> Fine * Native(pcm[2 * i - 1], pcm[2 * i])]
Decoded(pcm) ==
    [i \in 1..(Len(pcm) \div 2) |-> Fine * Swapped(Native(pcm[2 * i - 1], pcm[2 * i]))]

\* clamp, and round to a whole level, to the even one of two as near.
\* (fault: positive full scale is kept)
Clamped_FullScale(v) ==
    IF v < -Full * Fine THEN -Full * Fine ELSE IF v > Full * Fine THEN Full * Fine ELSE v
Clamped(v) ==
    IF v < -Full * Fine THEN -Full * Fine
    ELSE IF v > (Full - 1) * Fine THEN (Full - 1) * Fine ELSE v
Rounded(v) ==
    LET below == v \div Fine
        rest == 2 * (v % Fine)
    IN  IF rest < Fine \/ (rest = Fine /\ below % 2 = 0) THEN below ELSE below + 1

Encoded(samples) ==
    FlattenSeq([i \in DOMAIN samples |-> NativeBytes(Swapped(Signed(Rounded(Clamped(samples[i])))))])

-----------------------------------------------------------------------------

Init ==
    /\ host \in {"little", "big"}
    /\ chunk = <<>> /\ wave = <<>> /\ reply = <<>>

\* pcm16le_to_float32 raises for no bytes and for an odd number of them.  The
\* conversions keep nothing between chunks, so that one chunk shows them all.
Decode(pcm) ==
    /\ wave = <<>>
    /\ pcm # <<>> /\ Len(pcm) % 2 = 0
    /\ chunk' = pcm
    /\ wave' = Decoded(pcm)
    /\ reply' = <<>>
    /\ UNCHANGED host

\* The network returns whatever it likes, as long as it is finite.
Enhance(samples) ==
    /\ chunk # <<>>
    /\ Len(samples) = Len(wave)
    /\ chunk' = <<>>
    /\ wave' = samples
    /\ reply' = <<>>
    /\ UNCHANGED host

Encode ==
    /\ wave # <<>>
    /\ reply' = Encoded(wave)
    /\ UNCHANGED <<host, chunk, wave>>

Levels == (-(Full + Excess) * Fine)..((Full + Excess) * Fine)

Next ==
    \/ \E n \in 0..(2 * MaxSamples) : \E pcm \in [1..n -> Byte] : Decode(pcm)
    \/ \E n \in 1..MaxSamples : \E samples \in [1..n -> Levels] : Enhance(samples)
    \/ Encode

Spec == Init /\ [][Next]_vars

-----------------------------------------------------------------------------
(* Properties. *)

\* The value of a sample on the wire, whatever the host.
OnWire(pcm, i) == Signed(pcm[2 * i - 1] + Radix * pcm[2 * i])
Distance(a, b) == IF a < b THEN b - a ELSE a - b

\* A host of either order reads the same audio from the same bytes.
WireIsLittleEndian ==
    chunk # <<>> => \A i \in DOMAIN wave : wave[i] = Fine * OnWire(chunk, i)

\* What is returned is the level nearest to the wave: in range it is at most
\* half a level off, beyond it the sample clips and never wraps around.  Audio
\* that the network leaves alone thus comes back bit for bit, -32768 included.
NearestLevel ==
    reply # <<>> =>
        /\ Len(reply) = 2 * Len(wave)
        /\ \A i \in DOMAIN wave : \A p \in (-Full)..(Full - 1) :
               Distance(wave[i], Fine * OnWire(reply, i)) <= Distance(wave[i], Fine * p)

=============================================================================
