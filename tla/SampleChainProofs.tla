--------------------------- MODULE SampleChainProofs ---------------------------
(* From the first sample a client sent to the last one it has received nothing *)
(* is missing, repeated or out of order (session.py, scheduler.py, service.py  *)
(* and audio.py together), for every number of streams, every queue length,    *)
(* chunk, batch and hop size.  The completion StreamEnded reports and the      *)
(* refinement of the single-stream pipeline follow from the same invariant.    *)
EXTENDS EnhancementServiceProofs

(* The input of one stream, as values: x is the session, works its queued work *)
(* followed by what a blocked put still holds, flight its work at the model.   *)

\* The works continue from sample first up to sample end.
Continues(works, first, end) ==
    /\ \A i \in 1..Sourced(works) : IsSource(works[i]) /\ EndOf(works[i]) <= end
    /\ Tile(works, Sourced(works), first, end)

AllSource(works) == \A i \in DOMAIN works : IsSource(works[i])

\* InputChain in inductive form: the hop in flight starts where the pending one
\* ends, hops end before the rechunker's next sample, and a flush is the end.
Chained(x, works, flight) ==
    /\ x.inputSamples = x.nextSample + x.buffered
    /\ x.outputSamples = IF x.pending = None THEN 0 ELSE x.pending.start
    /\ AfterPending(x) <= x.nextSample
    /\ FlushWork \in flight \cup Elements(works) => x.buffered = 0
    /\ flight = {} => Continues(works, AfterPending(x), x.nextSample)
    /\ \A work \in flight :
          \/ /\ IsSource(work)
             /\ work.start = AfterPending(x)
             /\ EndOf(work) <= x.nextSample
             /\ Continues(works, EndOf(work), x.nextSample)
          \/ /\ work = FlushWork
             /\ works = <<>>
             /\ AfterPending(x) = x.nextSample

-----------------------------------------------------------------------------
(* Queues of work that continue one another. *)

LEMMA WorkTypes ==
    ASSUME NEW work \in ModelWork
    PROVE  /\ IsSource(work) => /\ work.start \in Nat /\ work.valid \in 1..HopSamples
                                /\ EndOf(work) \in Nat /\ EndOf(work) > work.start
           /\ ~IsSource(work) => work \in {FlushWork, NoFlushWork}
           /\ ~IsSource(FlushWork) /\ ~IsSource(NoFlushWork) /\ FlushWork # NoFlushWork
BY SessionAssumption DEF ModelWork, FlushWork, NoFlushWork, IsSource, EndOf

LEMMA SourcedBounds ==
    ASSUME NEW works \in Seq(ModelWork)
    PROVE  /\ Len(works) \in Nat /\ DOMAIN works = 1..Len(works)
           /\ \A i \in DOMAIN works : works[i] \in ModelWork
           /\ works = <<>> <=> Len(works) = 0
           /\ Sourced(works) \in Nat
           /\ Sourced(works) \in {Len(works), Len(works) - 1}
           /\ works # <<>> =>
                Sourced(works) = IF IsSource(works[Len(works)]) THEN Len(works)
                                                                ELSE Len(works) - 1
           /\ AllSource(works) => Sourced(works) = Len(works)
<1>1. /\ Len(works) \in Nat /\ DOMAIN works = 1..Len(works)
      /\ \A i \in DOMAIN works : works[i] \in ModelWork
  OBVIOUS
<1>2. works = <<>> <=> Len(works) = 0
  BY <1>1, EmptySeq
<1>3. CASE works = <<>>
  BY <1>1, <1>2, <1>3 DEF Sourced
<1>4. CASE works # <<>>
  <2>1. Len(works) \in DOMAIN works /\ Len(works) >= 1
    BY <1>1, <1>2, <1>4
  <2>2. Sourced(works) = IF IsSource(works[Len(works)]) THEN Len(works) ELSE Len(works) - 1
    BY <1>4 DEF Sourced
  <2>3. Sourced(works) \in Nat /\ Sourced(works) \in {Len(works), Len(works) - 1}
    BY <1>1, <2>1, <2>2
  <2>4. AllSource(works) => Sourced(works) = Len(works)
    BY <2>1, <2>2 DEF AllSource
  <2> QED
    BY <1>1, <1>2, <2>2, <2>3, <2>4
<1> QED
  BY <1>3, <1>4

\* The head starts where the queue does, and the tail continues it.
LEMMA ContinuesTail ==
    ASSUME NEW works \in Seq(ModelWork), works # <<>>,
           NEW first \in Nat, NEW end \in Nat, Continues(works, first, end)
    PROVE  /\ IsSource(Head(works)) => /\ Head(works).start = first
                                       /\ EndOf(Head(works)) <= end
                                       /\ Continues(Tail(works), EndOf(Head(works)), end)
           /\ ~IsSource(Head(works)) => Tail(works) = <<>> /\ first = end
<1> DEFINE n == Len(works)
           k == Sourced(works)
           rest == Tail(works)
<1>1. /\ n \in Nat \ {0} /\ DOMAIN works = 1..n /\ works[1] = Head(works)
      /\ rest \in Seq(ModelWork) /\ Len(rest) = n - 1
      /\ \A i \in 1..(n - 1) : rest[i] = works[i + 1]
  BY TailElements
<1> HIDE DEF rest, n, k
<1>2. k \in Nat /\ k = IF IsSource(works[n]) THEN n ELSE n - 1
  BY SourcedBounds DEF n, k
<1>3. /\ \A i \in 1..k : IsSource(works[i]) /\ EndOf(works[i]) <= end
      /\ \A i \in 1..k : works[i].start = IF i = 1 THEN first ELSE EndOf(works[i - 1])
      /\ end = IF k = 0 THEN first ELSE EndOf(works[k])
  BY DEF Continues, Tile, k
<1>4. CASE k = 0
  <2>1. n = 1 /\ ~IsSource(works[1])
    BY <1>1, <1>2, <1>4
  <2>2. rest = <<>>
    <3>1. Len(rest) = 0
      BY <1>1, <2>1
    <3> QED
      BY <1>1, <3>1, EmptySeq
  <2>3. end = first
    BY <1>3, <1>4
  <2> QED
    BY <1>1, <2>1, <2>2, <2>3 DEF rest
<1>5. CASE k # 0
  <2>1. k >= 1 /\ 1 \in 1..k
    BY <1>2, <1>5
  <2>2. IsSource(works[1]) /\ works[1].start = first /\ EndOf(works[1]) <= end
    BY <1>3, <2>1
  <2>3. rest = <<>> <=> n = 1
    BY <1>1, EmptySeq
  <2>4. Sourced(rest) = k - 1
    <3>1. CASE n = 1
      BY <1>1, <1>2, <2>2, <2>3, <3>1 DEF Sourced, rest
    <3>2. CASE n # 1
      <4>1. n - 1 \in 1..(n - 1) /\ rest[n - 1] = works[n]
        BY <1>1, <3>2
      <4>2. rest # <<>>
        BY <2>3, <3>2
      <4> QED
        BY <1>1, <1>2, <4>1, <4>2, SourcedBounds
    <3> QED
      BY <3>1, <3>2
  <2>5. \A i \in 1..(k - 1) : i \in 1..(n - 1) /\ i + 1 \in 1..k /\ rest[i] = works[i + 1]
    BY <1>1, <1>2
  <2>6. \A i \in 1..(k - 1) : IsSource(rest[i]) /\ EndOf(rest[i]) <= end
    BY <1>3, <2>5
  <2>7. ASSUME NEW i \in 1..(k - 1)
        PROVE  rest[i].start = IF i = 1 THEN EndOf(works[1]) ELSE EndOf(rest[i - 1])
    <3>1. i + 1 \in 1..k /\ i + 1 # 1 /\ (i + 1) - 1 = i /\ i \in Nat
      BY <1>2
    <3>2. rest[i].start = EndOf(works[i])
      BY <1>3, <2>5, <3>1
    <3>3. i # 1 => i - 1 \in 1..(k - 1) /\ rest[i - 1] = works[i]
      BY <1>2, <2>5
    <3> QED
      BY <3>2, <3>3
  <2>8. end = IF k - 1 = 0 THEN EndOf(works[1]) ELSE EndOf(rest[k - 1])
    <3>1. k # 1 => k - 1 \in 1..(k - 1) /\ rest[k - 1] = works[k]
      BY <1>2, <2>1, <2>5
    <3> QED
      BY <1>2, <1>3, <1>5, <3>1
  <2>9. Continues(rest, EndOf(works[1]), end)
    <3> QED
      BY <2>4, <2>6, <2>7, <2>8 DEF Continues, Tile
  <2> QED
    BY <1>1, <2>2, <2>9 DEF rest
<1> QED
  BY <1>4, <1>5
\* Work that continues a queue of hops can be put behind it.
LEMMA ContinuesAppend ==
    ASSUME NEW p \in Seq(ModelWork), NEW q \in Seq(ModelWork), AllSource(p),
           NEW first \in Nat, NEW mid \in Nat, NEW end \in Nat, mid <= end,
           Continues(p, first, mid), Continues(q, mid, end)
    PROVE  Continues(p \o q, first, end)
<1> DEFINE m == Len(p)
           k == Sourced(q)
           w == p \o q
<1>1. /\ m \in Nat /\ Len(q) \in Nat /\ w \in Seq(ModelWork)
      /\ Len(w) = m + Len(q)
      /\ \A i \in 1..m : w[i] = p[i] /\ p[i] \in ModelWork
      /\ \A i \in 1..Len(q) : w[m + i] = q[i] /\ q[i] \in ModelWork
      /\ DOMAIN p = 1..m
  BY ConcatProperties
<1>2. /\ k \in Nat /\ k \in {Len(q), Len(q) - 1} /\ Sourced(p) = m
      /\ q = <<>> <=> Len(q) = 0
      /\ q # <<>> => k = IF IsSource(q[Len(q)]) THEN Len(q) ELSE Len(q) - 1
  BY SourcedBounds
<1>3. /\ \A i \in 1..m : IsSource(p[i]) /\ EndOf(p[i]) <= mid
      /\ \A i \in 1..m : p[i].start = IF i = 1 THEN first ELSE EndOf(p[i - 1])
      /\ mid = IF m = 0 THEN first ELSE EndOf(p[m])
  BY <1>2 DEF Continues, Tile
<1>4. /\ \A i \in 1..k : IsSource(q[i]) /\ EndOf(q[i]) <= end
      /\ \A i \in 1..k : q[i].start = IF i = 1 THEN mid ELSE EndOf(q[i - 1])
      /\ end = IF k = 0 THEN mid ELSE EndOf(q[k])
  BY DEF Continues, Tile
<1> HIDE DEF m, k, w
<1>5. Sourced(w) = m + k
  <2>1. CASE q = <<>>
    <3>1. Len(w) = m
      BY <1>1, <1>2, <2>1
    <3>2. AllSource(w)
      BY <1>1, <1>3, <3>1, SourcedBounds DEF AllSource
    <3>3. Sourced(w) = Len(w)
      BY <1>1, <3>2, SourcedBounds
    <3> QED
      BY <1>1, <1>2, <2>1, <3>1, <3>3
  <2>2. CASE q # <<>>
    <3>1. Len(q) \in 1..Len(q) /\ Len(w) = m + Len(q) /\ Len(w) # 0
      BY <1>1, <1>2, <2>2
    <3>2. w[Len(w)] = q[Len(q)]
      BY <1>1, <3>1
    <3>3. w # <<>>
      BY <1>1, <3>1, SourcedBounds
    <3>4. Sourced(w) = IF IsSource(q[Len(q)]) THEN Len(w) ELSE Len(w) - 1
      BY <1>1, <3>2, <3>3, SourcedBounds
    <3>5. k = IF IsSource(q[Len(q)]) THEN Len(q) ELSE Len(q) - 1
      BY <1>2, <2>2
    <3> QED
      BY <1>1, <1>2, <3>1, <3>4, <3>5
  <2> QED
    BY <2>1, <2>2
<1>6. ASSUME NEW i \in 1..(m + k)
      PROVE  i \in 1..m \/ (i - m \in 1..k /\ w[i] = q[i - m] /\ i > m)
  <2>1. ~(i \in 1..m) => i - m \in 1..k /\ i - m \in 1..Len(q) /\ m + (i - m) = i /\ i > m
    BY <1>1, <1>2
  <2> QED
    BY <1>1, <2>1
<1>7. ASSUME NEW i \in 1..(m + k)
      PROVE  /\ IsSource(w[i]) /\ EndOf(w[i]) <= end
             /\ w[i].start = IF i = 1 THEN first ELSE EndOf(w[i - 1])
  <2>1. CASE i \in 1..m
    <3>1. w[i] = p[i] /\ p[i] \in ModelWork
      BY <1>1, <2>1
    <3>2. IsSource(p[i]) /\ EndOf(p[i]) <= mid /\ EndOf(p[i]) \in Nat
      BY <1>3, <2>1, <3>1, WorkTypes
    <3>3. i # 1 => i - 1 \in 1..m /\ w[i - 1] = p[i - 1]
      BY <1>1, <2>1
    <3> QED
      BY <1>3, <2>1, <3>1, <3>2, <3>3
  <2>2. CASE ~(i \in 1..m)
    <3> DEFINE j == i - m
    <3>1. j \in 1..k /\ w[i] = q[j] /\ i > m /\ i = m + j
      BY <1>1, <1>6, <2>2
    <3>2. IsSource(q[j]) /\ EndOf(q[j]) <= end
      BY <1>4, <3>1
    <3>3. q[j].start = IF j = 1 THEN mid ELSE EndOf(q[j - 1])
      BY <1>4, <3>1
    <3>4. CASE j # 1
      <4>1. j - 1 \in 1..Len(q) /\ i - 1 = m + (j - 1) /\ i # 1
        BY <1>1, <1>2, <3>1, <3>4
      <4>2. w[i - 1] = q[j - 1]
        BY <1>1, <4>1
      <4> QED
        BY <3>1, <3>2, <3>3, <3>4, <4>1, <4>2
    <3>5. CASE j = 1
      <4>1. i = m + 1
        BY <3>1, <3>5
      <4>2. m # 0 => m \in 1..m /\ w[i - 1] = p[m] /\ i # 1
        BY <1>1, <4>1
      <4> QED
        BY <1>1, <1>3, <3>1, <3>2, <3>3, <3>5, <4>1, <4>2
    <3> QED
      BY <3>4, <3>5
  <2> QED
    BY <2>1, <2>2
<1>8. end = IF m + k = 0 THEN first ELSE EndOf(w[m + k])
  <2>1. CASE k = 0
    BY <1>1, <1>3, <1>4, <2>1
  <2>2. CASE k # 0
    <3>1. k \in 1..k /\ k \in 1..Len(q) /\ m + k # 0
      BY <1>1, <1>2, <2>2
    <3> QED
      BY <1>1, <1>4, <2>2, <3>1
  <2> QED
    BY <2>1, <2>2
<1>9. Continues(w, first, end)
  BY <1>5, <1>7, <1>8 DEF Continues, Tile
<1> QED
  BY <1>9 DEF w

\* Quotient and remainder, as the rechunker's counts use them.
LEMMA Division ==
    ASSUME NEW t \in Nat, NEW d \in Nat, d > 0
    PROVE  t \div d \in Nat /\ t % d \in Nat /\ d * (t \div d) + (t % d) = t
BY SMTT(30)

\* The hops a chunk completes continue from the rechunker's next sample.
LEMMA HopsContinue ==
    ASSUME NEW x \in BoundedSession, NEW n \in Nat
    PROVE  LET y == Accept(x, n)
           IN  /\ AllSource(FullHops(x, n))
               /\ Continues(FullHops(x, n), x.nextSample, y.nextSample)
               /\ x.nextSample <= y.nextSample
               /\ y.nextSample + y.buffered = x.nextSample + x.buffered + n
               /\ y.inputSamples = x.inputSamples + n
               /\ \A field \in {"inq", "outq", "pending", "ended", "cancelled", "outputSamples"} :
                    y[field] = x[field]
<1> DEFINE y == Accept(x, n)
           total == x.buffered + n
           hops == total \div HopSamples
           w == FullHops(x, n)
           a == x.nextSample
<1>1. /\ total \in Nat /\ x.buffered \in Nat /\ a \in Nat /\ x.inputSamples \in Nat
      /\ HopSamples \in Nat /\ HopSamples > 0
  BY SessionAssumption DEF BoundedSession, Session
<1>2. hops \in Nat /\ total % HopSamples \in Nat
      /\ HopSamples * hops + (total % HopSamples) = total
  <2> HIDE DEF total
  <2> QED
    BY <1>1, Division
<1>3. /\ y.inputSamples = x.inputSamples + n
      /\ y.nextSample = a + HopSamples * hops
      /\ y.buffered = total % HopSamples
      /\ \A field \in {"inq", "outq", "pending", "ended", "cancelled", "outputSamples"} :
           y[field] = x[field]
  BY DEF Accept, Rechunk, BoundedSession, Session
<1>4. w = [i \in 1..hops |-> SourceWork(a + (i - 1) * HopSamples, HopSamples)]
  BY DEF FullHops
<1>5. w \in Seq(ModelWork)
  BY RechunkType
<1> HIDE DEF hops, y, w
<1>6. Len(w) = hops /\ DOMAIN w = 1..hops
  BY <1>2, <1>4, <1>5
<1>7. ASSUME NEW i \in 1..hops
      PROVE  /\ IsSource(w[i]) /\ w[i].start = a + (i - 1) * HopSamples
             /\ EndOf(w[i]) = a + i * HopSamples
  <2>1. w[i] = SourceWork(a + (i - 1) * HopSamples, HopSamples)
    BY <1>4
  <2>2. /\ IsSource(w[i]) /\ w[i].start = a + (i - 1) * HopSamples
        /\ EndOf(w[i]) = (a + (i - 1) * HopSamples) + HopSamples
    BY <2>1 DEF SourceWork, IsSource, EndOf
  <2>3. (i - 1) * HopSamples + HopSamples = i * HopSamples
    BY <1>1, <1>2
  <2>4. (i - 1) * HopSamples \in Int /\ i * HopSamples \in Int
    BY <1>1, <1>2
  <2> QED
    BY <1>1, <2>2, <2>3, <2>4
<1>8. AllSource(w) /\ Sourced(w) = hops
  <2>1. AllSource(w)
    BY <1>6, <1>7 DEF AllSource
  <2> QED
    BY <1>5, <1>6, <2>1, SourcedBounds
<1>9. ASSUME NEW i \in 1..hops PROVE i * HopSamples <= HopSamples * hops
  BY <1>1, <1>2
<1>10. /\ \A i \in 1..hops : EndOf(w[i]) <= a + HopSamples * hops
       /\ HopSamples * hops \in Nat
  <2>1. \A i \in 1..hops : i * HopSamples \in Int
    BY <1>1
  <2>2. HopSamples * hops \in Nat
    BY <1>1, <1>2
  <2> QED
    BY <1>1, <1>7, <1>9, <2>1, <2>2
<1>11. ASSUME NEW i \in 1..hops
       PROVE  w[i].start = IF i = 1 THEN a ELSE EndOf(w[i - 1])
  <2>1. CASE i = 1
    <3>1. w[i].start = a + (1 - 1) * HopSamples
      BY <1>7, <2>1
    <3>2. (1 - 1) * HopSamples = 0
      BY <1>1
    <3> QED
      BY <1>1, <2>1, <3>1, <3>2
  <2>2. CASE i # 1
    <3>1. i - 1 \in 1..hops
      BY <1>2, <2>2
    <3> QED
      BY <1>7, <2>2, <3>1
  <2> QED
    BY <2>1, <2>2
<1>12. a + HopSamples * hops = IF hops = 0 THEN a ELSE EndOf(w[hops])
  <2>1. CASE hops = 0
    BY <1>1, <2>1
  <2>2. CASE hops # 0
    <3>1. hops \in 1..hops /\ hops * HopSamples = HopSamples * hops
      BY <1>1, <1>2, <2>2
    <3> QED
      BY <1>7, <2>2, <3>1
  <2> QED
    BY <2>1, <2>2
<1>13. Continues(w, a, a + HopSamples * hops)
  BY <1>7, <1>8, <1>10, <1>11, <1>12 DEF Continues, Tile
<1>14. y.nextSample + y.buffered = a + x.buffered + n /\ a <= y.nextSample
  <2> DEFINE whole == HopSamples * hops
             rest == total % HopSamples
  <2>1. whole \in Nat /\ rest \in Nat /\ whole + rest = x.buffered + n
    BY <1>2, <1>10
  <2>2. y.nextSample = a + whole /\ y.buffered = rest
    BY <1>3
  <2>3. a \in Nat /\ x.buffered \in Nat
    BY <1>1
  <2> HIDE DEF whole, rest, total, a
  <2> QED
    BY <2>1, <2>2, <2>3
<1> QED
  BY <1>3, <1>8, <1>13, <1>14 DEF y, w

\* So does the partial hop EndStream sends to the model, before the flush.
LEMMA TerminalContinues ==
    ASSUME NEW x \in BoundedSession
    PROVE  LET y == FlushPartial(x)
           IN  /\ Continues(TerminalWorks(x), x.nextSample, y.nextSample)
               /\ x.nextSample <= y.nextSample
               /\ y.buffered = 0 /\ y.nextSample = x.nextSample + x.buffered
               /\ \A field \in {"inq", "outq", "pending", "ended", "cancelled",
                                "inputSamples", "outputSamples"} : y[field] = x[field]
<1> DEFINE y == FlushPartial(x)
           w == TerminalWorks(x)
           a == x.nextSample
<1>1. x.buffered \in 0..(HopSamples - 1) /\ a \in Nat /\ x.buffered \in Nat
  BY SessionAssumption DEF BoundedSession, Session
<1>2. /\ y.buffered = 0 /\ y.nextSample = a + x.buffered
      /\ \A field \in {"inq", "outq", "pending", "ended", "cancelled",
                       "inputSamples", "outputSamples"} : y[field] = x[field]
  BY DEF FlushPartial, BoundedSession, Session
<1>3. ~IsSource(FlushWork)
  BY DEF FlushWork, IsSource
<1>4. CASE x.buffered = 0
  <2>1. w = <<FlushWork>>
    BY <1>4, ConcatEmptySeq DEF TerminalWorks, PartialHop
  <2>2. w # <<>> /\ Len(w) = 1 /\ w[1] = FlushWork
    BY <2>1
  <2>3. Sourced(w) = 0
    BY <1>3, <2>2 DEF Sourced
  <2>4. Continues(w, a, a + x.buffered)
    BY <1>1, <1>4, <2>3 DEF Continues, Tile
  <2> QED
    BY <1>1, <1>2, <2>4
<1>5. CASE x.buffered # 0
  <2> DEFINE hop == SourceWork(a, x.buffered)
  <2>1. w = <<hop>> \o <<FlushWork>>
    BY <1>5 DEF TerminalWorks, PartialHop
  <2>2. w # <<>> /\ Len(w) = 2 /\ w[1] = hop /\ w[2] = FlushWork
    <3> HIDE DEF hop
    <3>1. <<hop>> \in Seq({hop, FlushWork}) /\ <<FlushWork>> \in Seq({hop, FlushWork})
      OBVIOUS
    <3>2. /\ Len(<<hop>> \o <<FlushWork>>) = 2
          /\ (<<hop>> \o <<FlushWork>>)[1] = hop
          /\ (<<hop>> \o <<FlushWork>>)[2] = FlushWork
      BY <3>1, ConcatProperties
    <3> QED
      BY <2>1, <3>2
  <2>3. Sourced(w) = 1
    BY <1>3, <2>2 DEF Sourced
  <2>4. IsSource(hop) /\ hop.start = a /\ EndOf(hop) = a + x.buffered
    BY DEF SourceWork, IsSource, EndOf
  <2>6. HopSamples \in Nat /\ a + x.buffered \in Nat
    BY <1>1, SessionAssumption
  <2> HIDE DEF hop, w
  <2>7. \A i \in 1..1 : i = 1
    OBVIOUS
  <2>5. Continues(w, a, a + x.buffered)
    BY <2>2, <2>3, <2>4, <2>6, <2>7 DEF Continues, Tile
  <2> QED
    BY <1>1, <1>2, <2>5 DEF w
<1> QED
  BY <1>4, <1>5
-----------------------------------------------------------------------------
(* What the operations on a session do to its chain. *)

SameCounts(x, y) ==
    /\ y.buffered = x.buffered
    /\ y.nextSample = x.nextSample
    /\ y.inputSamples = x.inputSamples

LEMMA PendingTypes ==
    ASSUME NEW x \in BoundedSession
    PROVE  /\ AfterPending(x) \in Nat
           /\ x.nextSample \in Nat /\ x.buffered \in Nat
           /\ x.inputSamples \in Nat /\ x.outputSamples \in Nat
           /\ x.inq \in Seq(ModelWork)
           /\ x.pending # None => /\ x.pending \in SourceHop
                                  /\ x.pending.start \in Nat /\ x.pending.valid \in Nat
                                  /\ AfterPending(x) = x.pending.start + x.pending.valid
<1>1. /\ x.nextSample \in Nat /\ x.buffered \in Nat
      /\ x.inputSamples \in Nat /\ x.outputSamples \in Nat
      /\ x.inq \in Seq(ModelWork) /\ x.pending \in SourceHop \cup {None}
  BY SessionAssumption DEF BoundedSession, Session
<1>2. CASE x.pending = None
  BY <1>1, <1>2 DEF AfterPending
<1>3. CASE x.pending # None
  <2>1. x.pending \in SourceHop
    BY <1>1, <1>3
  <2>2. x.pending.start \in Nat /\ x.pending.valid \in Nat
    BY <2>1, SessionAssumption DEF SourceHop
  <2>3. AfterPending(x) = x.pending.start + x.pending.valid
    BY <1>3 DEF AfterPending, EndOf
  <2> QED
    BY <1>1, <2>1, <2>2, <2>3
<1> QED
  BY <1>2, <1>3

\* The head of the queue goes to the model.
LEMMA ChainDispatch ==
    ASSUME NEW x \in BoundedSession, NEW works \in Seq(ModelWork), works # <<>>,
           Chained(x, works, {}), Head(works) # NoFlushWork,
           NEW y, SameCounts(x, y), y.pending = x.pending, y.outputSamples = x.outputSamples
    PROVE  Chained(y, Tail(works), {Head(works)})
<1> DEFINE work == Head(works)
           first == AfterPending(x)
<1>1. /\ work \in ModelWork /\ work \in Elements(works)
      /\ Elements(Tail(works)) \subseteq Elements(works)
  BY TailElements DEF Elements
<1>2. first \in Nat /\ x.nextSample \in Nat
  BY PendingTypes
<1>3. Continues(works, first, x.nextSample)
  BY DEF Chained
<1>4. AfterPending(y) = first
  BY DEF AfterPending
<1>5. FlushWork \in {work} \cup Elements(Tail(works)) => y.buffered = 0
  BY <1>1 DEF Chained, SameCounts
<1> HIDE DEF work, first
<1>6. CASE IsSource(work)
  <2>1. work.start = first /\ EndOf(work) <= x.nextSample
        /\ Continues(Tail(works), EndOf(work), x.nextSample)
    BY <1>2, <1>3, <1>6, ContinuesTail DEF work
  <2> QED
    BY <1>4, <1>5, <1>6, <2>1 DEF Chained, SameCounts, work, first
<1>7. CASE ~IsSource(work)
  <2>1. Tail(works) = <<>> /\ first = x.nextSample
    BY <1>2, <1>3, <1>7, ContinuesTail DEF work
  <2>2. work = FlushWork
    BY <1>1, <1>7, WorkTypes DEF work
  <2> QED
    BY <1>4, <1>5, <2>1, <2>2 DEF Chained, SameCounts, work, first
<1> QED
  BY <1>6, <1>7

\* The result of a source hop makes it the pending one and delivers the pending
\* one, whose samples are counted.
LEMMA ChainDeliver ==
    ASSUME NEW x \in BoundedSession, NEW works \in Seq(ModelWork),
           NEW work \in ModelWork, IsSource(work), Chained(x, works, {work}),
           NEW y, SameCounts(x, y), y.pending = SourceOf(work),
           y.outputSamples = IF x.pending = None THEN x.outputSamples
                             ELSE x.outputSamples + x.pending.valid
    PROVE  /\ Chained(y, works, {})
           /\ y.outputSamples <= y.inputSamples
<1>1. /\ work.start = AfterPending(x) /\ EndOf(work) <= x.nextSample
      /\ Continues(works, EndOf(work), x.nextSample)
      /\ x.inputSamples = x.nextSample + x.buffered
      /\ x.outputSamples = IF x.pending = None THEN 0 ELSE x.pending.start
      /\ FlushWork \in Elements(works) => x.buffered = 0
      /\ AfterPending(x) <= x.nextSample
  BY WorkTypes DEF Chained
<1>2. work.start \in Nat /\ work.valid \in 1..HopSamples /\ EndOf(work) \in Nat
  BY WorkTypes
<1>3. /\ y.pending = [start |-> work.start, valid |-> work.valid]
      /\ y.pending \in SourceHop
  BY <1>2 DEF SourceOf, SourceHop
<1>4. y.pending # None
  BY <1>3, NoneAssumption
<1>5. AfterPending(y) = EndOf(work) /\ y.pending.start = work.start
  BY <1>3, <1>4 DEF AfterPending, EndOf
<1>6. y.outputSamples = work.start
  BY <1>1, PendingTypes DEF AfterPending
<1>7. Chained(y, works, {})
  BY <1>1, <1>4, <1>5, <1>6 DEF Chained, SameCounts
<1> QED
  BY <1>1, <1>2, <1>6, <1>7, PendingTypes DEF SameCounts

\* The result of the flush delivers the last hop: all input has become output.
LEMMA ChainFlush ==
    ASSUME NEW x \in BoundedSession, NEW works, Chained(x, works, {FlushWork})
    PROVE  IF x.pending = None THEN x.outputSamples = x.inputSamples
           ELSE x.outputSamples + x.pending.valid = x.inputSamples
<1>1. /\ AfterPending(x) = x.nextSample
      /\ x.inputSamples = x.nextSample + x.buffered
      /\ x.outputSamples = IF x.pending = None THEN 0 ELSE x.pending.start
      /\ x.buffered = 0
  BY DEF Chained, FlushWork, IsSource
<1> QED
  BY <1>1, PendingTypes DEF AfterPending

\* Input that continues the rechunker's goes behind the queue.
LEMMA ChainAppend ==
    ASSUME NEW x \in BoundedSession, NEW works \in Seq(ModelWork), NEW flight,
           AllSource(works), FlushWork \notin flight,
           Chained(x, works, flight), flight \subseteq ModelWork,
           NEW more \in Seq(ModelWork), NEW y \in BoundedSession,
           y.pending = x.pending, y.outputSamples = x.outputSamples,
           x.nextSample <= y.nextSample,
           y.inputSamples = y.nextSample + y.buffered,
           FlushWork \in Elements(more) => y.buffered = 0,
           Continues(more, x.nextSample, y.nextSample)
    PROVE  Chained(y, works \o more, flight)
<1>1. /\ AfterPending(x) \in Nat /\ x.nextSample \in Nat /\ y.nextSample \in Nat
      /\ AfterPending(y) = AfterPending(x)
  BY PendingTypes DEF AfterPending
<1>2. ASSUME NEW first \in Nat, Continues(works, first, x.nextSample)
      PROVE  Continues(works \o more, first, y.nextSample)
  BY <1>1, <1>2, ContinuesAppend
<1>3. FlushWork \in flight \cup Elements(works \o more) => y.buffered = 0
  <2>1. ASSUME FlushWork \in Elements(works \o more) PROVE FlushWork \in Elements(more)
    <3>1. PICK i \in DOMAIN (works \o more) : (works \o more)[i] = FlushWork
      BY <2>1 DEF Elements
    <3>2. /\ Len(works) \in Nat /\ Len(more) \in Nat
          /\ i \in 1..(Len(works) + Len(more))
          /\ (works \o more)[i] = IF i <= Len(works) THEN works[i] ELSE more[i - Len(works)]
      BY ConcatProperties, LenProperties
    <3>3. CASE i <= Len(works)
      <4>1. i \in DOMAIN works /\ works[i] = FlushWork
        BY <3>1, <3>2, <3>3, LenProperties
      <4> QED
        BY <4>1, WorkTypes DEF AllSource, FlushWork, IsSource
    <3>4. CASE ~(i <= Len(works))
      <4>1. i - Len(works) \in DOMAIN more /\ more[i - Len(works)] = FlushWork
        BY <3>1, <3>2, <3>4, LenProperties
      <4> QED
        BY <4>1 DEF Elements
    <3> QED
      BY <3>3, <3>4
  <2> QED
    BY <2>1
<1>4. AfterPending(y) <= y.nextSample
  BY <1>1 DEF Chained
<1>5. flight = {} => Continues(works \o more, AfterPending(y), y.nextSample)
  BY <1>1, <1>2 DEF Chained
<1>6. ASSUME NEW work \in flight
      PROVE  /\ IsSource(work) /\ work.start = AfterPending(y)
             /\ EndOf(work) <= y.nextSample
             /\ Continues(works \o more, EndOf(work), y.nextSample)
  <2>1. /\ IsSource(work) /\ work.start = AfterPending(x)
        /\ EndOf(work) <= x.nextSample /\ Continues(works, EndOf(work), x.nextSample)
    BY DEF Chained
  <2>2. EndOf(work) \in Nat
    BY <2>1, WorkTypes
  <2>3. EndOf(work) <= y.nextSample
    BY <1>1, <2>1, <2>2
  <2> QED
    BY <1>1, <1>2, <2>1, <2>2, <2>3
<1> QED
  <2>1. y.outputSamples = IF y.pending = None THEN 0 ELSE y.pending.start
    BY DEF Chained
  <2> QED
    BY <1>3, <1>4, <1>5, <1>6, <2>1 DEF Chained

\* The chain says what the model's InputChain says.
LEMMA ChainedIsInputChain ==
    ASSUME NEW x \in BoundedSession, NEW put \in Seq(ModelWork), NEW flight,
           Chained(x, x.inq \o put, flight)
    PROVE  InputChain(x, put, flight)
<1> DEFINE works == x.inq \o put
<1>1. \A first, end : Continues(works, first, end) =>
          /\ \A i \in 1..Sourced(works) : IsSource(works[i])
          /\ Tile(works, Sourced(works), first, end)
  BY DEF Continues
<1>2. \A first : Continues(works, first, x.nextSample) => QueueContinues(x, put, first)
  BY <1>1 DEF QueueContinues
<1>3. works = <<>> => Sourced(works) = 0
  BY DEF Sourced
<1>4. ASSUME works = <<>>, AfterPending(x) = x.nextSample
      PROVE  QueueContinues(x, put, AfterPending(x))
  <2>1. Continues(works, AfterPending(x), x.nextSample)
    BY <1>3, <1>4 DEF Continues, Tile
  <2> QED
    BY <1>2, <2>1
<1>5. \A work \in flight :
        IF IsSource(work)
        THEN work.start = AfterPending(x) /\ QueueContinues(x, put, EndOf(work))
        ELSE QueueContinues(x, put, AfterPending(x))
  BY <1>2, <1>4 DEF Chained, FlushWork, IsSource
<1> QED
  BY <1>2, <1>5 DEF Chained, InputChain
-----------------------------------------------------------------------------
(* The invariant of the input side, and the steps that do not concern it.     *)

\* Everything of a stream that no hop of it has been computed from yet.
Works(s) == session[s].inq \o toPut[s]

\* No further work enters the stream; its RPC is being served or may start.
InputOver(s) == reader[s] = "stopped" \/ (reader[s] # "none" /\ sawEnd[s])
Open(s) == handler[s] = "new" \/ reader[s] # "none"

InputOK(s) ==
    /\ Live(s) => Chained(session[s], Works(s), WorkInFlight(s))
    /\ ~InputOver(s) =>
         /\ ~session[s].ended
         /\ \A work \in WorkInFlight(s) \cup Elements(Works(s)) : IsSource(work)
    /\ ~InputOver(s) /\ Open(s) /\ session[s].inputSamples = 0 =>
         ~session[s].cancelled /\ Works(s) = <<>> /\ WorkInFlight(s) = {}
    /\ toPut[s] # <<>> => reader[s] = "putting"
    /\ session[s].outputSamples <= session[s].inputSamples
    /\ session[s].inputSamples <= MaxSamples
InputInv == \A s \in Streams : InputOK(s)

InputConcerns == {"inq", "pending", "ended", "cancelled", "buffered", "nextSample",
                  "inputSamples", "outputSamples"}
SameInput(x, y) == \A field \in InputConcerns : y[field] = x[field]

LEMMA SameFields ==
    ASSUME NEW x, NEW y, SameInput(x, y)
    PROVE  /\ y.inq = x.inq /\ y.pending = x.pending /\ y.ended = x.ended
           /\ y.cancelled = x.cancelled /\ y.buffered = x.buffered
           /\ y.nextSample = x.nextSample /\ y.inputSamples = x.inputSamples
           /\ y.outputSamples = x.outputSamples
BY DEF SameInput, InputConcerns

LEMMA SameChain ==
    ASSUME NEW x, NEW y, SameInput(x, y), NEW works, NEW flight, Chained(x, works, flight)
    PROVE  Chained(y, works, flight)
<1>1. y.inq = x.inq /\ y.pending = x.pending /\ y.buffered = x.buffered
      /\ y.nextSample = x.nextSample /\ y.inputSamples = x.inputSamples
      /\ y.outputSamples = x.outputSamples
  BY SameFields
<1>2. AfterPending(y) = AfterPending(x)
  BY <1>1 DEF AfterPending
<1> QED
  BY <1>1, <1>2 DEF Chained

\* A step that leaves a stream's input alone, and takes a hop of it from the
\* model only if the stream is dead already.
LEMMA InputStays ==
    ASSUME NEW s \in Streams, InputOK(s), SameInput(session[s], session'[s]),
           toPut'[s] = toPut[s], toPut[s] # <<>> => reader'[s] = "putting",
           InputOver(s)' <=> InputOver(s), Open(s)' => Open(s),
           WorkInFlight(s)' \subseteq WorkInFlight(s),
           Live(s)' => Live(s) /\ WorkInFlight(s)' = WorkInFlight(s)
    PROVE  InputOK(s)'
<1>1. /\ session'[s].inq = session[s].inq /\ session'[s].ended = session[s].ended
      /\ session'[s].cancelled = session[s].cancelled
      /\ session'[s].inputSamples = session[s].inputSamples
      /\ session'[s].outputSamples = session[s].outputSamples
  BY SameFields
<1>2. Works(s)' = Works(s)
  BY <1>1 DEF Works
<1>3. Live(s)' => Chained(session'[s], Works(s)', WorkInFlight(s)')
  BY <1>2, SameChain DEF InputOK
<1>4. WorkInFlight(s) = {} => WorkInFlight(s)' = {}
  OBVIOUS
<1>5. ~InputOver(s)' => /\ ~session'[s].ended
                        /\ \A work \in WorkInFlight(s)' \cup Elements(Works(s)') : IsSource(work)
  BY <1>1, <1>2 DEF InputOK
<1>6. ~InputOver(s)' /\ Open(s)' /\ session'[s].inputSamples = 0 =>
         ~session'[s].cancelled /\ Works(s)' = <<>> /\ WorkInFlight(s)' = {}
  BY <1>1, <1>2, <1>4 DEF InputOK
<1> QED
  BY <1>1, <1>3, <1>5, <1>6 DEF InputOK

\* The usual case: nothing but the session changes.
LEMMA InputSame ==
    ASSUME NEW s \in Streams, InputOK(s), SameInput(session[s], session'[s]),
           toPut'[s] = toPut[s], reader'[s] = reader[s], sawEnd'[s] = sawEnd[s],
           handler'[s] = "new" => handler[s] = "new",
           UNCHANGED active, Running' => Running
    PROVE  InputOK(s)'
<1>1. WorkInFlight(s)' = WorkInFlight(s)
  BY DEF WorkInFlight
<1>2. Live(s)' => Live(s)
  BY SameFields DEF Live
<1>3. (InputOver(s)' <=> InputOver(s)) /\ (Open(s)' => Open(s))
  BY DEF InputOver, Open
<1>4. toPut[s] # <<>> => reader'[s] = "putting"
  BY DEF InputOK
<1> QED
  BY <1>1, <1>2, <1>3, <1>4, InputStays

\* Once no further work enters a stream that is dead, only its counts matter.
LEMMA InputDead ==
    ASSUME NEW s \in Streams, InputOver(s)', ~Live(s)', toPut'[s] # <<>> => reader'[s] = "putting",
           session'[s].outputSamples <= session'[s].inputSamples,
           session'[s].inputSamples <= MaxSamples
    PROVE  InputOK(s)'
BY DEF InputOK

-----------------------------------------------------------------------------
(* The work of a stream at the model. *)

LEMMA SameElements ==
    ASSUME NEW A, NEW B, \A e : e \in A <=> e \in B
    PROVE  A = B
OBVIOUS

LEMMA FlightWorks ==
    ASSUME NEW s
    PROVE  /\ \A work : work \in WorkInFlight(s) <=>
                 \E i \in DOMAIN active : active[i].stream = s /\ active[i].work = work
           /\ \A work : work \in WorkInFlight(s)' <=>
                 \E i \in DOMAIN active' : active'[i].stream = s /\ active'[i].work = work
BY DEF WorkInFlight

\* A stream that waits has nothing at the model; one at the head of the batch
\* that returns has nothing else there.
LEMMA BatchedIsNotInFlight ==
    ASSUME BatchInv, batch # <<>>
    PROVE  WorkInFlight(Head(batch)) = {}
<1>1. 1 \in DOMAIN batch /\ batch[1] = Head(batch)
  BY TailElements DEF BatchInv, TypeInv, TypeOK, SchedulerTypeOK
<1> QED
  BY <1>1 DEF BatchInv, InFlightOnce, WorkInFlight

LEMMA ReturnedFlight ==
    ASSUME BatchInv, active # <<>>, active' = Tail(active), NEW s, s = Returned.stream
    PROVE  /\ WorkInFlight(s) = {Returned.work}
           /\ WorkInFlight(s)' = {}
           /\ \A t : t # s => WorkInFlight(t)' = WorkInFlight(t)
<1>1. active \in Seq(ActiveEntry)
  BY DEF BatchInv, TypeInv, TypeOK, SchedulerTypeOK
<1>2. /\ Len(active) \in Nat \ {0} /\ DOMAIN active = 1..Len(active) /\ 1 \in DOMAIN active
      /\ active[1] = Returned
      /\ DOMAIN active' = 1..(Len(active) - 1)
      /\ \A i \in DOMAIN active' : active'[i] = active[i + 1] /\ i + 1 \in DOMAIN active /\ i + 1 # 1
  BY <1>1, TailElements DEF Returned
<1>3. \A i \in DOMAIN active : active[i].stream = s => i = 1
  BY <1>2 DEF BatchInv, InFlightOnce
<1>4. \A i \in DOMAIN active : i # 1 => i - 1 \in DOMAIN active' /\ active'[i - 1] = active[i]
  BY <1>2
<1>5. WorkInFlight(s) = {Returned.work}
  BY <1>2, <1>3 DEF WorkInFlight
<1>6. WorkInFlight(s)' = {}
  <2>1. \A i \in DOMAIN active' : active'[i].stream # s
    BY <1>2, <1>3
  <2> QED
    BY <2>1 DEF WorkInFlight
<1>7. ASSUME NEW t, t # s
      PROVE  WorkInFlight(t)' = WorkInFlight(t)
  <2>1. \A work : work \in WorkInFlight(t)' => work \in WorkInFlight(t)
    BY <1>2, FlightWorks
  <2>2. \A i \in DOMAIN active : active[i].stream = t => i # 1
    BY <1>2, <1>7
  <2>3. \A work : work \in WorkInFlight(t) => work \in WorkInFlight(t)'
    BY <1>4, <2>2, FlightWorks
  <2> QED
    BY <2>1, <2>3, SameElements
<1> QED
  BY <1>5, <1>6, <1>7

LEMMA DispatchedFlight ==
    ASSUME NEW entry \in ActiveEntry, active \in Seq(ActiveEntry),
           active' = Append(active, entry)
    PROVE  /\ WorkInFlight(entry.stream)' = WorkInFlight(entry.stream) \cup {entry.work}
           /\ \A t : t # entry.stream => WorkInFlight(t)' = WorkInFlight(t)
<1>1. /\ Len(active) \in Nat /\ DOMAIN active = 1..Len(active)
      /\ DOMAIN active' = 1..(Len(active) + 1)
      /\ active'[Len(active) + 1] = entry
      /\ \A i \in DOMAIN active : active'[i] = active[i]
  BY AppendElements
<1>2. \A i \in DOMAIN active' : i \in DOMAIN active \/ i = Len(active) + 1
  BY <1>1
<1>3. \A t, work : work \in WorkInFlight(t)' <=>
         work \in WorkInFlight(t) \/ (t = entry.stream /\ work = entry.work)
  <2> SUFFICES ASSUME NEW t, NEW work
               PROVE  work \in WorkInFlight(t)' <=>
                         work \in WorkInFlight(t) \/ (t = entry.stream /\ work = entry.work)
    OBVIOUS
  <2>1. work \in WorkInFlight(t)' =>
           work \in WorkInFlight(t) \/ (t = entry.stream /\ work = entry.work)
    BY <1>1, <1>2, FlightWorks
  <2>2. work \in WorkInFlight(t) => work \in WorkInFlight(t)'
    BY <1>1, <1>2, FlightWorks
  <2>3. t = entry.stream /\ work = entry.work => work \in WorkInFlight(t)'
    BY <1>1, FlightWorks
  <2> QED
    BY <2>1, <2>2, <2>3
<1>4. WorkInFlight(entry.stream)' = WorkInFlight(entry.stream) \cup {entry.work}
  BY <1>3, SameElements
<1>5. \A t : t # entry.stream => WorkInFlight(t)' = WorkInFlight(t)
  BY <1>3, SameElements
<1> QED
  BY <1>4, <1>5

LEMMA InferredFlight ==
    ASSUME active \in Seq(ActiveEntry), active' = InferBatch(active)
    PROVE  \A t : WorkInFlight(t)' = WorkInFlight(t)
<1>1. DOMAIN active' = DOMAIN active
  BY DEF InferBatch
<1>2. ASSUME NEW i \in DOMAIN active
      PROVE  active'[i].stream = active[i].stream /\ active'[i].work = active[i].work
  <2>1. active[i] \in ActiveEntry
    BY EntryTypes
  <2>2. active'[i] = [active[i] EXCEPT !.wav = active[i].cache, !.cache = Absorbed(active[i])]
    BY DEF InferBatch
  <2> QED
    BY <2>1, <2>2 DEF ActiveEntry
<1> QED
  BY <1>1, <1>2 DEF WorkInFlight
-----------------------------------------------------------------------------
(* The scheduler's steps. *)

\* The tasks of a stream stand where they stood.
TasksStay(t) ==
    /\ toPut'[t] = toPut[t]
    /\ reader'[t] = reader[t]
    /\ sawEnd'[t] = sawEnd[t]
    /\ handler'[t] = handler[t]

\* A step that concerns one stream.
LEMMA OneInput ==
    ASSUME InputInv, session \in [Streams -> BoundedSession],
           NEW s \in Streams, NEW y, session' = [session EXCEPT ![s] = y],
           \A t \in Streams \ {s} : TasksStay(t) /\ WorkInFlight(t)' = WorkInFlight(t),
           Running' => Running, InputOK(s)'
    PROVE  InputInv'
<1> SUFFICES ASSUME NEW t \in Streams, t # s PROVE InputOK(t)'
  BY DEF InputInv
<1>1. session'[t] = session[t] /\ SameInput(session[t], session'[t])
  BY DEF SameInput
<1>2. /\ toPut'[t] = toPut[t] /\ reader'[t] = reader[t] /\ sawEnd'[t] = sawEnd[t]
      /\ handler'[t] = handler[t]
      /\ WorkInFlight(t)' = WorkInFlight(t)
  BY DEF TasksStay
<1>3. InputOK(t)
  BY DEF InputInv
<1>4. Live(t)' => Live(t)
  BY <1>1 DEF Live
<1>5. (InputOver(t)' <=> InputOver(t)) /\ (Open(t)' => Open(t))
  BY <1>2 DEF InputOver, Open
<1>6. toPut[t] # <<>> => reader'[t] = "putting"
  BY <1>2, <1>3 DEF InputOK
<1> QED
  BY <1>1, <1>2, <1>3, <1>4, <1>5, <1>6, InputStays

\* Taking from the ready queue, or an answer of the model.
LEMMA IdleInput ==
    ASSUME InputInv, UNCHANGED session, \A t \in Streams : TasksStay(t),
           \A t \in Streams : WorkInFlight(t)' \subseteq WorkInFlight(t),
           \A t \in Streams : Live(t)' => Live(t) /\ WorkInFlight(t)' = WorkInFlight(t)
    PROVE  InputInv'
<1> SUFFICES ASSUME NEW t \in Streams PROVE InputOK(t)'
  BY DEF InputInv
<1>1. SameInput(session[t], session'[t])
  BY DEF SameInput
<1>2. /\ toPut'[t] = toPut[t] /\ reader'[t] = reader[t] /\ sawEnd'[t] = sawEnd[t]
      /\ handler'[t] = handler[t]
  BY DEF TasksStay
<1>3. InputOK(t)
  BY DEF InputInv
<1>4. (InputOver(t)' <=> InputOver(t)) /\ (Open(t)' => Open(t))
  BY <1>2 DEF InputOver, Open
<1>5. toPut[t] # <<>> => reader'[t] = "putting"
  BY <1>2, <1>3 DEF InputOK
<1> QED
  BY <1>1, <1>2, <1>3, <1>4, <1>5, InputStays

LEMMA TailOfJoined ==
    ASSUME NEW p \in Seq(ModelWork), NEW q \in Seq(ModelWork), p # <<>>
    PROVE  /\ p \o q \in Seq(ModelWork) /\ p \o q # <<>>
           /\ Head(p \o q) = Head(p)
           /\ Tail(p \o q) = Tail(p) \o q
<1> DEFINE w == p \o q
<1>1. /\ w \in Seq(ModelWork) /\ Len(w) = Len(p) + Len(q)
      /\ \A i \in 1..(Len(p) + Len(q)) : w[i] = IF i <= Len(p) THEN p[i] ELSE q[i - Len(p)]
  BY ConcatProperties
<1>2. /\ Len(p) \in Nat \ {0} /\ Len(q) \in Nat /\ p[1] = Head(p)
      /\ Tail(p) \in Seq(ModelWork) /\ Len(Tail(p)) = Len(p) - 1
      /\ \A i \in 1..(Len(p) - 1) : Tail(p)[i] = p[i + 1]
  BY TailElements
<1> HIDE DEF w
<1>3. w # <<>>
  BY <1>1, <1>2, SourcedBounds
<1>4. /\ w[1] = Head(w) /\ Tail(w) \in Seq(ModelWork) /\ Len(Tail(w)) = Len(w) - 1
      /\ \A i \in 1..(Len(w) - 1) : Tail(w)[i] = w[i + 1]
  BY <1>1, <1>3, TailElements
<1>5. Head(w) = Head(p)
  BY <1>1, <1>2, <1>4
<1>6. /\ Tail(p) \o q \in Seq(ModelWork)
      /\ Len(Tail(p) \o q) = Len(w) - 1
      /\ \A i \in 1..(Len(w) - 1) :
           (Tail(p) \o q)[i] = IF i <= Len(p) - 1 THEN Tail(p)[i] ELSE q[i - (Len(p) - 1)]
  BY <1>1, <1>2, ConcatProperties
<1>7. ASSUME NEW i \in 1..(Len(w) - 1) PROVE Tail(w)[i] = (Tail(p) \o q)[i]
  <2>1. i + 1 \in 1..(Len(p) + Len(q)) /\ i \in Nat /\ i >= 1
    BY <1>1, <1>2
  <2>2. i <= Len(p) - 1 <=> i + 1 <= Len(p)
    BY <1>2, <2>1
  <2>3. i - (Len(p) - 1) = (i + 1) - Len(p)
    BY <1>2, <2>1
  <2> QED
    BY <1>1, <1>2, <1>4, <1>6, <2>1, <2>2, <2>3
<1>8. Tail(w) = Tail(p) \o q
  BY <1>1, <1>2, <1>4, <1>6, <1>7, SeqEqual
<1> QED
  BY <1>1, <1>3, <1>5, <1>8 DEF w

LEMMA TakeInput ==
    ASSUME BatchInv, InputInv, TakeFirst \/ TakeMore \/ InferenceDone \/ InferenceFails,
           UNCHANGED serviceVars
    PROVE  InputInv'
<1>1. UNCHANGED session /\ \A t \in Streams : TasksStay(t)
  BY DEF TakeFirst, TakeMore, InferenceDone, InferenceFails, serviceVars, TasksStay
<1>2. \A t : WorkInFlight(t)' = WorkInFlight(t)
  <2>1. CASE InferenceDone
    BY <2>1, InferredFlight
       DEF BatchInv, TypeInv, TypeOK, SchedulerTypeOK, InferenceDone
  <2>2. CASE TakeFirst \/ TakeMore \/ InferenceFails
    BY <2>2 DEF TakeFirst, TakeMore, InferenceFails, WorkInFlight
  <2> QED
    BY <2>1, <2>2
<1>3. Running' => Running
  BY DEF TakeFirst, TakeMore, InferenceDone, InferenceFails, Running
<1>4. \A t \in Streams : Live(t)' => Live(t)
  BY <1>1, <1>3 DEF Live
<1> QED
  BY <1>1, <1>2, <1>4, IdleInput

\* What a completion leaves of the input side.
LEMMA CompleteInput ==
    ASSUME NEW x \in BoundedSession, NEW flushed \in BOOLEAN
    PROVE  LET y == Complete(x, flushed)
           IN  /\ y.ended = TRUE
               /\ y.inq = x.inq /\ y.pending = x.pending
               /\ y.inputSamples = x.inputSamples /\ y.outputSamples = x.outputSamples
BY DEF Complete, Fail, Emit, BoundedSession, Session
LEMMA DispatchInput ==
    ASSUME BatchInv, InputInv, DispatchSkip \/ DispatchNoFlush \/ DispatchWork,
           UNCHANGED serviceVars
    PROVE  InputInv'
<1> DEFINE s == NextToDispatch
           x == session[s]
<1>1. /\ s \in Streams /\ x \in BoundedSession /\ session \in [Streams -> BoundedSession]
      /\ toPut[s] \in Seq(ModelWork) /\ x.inq \in Seq(ModelWork)
  BY DispatchedStream, PendingTypes
     DEF BatchInv, TypeInv, TypeOK, SessionTypeOK, ServiceTypeOK,
         DispatchSkip, DispatchNoFlush, DispatchWork
<1>2. /\ \A t \in Streams : TasksStay(t)
      /\ Running' => Running
      /\ reader' = reader /\ sawEnd' = sawEnd /\ toPut' = toPut /\ handler' = handler
  BY DEF serviceVars, TasksStay, DispatchSkip, DispatchNoFlush, DispatchWork, Running
<1>3. InputOK(s)
  BY <1>1 DEF InputInv
<1>4. batch # <<>>
  BY DEF BatchInv, TypeInv, LoopShape, DispatchSkip, DispatchNoFlush, DispatchWork
<1>5. WorkInFlight(s) = {}
  BY <1>4, BatchedIsNotInFlight DEF NextToDispatch
<1> SUFFICES ASSUME NEW r, r = NextToDispatch
             PROVE  InputInv'
  OBVIOUS
<1>6. CASE DispatchSkip
  <2> DEFINE y == Unscheduled(x)
  <2>1. session' = [session EXCEPT ![r] = y] /\ UNCHANGED active
    BY <1>6 DEF DispatchSkip, AfterDispatch
  <2>2. SameInput(x, y)
    BY <1>1 DEF Unscheduled, SameInput, InputConcerns, BoundedSession, Session
  <2> HIDE DEF y
  <2>3. SameInput(session[r], session'[r])
    BY <1>1, <2>1, <2>2
  <2>4. InputOK(r)'
    BY <1>1, <1>2, <1>3, <2>1, <2>3, InputSame
  <2>5. \A t : WorkInFlight(t)' = WorkInFlight(t)
    BY <2>1 DEF WorkInFlight
  <2> QED
    BY <1>1, <1>2, <2>1, <2>4, <2>5, OneInput
<1>7. CASE DispatchNoFlush
  <2> DEFINE d == [Dequeued(x) EXCEPT !.pending = None]
             y == CompleteWithoutFlush(Dequeued(x))
  <2>1. /\ session' = [session EXCEPT ![r] = y] /\ UNCHANGED active
        /\ x.inq # <<>> /\ Head(x.inq) = NoFlushWork
    BY <1>7 DEF DispatchNoFlush, AfterDispatch, NothingToDispatch
  <2>2. d \in BoundedSession /\ d.inputSamples = x.inputSamples /\ d.outputSamples = x.outputSamples
    BY <1>1, <2>1, DequeuedType DEF BoundedSession, Session, Dequeued, Unscheduled
  <2>3. y.ended = TRUE /\ y.inputSamples = x.inputSamples /\ y.outputSamples = x.outputSamples
    BY <2>2, CompleteInput DEF CompleteWithoutFlush
  <2> HIDE DEF y
  <2>4. InputOver(r)
    <3>1. NoFlushWork \in Elements(Works(r))
      <4>1. /\ Works(r) \in Seq(ModelWork) /\ Works(r) # <<>>
            /\ Head(Works(r)) = NoFlushWork
        BY <1>1, <2>1, TailOfJoined DEF Works
      <4> QED
        BY <4>1, TailElements DEF Elements
    <3> QED
      BY <1>3, <3>1, WorkTypes DEF InputOK, NoFlushWork, IsSource
  <2>5. session'[r] = y
    BY <1>1, <2>1
  <2>6. InputOK(r)'
    <3>1. InputOver(r)' /\ (toPut'[r] # <<>> => reader'[r] = "putting")
      BY <1>2, <1>3, <2>4 DEF InputOver, InputOK
    <3>2. ~Live(r)'
      BY <2>3, <2>5 DEF Live
    <3>3. /\ session'[r].outputSamples <= session'[r].inputSamples
          /\ session'[r].inputSamples <= MaxSamples
      BY <1>3, <2>3, <2>5 DEF InputOK
    <3> QED
      BY <1>1, <3>1, <3>2, <3>3, InputDead
  <2>7. \A t : WorkInFlight(t)' = WorkInFlight(t)
    BY <2>1 DEF WorkInFlight
  <2> QED
    BY <1>1, <1>2, <2>1, <2>6, <2>7, OneInput
<1>8. CASE DispatchWork
  <2> DEFINE y == Dequeued(x)
             work == Head(x.inq)
             entry == [stream |-> r, work |-> work, wav |-> None, cache |-> x.cache]
  <2>1. /\ session' = [session EXCEPT ![r] = y]
        /\ active' = Append(active, entry)
        /\ x.inq # <<>> /\ work # NoFlushWork /\ ~x.cancelled /\ ~x.ended
    BY <1>8 DEF DispatchWork, AfterDispatch, NothingToDispatch
  <2>2. /\ y.inq = Tail(x.inq) /\ y.pending = x.pending /\ y.outputSamples = x.outputSamples
        /\ SameCounts(x, y) /\ y.ended = x.ended /\ y.cancelled = x.cancelled
    BY <1>1 DEF Dequeued, Unscheduled, SameCounts, BoundedSession, Session
  <2>3. entry \in ActiveEntry /\ entry.stream = r /\ entry.work = work /\ work \in ModelWork
    BY <1>1, <2>1, DequeuedType DEF ActiveEntry, CacheContent, BoundedSession, Session
  <2>4. active \in Seq(ActiveEntry)
    BY DEF BatchInv, TypeInv, TypeOK, SchedulerTypeOK
  <2> HIDE DEF y, entry
  <2>5. /\ WorkInFlight(r)' = {work}
        /\ \A t : t # r => WorkInFlight(t)' = WorkInFlight(t)
    BY <1>5, <2>1, <2>3, <2>4, DispatchedFlight
  <2>6. /\ Works(r) \in Seq(ModelWork) /\ Works(r) # <<>>
        /\ Head(Works(r)) = work
        /\ Works(r)' = Tail(Works(r))
    BY <1>1, <1>2, <2>1, <2>2, TailOfJoined DEF Works
  <2>7. work \in Elements(Works(r)) /\ Elements(Tail(Works(r))) \subseteq Elements(Works(r))
    BY <2>6, TailElements DEF Elements
  <2>8. session'[r] = y
    BY <1>1, <2>1
  <2>9. Live(r)' => Chained(y, Works(r)', WorkInFlight(r)')
    <3>1. Live(r)' => Live(r)
      BY <1>2, <2>2, <2>8 DEF Live
    <3>2. Live(r) => Chained(x, Works(r), {})
      BY <1>3, <1>5 DEF InputOK
    <3>3. Chained(x, Works(r), {}) => Chained(y, Tail(Works(r)), {work})
      BY <1>1, <2>1, <2>2, <2>6, ChainDispatch
    <3> QED
      BY <2>5, <2>6, <3>1, <3>2, <3>3
  <2>10. InputOver(r)' <=> InputOver(r)
    BY <1>2 DEF InputOver
  <2>11. Elements(Works(r)') \subseteq Elements(Works(r))
    BY <2>6, <2>7
  <2>12. ~InputOver(r) => \A e \in {work} \cup Elements(Works(r)') : IsSource(e)
    BY <1>3, <2>7, <2>11 DEF InputOK
  <2>13. ~(~InputOver(r)' /\ Open(r)' /\ session'[r].inputSamples = 0)
    BY <1>2, <1>3, <2>2, <2>6, <2>8, <2>10 DEF InputOK, Open, SameCounts
  <2>14. InputOK(r)'
    BY <1>2, <1>3, <2>2, <2>5, <2>8, <2>9, <2>10, <2>12, <2>13 DEF InputOK, SameCounts
  <2> QED
    BY <1>1, <1>2, <2>1, <2>5, <2>14, OneInput
<1> QED
  BY <1>6, <1>7, <1>8
\* A result is stored: its source is pending, what was pending is delivered.
LEMMA DeliverInput ==
    ASSUME NEW x \in BoundedSession, NEW entry \in ActiveEntry, Deliverable(x)
    PROVE  LET y == Deliver(x, entry)
           IN  /\ y \in BoundedSession
               /\ y.pending = SourceOf(entry.work)
               /\ y.outputSamples = IF x.pending = None THEN x.outputSamples
                                    ELSE x.outputSamples + x.pending.valid
               /\ y.inq = x.inq /\ y.ended = x.ended /\ y.cancelled = x.cancelled
               /\ SameCounts(x, y)
<1> DEFINE a == Advance(x, entry)
           b == Emit(a, AudioOf(Enhanced(x, entry)))
           n == x.pending.valid
<1>1. /\ a.pending = SourceOf(entry.work) /\ a.outputSamples = x.outputSamples
      /\ a.inq = x.inq /\ a.ended = x.ended /\ a.cancelled = x.cancelled
      /\ SameCounts(x, a)
  BY DEF Advance, SameCounts, BoundedSession, Session
<1>2. CASE x.pending = None
  BY <1>1, <1>2, DeliverType DEF Deliver
<1>3. CASE x.pending # None
  <2>1. a \in BoundedSession
    BY AdvanceType
  <2>2. /\ b.pending = a.pending /\ b.outputSamples = a.outputSamples
        /\ b.inq = a.inq /\ b.ended = a.ended /\ b.cancelled = a.cancelled
        /\ SameCounts(a, b) /\ "outputSamples" \in DOMAIN b
        /\ DOMAIN b = DOMAIN a
    BY <2>1 DEF Emit, SameCounts, BoundedSession, Session
  <2>3. Deliver(x, entry) = [b EXCEPT !.outputSamples = @ + n]
    BY <1>3 DEF Deliver
  <2>4. b = [a EXCEPT !.outq = Append(@, AudioOf(Enhanced(x, entry)))]
    BY DEF Emit
  <2> HIDE DEF b, a
  <2>5. /\ Deliver(x, entry).pending = b.pending
        /\ Deliver(x, entry).outputSamples = b.outputSamples + n
        /\ Deliver(x, entry).inq = b.inq /\ Deliver(x, entry).ended = b.ended
        /\ Deliver(x, entry).cancelled = b.cancelled
        /\ SameCounts(b, Deliver(x, entry))
    BY <2>1, <2>2, <2>3, <2>4 DEF SameCounts, BoundedSession, Session
  <2> QED
    BY <1>1, <1>3, <2>2, <2>5, DeliverType DEF SameCounts
<1> QED
  BY <1>2, <1>3

\* Notifying does not touch the input side.
LEMMA NotifiedInput ==
    ASSUME NEW x \in BoundedSession
    PROVE  SameInput(x, Notified(x))
BY DEF Notified, SameInput, InputConcerns, BoundedSession, Session

LEMMA FailedInput ==
    ASSUME NEW x \in BoundedSession, NEW reason
    PROVE  /\ Fail(x, reason).cancelled = TRUE
           /\ Fail(x, reason).inq = x.inq /\ Fail(x, reason).ended = x.ended
           /\ Fail(x, reason).pending = x.pending
           /\ Fail(x, reason).outputSamples = x.outputSamples
           /\ SameCounts(x, Fail(x, reason))
BY DEF Fail, SameCounts, BoundedSession, Session

\* A stream with work at the model loses it: it was failed, or is dead anyway.
LEMMA DropInput ==
    ASSUME NEW s \in Streams, InputOK(s), TasksStay(s),
           WorkInFlight(s) # {}, WorkInFlight(s)' \subseteq WorkInFlight(s), ~Live(s)',
           session'[s].inq = session[s].inq, session'[s].ended = session[s].ended,
           session'[s].inputSamples = session[s].inputSamples,
           session'[s].outputSamples <= session[s].inputSamples
    PROVE  InputOK(s)'
<1>1. Works(s)' = Works(s)
  BY DEF Works, TasksStay
<1>2. (InputOver(s)' <=> InputOver(s)) /\ (Open(s)' <=> Open(s))
  BY DEF TasksStay, InputOver, Open
<1>3. ~InputOver(s)' => /\ ~session'[s].ended
                        /\ \A work \in WorkInFlight(s)' \cup Elements(Works(s)') : IsSource(work)
  BY <1>1, <1>2 DEF InputOK
<1>4. ~(~InputOver(s)' /\ Open(s)' /\ session'[s].inputSamples = 0)
  BY <1>2 DEF InputOK
<1> QED
  BY <1>3, <1>4 DEF InputOK, TasksStay
\* The head of the batch that returns is dealt with.
LEMMA ReturnInput ==
    ASSUME BatchInv, InputInv, UNCHANGED serviceVars,
           \/ FailEntry \/ DistributeSkip \/ DistributeOverflow
           \/ DistributeFlush \/ DistributeHop \/ DistributeDies
    PROVE  InputInv'
<1> SUFFICES ASSUME NEW s, s = Returned.stream
             PROVE  InputInv'
  OBVIOUS
<1> DEFINE x == session[s]
           work == Returned.work
<1>1. sched \in {"distribute", "failing"} /\ active # <<>>
  BY DEF FailEntry, DistributeSkip, DistributeOverflow, DistributeFlush, DistributeHop,
         DistributeDies, BatchInv, TypeInv, LoopShape
<1>2. /\ s \in Streams /\ Returned \in ActiveEntry /\ work \in ModelWork
      /\ x \in BoundedSession /\ session \in [Streams -> BoundedSession]
      /\ toPut[s] \in Seq(ModelWork)
  BY <1>1, ReturnedType
     DEF BatchInv, TypeInv, TypeOK, SessionTypeOK, ServiceTypeOK, ActiveEntry
<1>3. Works(s) \in Seq(ModelWork)
  BY <1>2, PendingTypes, ConcatProperties DEF Works
<1>4. /\ \A t \in Streams : TasksStay(t)
      /\ Running' => Running
      /\ UNCHANGED <<reader, sawEnd, toPut, handler>>
  BY <1>1 DEF serviceVars, TasksStay, Running
<1>5. InputOK(s)
  BY <1>2 DEF InputInv
<1>6. /\ x.outputSamples \in Nat /\ x.inputSamples \in Nat
      /\ x.outputSamples <= x.inputSamples
  BY <1>2, <1>5, PendingTypes DEF InputOK
<1>7. WorkInFlight(s) = {work}
  <2>1. active \in Seq(ActiveEntry)
    BY DEF BatchInv, TypeInv, TypeOK, SchedulerTypeOK
  <2>2. /\ 1 \in DOMAIN active /\ active[1] = Returned
        /\ \A i \in DOMAIN active : active[i].stream = s => i = 1
    BY <1>1, <2>1, TailElements DEF Returned, BatchInv, InFlightOnce
  <2> QED
    BY <2>2 DEF WorkInFlight
<1>8. ASSUME active' = Tail(active)
      PROVE  /\ WorkInFlight(s)' = {}
             /\ \A t \in Streams \ {s} : WorkInFlight(t)' = WorkInFlight(t)
  BY <1>1, <1>8, ReturnedFlight
<1> HIDE DEF x, work
<1>9. CASE FailEntry
  <2> DEFINE y == Fail(x, "inference")
  <2>1. session' = [session EXCEPT ![s] = y] /\ active' = Tail(active)
    BY <1>9 DEF FailEntry, Returned, x
  <2>2. /\ y.cancelled = TRUE /\ y.inq = x.inq /\ y.ended = x.ended
        /\ y.inputSamples = x.inputSamples /\ y.outputSamples = x.outputSamples
    BY <1>2, FailedInput DEF SameCounts
  <2> HIDE DEF y
  <2>3. session'[s] = y
    BY <1>2, <2>1
  <2>4. InputOK(s)'
    <3>1. ~Live(s)'
      BY <2>2, <2>3 DEF Live
    <3> QED
      BY <1>2, <1>4, <1>5, <1>6, <1>7, <1>8, <2>1, <2>2, <2>3, <3>1, DropInput DEF x
  <2> QED
    BY <1>2, <1>4, <1>8, <2>1, <2>4, OneInput
<1>10. CASE DistributeSkip
  <2>1. /\ UNCHANGED session /\ active' = Tail(active)
        /\ x.cancelled \/ x.ended
    BY <1>10 DEF DistributeSkip, AfterDistribute, Unwanted, x
  <2>2. ~Live(s)
    BY <2>1 DEF Live, x
  <2>3. \A t \in Streams : Live(t)' => Live(t)
    BY <1>4, <2>1 DEF Live
  <2>4. \A t \in Streams : Live(t)' => Live(t) /\ WorkInFlight(t)' = WorkInFlight(t)
    BY <1>8, <2>1, <2>2, <2>3
  <2>5. \A t \in Streams : WorkInFlight(t)' \subseteq WorkInFlight(t)
    BY <1>8, <2>1
  <2> QED
    BY <1>4, <2>1, <2>4, <2>5, IdleInput
<1>11. CASE DistributeOverflow
  <2> DEFINE a == Advance(x, Returned)
             y == Fail(a, "outputFull")
  <2>1. session' = [session EXCEPT ![s] = y] /\ active' = Tail(active)
    BY <1>11 DEF DistributeOverflow, AfterDistribute, x
  <2>2. /\ a \in BoundedSession /\ a.inq = x.inq /\ a.ended = x.ended
        /\ a.inputSamples = x.inputSamples /\ a.outputSamples = x.outputSamples
    BY <1>2, AdvanceType DEF Advance, BoundedSession, Session
  <2> HIDE DEF a
  <2>3. /\ y.cancelled = TRUE /\ y.inq = x.inq /\ y.ended = x.ended
        /\ y.inputSamples = x.inputSamples /\ y.outputSamples = x.outputSamples
    BY <2>2, FailedInput DEF SameCounts
  <2> HIDE DEF y
  <2>4. session'[s] = y
    BY <1>2, <2>1
  <2>5. InputOK(s)'
    <3>1. ~Live(s)'
      BY <2>3, <2>4 DEF Live
    <3> QED
      BY <1>2, <1>4, <1>5, <1>6, <1>7, <1>8, <2>1, <2>3, <2>4, <3>1, DropInput DEF x
  <2> QED
    BY <1>2, <1>4, <1>8, <2>1, <2>5, OneInput
<1>12. CASE DistributeFlush \/ DistributeHop \/ DistributeDies
  <2> DEFINE y == Deliver(x, Returned)
  <2>1. /\ Deliverable(x) /\ sched = "distribute"
        /\ ~x.cancelled /\ ~x.ended
    BY <1>12
       DEF DistributeFlush, DistributeHop, DistributeDies, Deliverable, Unwanted, x
  <2>2. /\ y \in BoundedSession /\ y.pending = SourceOf(work)
        /\ y.outputSamples = IF x.pending = None THEN x.outputSamples
                             ELSE x.outputSamples + x.pending.valid
        /\ y.inq = x.inq /\ y.ended = x.ended /\ y.cancelled = x.cancelled
        /\ SameCounts(x, y)
    BY <1>2, <2>1, DeliverInput DEF work
  <2>3. Chained(x, Works(s), {work})
    <3>1. Live(s)
      BY <2>1 DEF Live, Running, x
    <3> QED
      BY <1>5, <1>7, <3>1 DEF InputOK, x
  <2>4. CASE DistributeFlush
    <3> DEFINE z == Complete(y, TRUE)
    <3>1. /\ session' = [session EXCEPT ![s] = z] /\ active' = Tail(active)
          /\ work = FlushWork
      BY <2>4 DEF DistributeFlush, AfterDistribute, x, work
    <3>2. y.outputSamples = x.inputSamples /\ y.inputSamples = x.inputSamples
      BY <1>2, <2>2, <2>3, <3>1, ChainFlush DEF SameCounts
    <3>3. /\ z.ended = TRUE /\ z.inputSamples = x.inputSamples
          /\ z.outputSamples = x.inputSamples
      BY <2>2, <3>2, CompleteInput
    <3> HIDE DEF z, y
    <3>4. session'[s] = z
      BY <1>2, <3>1
    <3>5. InputOver(s)
      BY <1>5, <1>7, <3>1, WorkTypes DEF InputOK, FlushWork, IsSource
    <3>6. InputOK(s)'
      <4>1. InputOver(s)' /\ (toPut'[s] # <<>> => reader'[s] = "putting")
        BY <1>4, <1>5, <3>5 DEF InputOver, InputOK
      <4>2. ~Live(s)'
        BY <3>3, <3>4 DEF Live
      <4>3. /\ session'[s].outputSamples <= session'[s].inputSamples
            /\ session'[s].inputSamples <= MaxSamples
        BY <1>5, <1>6, <3>3, <3>4 DEF InputOK, x
      <4> QED
        BY <1>2, <4>1, <4>2, <4>3, InputDead
    <3> QED
      BY <1>2, <1>4, <1>8, <3>1, <3>6, OneInput
  <2>5. ASSUME DistributeHop \/ DistributeDies, work # FlushWork
        PROVE  InputInv'
    <3> DEFINE z == Notified(y)
    <3>1. session' = [session EXCEPT ![s] = z]
      BY <2>5 DEF DistributeHop, DistributeDies, x
    <3>2. IsSource(work)
      <4>1. \A e \in {work} : IsSource(e) \/ e = FlushWork
        BY <2>3 DEF Chained
      <4> QED
        BY <2>5, <4>1
    <3>3. Chained(y, Works(s), {}) /\ y.outputSamples <= y.inputSamples
      BY <1>2, <1>3, <2>2, <2>3, <3>2, ChainDeliver
    <3>4. SameInput(y, z)
      BY <2>2, NotifiedInput
    <3> HIDE DEF z, y
    <3>5. /\ Chained(z, Works(s), {}) /\ z.inq = x.inq /\ z.ended = x.ended
          /\ z.cancelled = x.cancelled /\ z.inputSamples = x.inputSamples
          /\ z.outputSamples <= x.inputSamples
      BY <2>2, <3>3, <3>4, SameChain, SameFields DEF SameCounts
    <3>6. session'[s] = z
      BY <1>2, <3>1
    <3>7. CASE DistributeHop
      <4>1. active' = Tail(active)
        BY <3>7 DEF DistributeHop, AfterDistribute
      <4>2. Works(s)' = Works(s) /\ WorkInFlight(s)' = {}
        BY <1>4, <1>8, <3>5, <3>6, <4>1 DEF Works, x
      <4>3. (InputOver(s)' <=> InputOver(s)) /\ (Open(s)' <=> Open(s))
        BY <1>4 DEF InputOver, Open
      <4>4. ~InputOver(s)' => /\ ~session'[s].ended
                              /\ \A e \in WorkInFlight(s)' \cup Elements(Works(s)') : IsSource(e)
        BY <1>5, <3>5, <3>6, <4>2, <4>3 DEF InputOK, x
      <4>5. ~(~InputOver(s)' /\ Open(s)' /\ session'[s].inputSamples = 0)
        BY <1>5, <1>7, <3>5, <3>6, <4>3 DEF InputOK, x
      <4>6. Live(s)' => Chained(session'[s], Works(s)', WorkInFlight(s)')
        BY <3>5, <3>6, <4>2
      <4>7. InputOK(s)'
        BY <1>4, <1>5, <3>5, <3>6, <4>4, <4>5, <4>6 DEF InputOK, x
      <4> QED
        BY <1>2, <1>4, <1>8, <3>1, <4>1, <4>7, OneInput
    <3>8. CASE DistributeDies
      <4>1. ~Running' /\ active' = <<>>
        BY <3>8 DEF DistributeDies, Running
      <4>2. \A t \in Streams : WorkInFlight(t)' = {} /\ ~Live(t)'
        BY <4>1 DEF WorkInFlight, Live
      <4>3. InputOK(s)'
        BY <1>2, <1>4, <1>5, <1>6, <1>7, <3>5, <3>6, <4>2, DropInput DEF x
      <4>4. ASSUME NEW t \in Streams, t # s PROVE InputOK(t)'
        <5>1. SameInput(session[t], session'[t])
          BY <1>2, <3>1, <4>4 DEF SameInput
        <5>2. InputOK(t) /\ TasksStay(t)
          BY <1>4 DEF InputInv
        <5>3. (InputOver(t)' <=> InputOver(t)) /\ (Open(t)' => Open(t))
          BY <5>2 DEF InputOver, Open, TasksStay
        <5>4. /\ toPut'[t] = toPut[t] /\ (toPut[t] # <<>> => reader'[t] = "putting")
              /\ WorkInFlight(t)' \subseteq WorkInFlight(t)
          BY <4>2, <5>2 DEF InputOK, TasksStay
        <5> QED
          BY <4>2, <5>1, <5>2, <5>3, <5>4, InputStays
      <4> QED
        BY <4>3, <4>4 DEF InputInv
    <3> QED
      BY <2>5, <3>7, <3>8
  <2> QED
    BY <1>12, <2>4, <2>5 DEF DistributeHop, DistributeDies, work
<1> QED
  BY <1>9, <1>10, <1>11, <1>12
-----------------------------------------------------------------------------
(* The steps of handlers and readers. *)

\* A step of one RPC's tasks, which leave the model alone.
OtherTasksStay(s) == \A t \in Streams \ {s} : TasksStay(t)

LEMMA TaskInput ==
    ASSUME InputInv, session \in [Streams -> BoundedSession],
           NEW s \in Streams, NEW y, session' = [session EXCEPT ![s] = y],
           OtherTasksStay(s), UNCHANGED <<sched, active>>, InputOK(s)'
    PROVE  InputInv'
<1>1. \A t : WorkInFlight(t)' = WorkInFlight(t)
  BY DEF WorkInFlight
<1>2. Running' => Running
  BY DEF Running
<1> QED
  BY <1>1, <1>2, OneInput DEF OtherTasksStay

LEMMA FinalizeInput ==
    ASSUME BatchInv, InputInv, NEW s \in Streams, Finalize(s)
    PROVE  InputInv'
<1> DEFINE y == [session[s] EXCEPT !.cancelled = TRUE, !.inq = <<>>, !.outq = <<>>]
<1>1. /\ session \in [Streams -> BoundedSession] /\ session[s] \in BoundedSession
      /\ handler \in [Streams -> HandlerStates] /\ reader \in [Streams -> ReaderStates]
      /\ toPut \in [Streams -> Seq(ModelWork)] /\ sawEnd \in [Streams -> BOOLEAN]
  BY DEF BatchInv, TypeInv, TypeOK, SessionTypeOK, ServiceTypeOK
<1>2. session' = [session EXCEPT ![s] = y] /\ UNCHANGED <<sched, active>>
  BY <1>1 DEF Finalize
<1>3. /\ y.cancelled = TRUE /\ y.inq = <<>> /\ y.ended = session[s].ended
      /\ y.inputSamples = session[s].inputSamples
      /\ y.outputSamples = session[s].outputSamples
  BY <1>1 DEF BoundedSession, Session
<1> HIDE DEF y
<1>4. session'[s] = y
  BY <1>1, <1>2
<1>5. OtherTasksStay(s)
  BY <1>1 DEF Finalize, OtherTasksStay, TasksStay
<1>6. /\ handler'[s] = "closed" /\ toPut'[s] = <<>> /\ sawEnd'[s] = FALSE
      /\ reader'[s] = IF reader[s] = "none" THEN "none" ELSE "stopped"
  BY <1>1 DEF Finalize
<1>7. InputOK(s)
  BY DEF InputInv
<1>8. Elements(Works(s)') = {}
  <2>1. Works(s)' = <<>>
    BY <1>3, <1>4, <1>6, ConcatEmptySeq DEF Works
  <2> QED
    BY <2>1 DEF Elements
<1>9. WorkInFlight(s)' = WorkInFlight(s)
  BY <1>2 DEF WorkInFlight
<1>10. ~InputOver(s)' => ~InputOver(s)
  BY <1>6 DEF InputOver
<1>11. ~InputOver(s)' => ~Open(s)'
  BY <1>6 DEF InputOver, Open
<1>12. ~InputOver(s)' => /\ ~session'[s].ended
                         /\ \A work \in WorkInFlight(s)' \cup Elements(Works(s)') : IsSource(work)
  BY <1>3, <1>4, <1>7, <1>8, <1>9, <1>10 DEF InputOK
<1>13. ~Live(s)'
  BY <1>3, <1>4 DEF Live
<1>14. InputOK(s)'
  BY <1>3, <1>4, <1>6, <1>7, <1>11, <1>12, <1>13 DEF InputOK
<1> QED
  BY <1>1, <1>2, <1>5, <1>14, TaskInput

LEMMA HandlerInput ==
    ASSUME BatchInv, NewHasNoReader, InputInv, NEW s \in Streams, Handler(s)
    PROVE  InputInv'
<1>1. /\ session \in [Streams -> BoundedSession] /\ session[s] \in BoundedSession
      /\ handler \in [Streams -> HandlerStates] /\ reader \in [Streams -> ReaderStates]
  BY DEF BatchInv, TypeInv, TypeOK, SessionTypeOK, ServiceTypeOK
<1>2. InputOK(s)
  BY DEF InputInv
<1>3. CASE EndedSent(s) \/ AbortSent(s) \/ CancelRPC(s)
  BY <1>3, FinalizeInput DEF EndedSent, AbortSent, CancelRPC
<1>4. CASE TakeEvent(s)
  <2> DEFINE y == [session[s] EXCEPT !.outq = Tail(@)]
  <2>1. /\ session' = [session EXCEPT ![s] = y] /\ UNCHANGED <<sched, active>>
        /\ UNCHANGED <<reader, toPut, sawEnd>>
    BY <1>1, <1>4 DEF TakeEvent
  <2>2. /\ OtherTasksStay(s)
        /\ handler'[s] # "new"
    BY <1>1, <1>4, <2>1 DEF TakeEvent, OtherTasksStay, TasksStay
  <2>3. SameInput(session[s], y)
    BY <1>1 DEF SameInput, InputConcerns, BoundedSession, Session
  <2> HIDE DEF y
  <2>4. SameInput(session[s], session'[s])
    BY <1>1, <2>1, <2>3
  <2>5. InputOK(s)'
    BY <1>2, <2>1, <2>2, <2>4, InputSame DEF Running
  <2> QED
    BY <1>1, <2>1, <2>2, <2>5, TaskInput
<1>5. CASE \E id \in StreamIds : Start(s, id)
  <2>1. /\ UNCHANGED <<session, sched, active, toPut, sawEnd>>
        /\ handler[s] = "new" /\ reader'[s] = "reading" /\ handler'[s] = "sending"
        /\ OtherTasksStay(s)
    BY <1>1, <1>5 DEF Start, schedVars, OtherTasksStay, TasksStay
  <2>2. reader[s] = "none"
    BY <2>1 DEF NewHasNoReader
  <2>3. ~InputOver(s) /\ Open(s) /\ toPut[s] = <<>>
    BY <1>2, <2>1, <2>2 DEF InputOver, Open, InputOK
  <2>4. /\ WorkInFlight(s)' = WorkInFlight(s) /\ Works(s)' = Works(s)
        /\ Live(s)' <=> Live(s)
    BY <2>1 DEF WorkInFlight, Works, Live, Running
  <2>5. InputOK(s)'
    BY <1>2, <2>1, <2>3, <2>4 DEF InputOK
  <2>6. session' = [session EXCEPT ![s] = session[s]]
    BY <1>1, <2>1
  <2> QED
    BY <1>1, <2>1, <2>5, <2>6, TaskInput
<1>6. CASE (\E id \in StreamIds : RefuseStart(s, id)) \/ RejectFirst(s) \/ MessageSent(s)
  <2>1. /\ UNCHANGED <<session, sched, active, reader, toPut, sawEnd>>
        /\ handler'[s] # "new" /\ OtherTasksStay(s)
    BY <1>1, <1>6
       DEF RefuseStart, RejectFirst, MessageSent, schedVars, OtherTasksStay, TasksStay
  <2>2. SameInput(session[s], session'[s])
    BY <2>1 DEF SameInput
  <2>3. InputOK(s)'
    BY <1>2, <2>1, <2>2, InputSame DEF Running
  <2>4. session' = [session EXCEPT ![s] = session[s]]
    BY <1>1, <2>1
  <2> QED
    BY <1>1, <2>1, <2>3, <2>4, TaskInput
<1> QED
  BY <1>3, <1>4, <1>5, <1>6 DEF Handler
\* The reader fails: whatever it leaves behind is dead.
LEMMA ReaderFailsInput ==
    ASSUME BatchInv, InputInv, NEW s \in Streams, ReaderUnchanged,
           \A t \in Streams \ {s} : sawEnd'[t] = sawEnd[t],
           NEW x \in BoundedSession, NEW reason, ReaderFails(s, x, reason),
           x.outputSamples <= x.inputSamples, x.inputSamples <= MaxSamples
    PROVE  InputInv'
<1> DEFINE y == Fail(x, reason)
<1>1. /\ session \in [Streams -> BoundedSession]
      /\ reader \in [Streams -> ReaderStates] /\ toPut \in [Streams -> Seq(ModelWork)]
  BY DEF BatchInv, TypeInv, TypeOK, SessionTypeOK, ServiceTypeOK
<1>2. /\ session' = [session EXCEPT ![s] = y] /\ UNCHANGED <<sched, active, handler>>
      /\ reader'[s] = "stopped" /\ toPut'[s] = <<>> /\ OtherTasksStay(s)
  BY <1>1 DEF ReaderFails, ReaderUnchanged, OtherTasksStay, TasksStay
<1>3. /\ y.cancelled = TRUE /\ y.outputSamples = x.outputSamples
      /\ y.inputSamples = x.inputSamples
  BY FailedInput DEF SameCounts
<1> HIDE DEF y
<1>4. session'[s] = y
  BY <1>1, <1>2
<1>5. InputOver(s)' /\ ~Live(s)'
  BY <1>2, <1>3, <1>4 DEF InputOver, Live
<1>6. InputOK(s)'
  BY <1>2, <1>3, <1>4, <1>5, InputDead
<1> QED
  BY <1>1, <1>2, <1>6, TaskInput

\* What a put enqueues and what it keeps is what it was given.
LEMMA PutKeepsWork ==
    ASSUME NEW q \in Seq(ModelWork), NEW works \in Seq(ModelWork),
           NEW k \in Nat, k <= Len(works)
    PROVE  /\ (q \o SubSeq(works, 1, k)) \o SubSeq(works, k + 1, Len(works)) = q \o works
           /\ SubSeq(works, k + 1, Len(works)) \in Seq(ModelWork)
<1> DEFINE put == SubSeq(works, 1, k)
           rest == SubSeq(works, k + 1, Len(works))
<1>1. Len(works) \in Nat
  OBVIOUS
<1>2. 1 \in 1..(Len(works) + 1) /\ k \in (1 - 1)..Len(works) /\ Len(works) \in k..Len(works)
  BY <1>1
<1>3. put \o rest = SubSeq(works, 1, Len(works))
  BY <1>2, ConcatAdjacentSubSeq
<1>4. SubSeq(works, 1, Len(works)) = works
  BY SubSeqFull
<1>5. put \in Seq(ModelWork) /\ rest \in Seq(ModelWork)
  OBVIOUS
<1> HIDE DEF put, rest
<1>6. (q \o put) \o rest = q \o (put \o rest)
  <2>1. \A S : \A p1, p2, p3 \in Seq(S) : (p1 \o p2) \o p3 = p1 \o (p2 \o p3)
    BY ConcatAssociative
  <2>2. \A p1, p2, p3 \in Seq(ModelWork) : (p1 \o p2) \o p3 = p1 \o (p2 \o p3)
    BY <2>1
  <2> QED
    BY <1>5, <2>2, Zenon
<1> QED
  BY <1>3, <1>4, <1>5, <1>6 DEF put, rest

\* A put, as far as it gets, of work that continues the stream.
LEMMA PutInput ==
    ASSUME BatchInv, InputInv, NEW s \in Streams, ReaderUnchanged,
           \A t \in Streams \ {s} : sawEnd'[t] = sawEnd[t],
           NEW x \in BoundedSession, NEW works \in Seq(ModelWork),
           Put(s, x, works) \/ PutRaises(s, x, works),
           x.ended = session[s].ended, x.cancelled = session[s].cancelled,
           Live(s) => Chained(x, x.inq \o works, WorkInFlight(s)),
           ~sawEnd'[s] =>
              /\ ~x.ended
              /\ \A work \in WorkInFlight(s) \cup Elements(x.inq \o works) : IsSource(work)
              /\ x.inputSamples = 0 =>
                    ~x.cancelled /\ x.inq \o works = <<>> /\ WorkInFlight(s) = {},
           x.outputSamples <= x.inputSamples, x.inputSamples <= MaxSamples
    PROVE  InputInv'
<1> DEFINE k == Fitting(x, works)
           y == Enqueued(x, works, k)
           rest == SubSeq(works, k + 1, Len(works))
           z == IF k = 0 THEN y ELSE Notified(y)
<1>1. /\ session \in [Streams -> BoundedSession] /\ session[s] \in BoundedSession
      /\ reader \in [Streams -> ReaderStates] /\ toPut \in [Streams -> Seq(ModelWork)]
  BY DEF BatchInv, TypeInv, TypeOK, SessionTypeOK, ServiceTypeOK
<1>2. k \in Nat /\ k <= Room(x) /\ k <= Len(works)
  BY FittingBounds
<1>3. x.inq \in Seq(ModelWork)
  BY PendingTypes
<1>4. CASE Put(s, x, works)
  <2>1. /\ session' = [session EXCEPT ![s] = z]
        /\ UNCHANGED <<sched, active, handler>>
        /\ toPut' = [toPut EXCEPT ![s] = rest]
        /\ reader' = [reader EXCEPT ![s] = IF rest = <<>> THEN "reading" ELSE "putting"]
    BY <1>4 DEF Put, ReaderUnchanged
  <2>2. /\ y \in BoundedSession /\ y.inq = x.inq \o SubSeq(works, 1, k)
        /\ y.pending = x.pending /\ y.ended = x.ended /\ y.cancelled = x.cancelled
        /\ y.outputSamples = x.outputSamples /\ SameCounts(x, y)
    BY <1>2, EnqueuedType DEF Enqueued, SameCounts, BoundedSession, Session
  <2> HIDE DEF y
  <2>3. SameInput(y, z)
    BY <2>2, NotifiedInput DEF SameInput
  <2> HIDE DEF z
  <2>4. /\ z.inq = x.inq \o SubSeq(works, 1, k)
        /\ z.pending = x.pending /\ z.ended = x.ended /\ z.cancelled = x.cancelled
        /\ z.outputSamples = x.outputSamples /\ SameCounts(x, z)
    <3>1. /\ z.inq = y.inq /\ z.pending = y.pending /\ z.ended = y.ended
          /\ z.cancelled = y.cancelled /\ z.buffered = y.buffered
          /\ z.nextSample = y.nextSample /\ z.inputSamples = y.inputSamples
          /\ z.outputSamples = y.outputSamples
      BY <2>3, SameFields
    <3> QED
      BY <2>2, <3>1 DEF SameCounts
  <2>5. session'[s] = z /\ toPut'[s] = rest /\ OtherTasksStay(s)
    BY <1>1, <2>1 DEF OtherTasksStay, TasksStay
  <2>6. Works(s)' = x.inq \o works
    BY <1>2, <1>3, <2>4, <2>5, PutKeepsWork DEF Works
  <2>7. WorkInFlight(s)' = WorkInFlight(s)
    BY <2>1 DEF WorkInFlight
  <2>8. Live(s)' => Live(s)
    BY <2>1, <2>4, <2>5 DEF Live, Running
  <2>9. Chained(x, x.inq \o works, WorkInFlight(s)) => Chained(z, x.inq \o works, WorkInFlight(s))
    <3>1. AfterPending(z) = AfterPending(x)
      BY <2>4 DEF AfterPending
    <3> QED
      BY <2>4, <3>1 DEF Chained, SameCounts
  <2>10. Live(s)' => Chained(session'[s], Works(s)', WorkInFlight(s)')
    BY <2>5, <2>6, <2>7, <2>8, <2>9
  <2>11. ~InputOver(s)' => ~sawEnd'[s]
    <3>1. reader'[s] # "none"
      BY <1>1, <2>1
    <3> QED
      BY <3>1 DEF InputOver
  <2>12. toPut'[s] # <<>> => reader'[s] = "putting"
    BY <1>1, <2>1, <2>5
  <2>13. InputOK(s)'
    BY <2>4, <2>5, <2>6, <2>7, <2>10, <2>11, <2>12 DEF InputOK, SameCounts
  <2> QED
    BY <1>1, <2>1, <2>5, <2>13, TaskInput
<1>5. CASE PutRaises(s, x, works)
  <2> DEFINE w == Enqueued(x, works, 1)
             v == Notified(w)
  <2>1. w \in BoundedSession
    <3>1. Room(x) \in Int /\ Len(works) \in Nat /\ k > 0
      BY <1>5, SessionAssumption DEF PutRaises, Room, BoundedSession, Session
    <3>2. 1 \in Nat /\ 1 <= Room(x) /\ 1 <= Len(works)
      BY <1>2, <3>1
    <3> QED
      BY <3>2, EnqueuedType
  <2>2. w.inputSamples = x.inputSamples /\ w.outputSamples = x.outputSamples
    BY DEF Enqueued, BoundedSession, Session
  <2>3. ReaderFails(s, v, "internal")
    BY <1>5 DEF PutRaises
  <2> HIDE DEF w
  <2>4. v \in BoundedSession /\ SameInput(w, v)
    BY <2>1, NotifiedType, NotifiedInput
  <2> HIDE DEF v
  <2>5. v.inputSamples = x.inputSamples /\ v.outputSamples = x.outputSamples
    BY <2>2, <2>4, SameFields
  <2> QED
    BY <2>3, <2>4, <2>5, ReaderFailsInput
<1> QED
  BY <1>4, <1>5

LEMMA JoinedElements ==
    ASSUME NEW p \in Seq(ModelWork), NEW q \in Seq(ModelWork)
    PROVE  Elements(p \o q) = Elements(p) \cup Elements(q)
<1>1. /\ Len(p) \in Nat /\ Len(q) \in Nat /\ DOMAIN p = 1..Len(p) /\ DOMAIN q = 1..Len(q)
      /\ DOMAIN (p \o q) = 1..(Len(p) + Len(q))
      /\ \A i \in 1..(Len(p) + Len(q)) :
            (p \o q)[i] = IF i <= Len(p) THEN p[i] ELSE q[i - Len(p)]
  BY ConcatProperties, LenProperties
<1>2. \A i \in 1..(Len(p) + Len(q)) : i \in 1..Len(p) \/ (i - Len(p) \in 1..Len(q) /\ ~(i <= Len(p)))
  BY <1>1
<1>3. \A i \in 1..Len(p) : i \in 1..(Len(p) + Len(q)) /\ i <= Len(p)
  BY <1>1
<1>4. \A i \in 1..Len(q) : /\ i + Len(p) \in 1..(Len(p) + Len(q)) /\ ~(i + Len(p) <= Len(p))
                           /\ (i + Len(p)) - Len(p) = i
  BY <1>1
<1>5. Elements(p \o q) \subseteq Elements(p) \cup Elements(q)
  BY <1>1, <1>2 DEF Elements
<1>6. Elements(p) \subseteq Elements(p \o q)
  BY <1>1, <1>3 DEF Elements
<1>7. Elements(q) \subseteq Elements(p \o q)
  BY <1>1, <1>4 DEF Elements
<1> QED
  BY <1>5, <1>6, <1>7
\* A reader that waits for the next message has nothing left to put.
LEMMA ReadingInput ==
    ASSUME BatchInv, NEW s \in Streams, InputOK(s), reader[s] = "reading"
    PROVE  /\ session \in [Streams -> BoundedSession] /\ session[s] \in BoundedSession
           /\ session[s].inq \in Seq(ModelWork)
           /\ toPut[s] = <<>> /\ Works(s) = session[s].inq
           /\ WorkInFlight(s) \subseteq ModelWork
           /\ Live(s) => Chained(session[s], session[s].inq, WorkInFlight(s))
           /\ session[s].outputSamples <= session[s].inputSamples
           /\ session[s].inputSamples <= MaxSamples
           /\ ~sawEnd[s] => /\ ~InputOver(s) /\ Open(s) /\ ~session[s].ended
                            /\ \A work \in WorkInFlight(s) : IsSource(work)
                            /\ AllSource(session[s].inq)
<1>1. /\ session \in [Streams -> BoundedSession] /\ session[s] \in BoundedSession
      /\ session[s].inq \in Seq(ModelWork) /\ active \in Seq(ActiveEntry)
  BY PendingTypes DEF BatchInv, TypeInv, TypeOK, SessionTypeOK, SchedulerTypeOK
<1>2. toPut[s] = <<>>
  BY DEF InputOK
<1>3. Works(s) = session[s].inq
  BY <1>1, <1>2, ConcatEmptySeq DEF Works
<1>4. WorkInFlight(s) \subseteq ModelWork
  BY <1>1, EntryTypes DEF WorkInFlight, ActiveEntry
<1>5. ~sawEnd[s] => ~InputOver(s)
  BY DEF InputOver
<1>6. ~sawEnd[s] => AllSource(session[s].inq)
  BY <1>3, <1>5 DEF InputOK, Elements, AllSource
<1> QED
  BY <1>1, <1>2, <1>3, <1>4, <1>5, <1>6 DEF InputOK, Open

LEMMA EndMarkerContinues ==
    ASSUME NEW first \in Nat
    PROVE  /\ <<NoFlushWork>> \in Seq(ModelWork)
           /\ Continues(<<NoFlushWork>>, first, first)
           /\ FlushWork \notin Elements(<<NoFlushWork>>)
<1> DEFINE w == <<NoFlushWork>>
<1>1. w \in Seq(ModelWork) /\ w # <<>> /\ Len(w) = 1 /\ w[1] = NoFlushWork /\ DOMAIN w = 1..1
  BY DEF ModelWork
<1>2. ~IsSource(NoFlushWork) /\ FlushWork # NoFlushWork
  BY DEF IsSource, NoFlushWork, FlushWork
<1> HIDE DEF w
<1>3. Sourced(w) = 0
  BY <1>1, <1>2 DEF Sourced
<1>4. Continues(w, first, first)
  BY <1>3 DEF Continues, Tile
<1>5. FlushWork \notin Elements(w)
  BY <1>1, <1>2 DEF Elements
<1> QED
  BY <1>1, <1>4, <1>5 DEF w

LEMMA ReaderInput ==
    ASSUME BatchInv, InputInv, NEW s \in Streams, Reader(s)
    PROVE  InputInv'
<1> DEFINE x == session[s]
           flight == WorkInFlight(s)
<1>1. InputOK(s)
  BY DEF InputInv
<1>2. sawEnd \in [Streams -> BOOLEAN] /\ reader \in [Streams -> ReaderStates]
      /\ toPut \in [Streams -> Seq(ModelWork)] /\ x \in BoundedSession
      /\ session \in [Streams -> BoundedSession]
  BY DEF BatchInv, TypeInv, TypeOK, ServiceTypeOK, SessionTypeOK
<1>3. /\ x.inputSamples \in Nat /\ x.outputSamples \in Nat /\ x.nextSample \in Nat
      /\ x.buffered \in Nat /\ x.inq \in Seq(ModelWork)
  BY <1>2, PendingTypes
<1> HIDE DEF x, flight
<1>4. FlushWork \notin flight \/ ~(\A work \in flight : IsSource(work))
  BY DEF FlushWork, IsSource
<1>5. ASSUME NEW n \in 1..MaxAudioChunkSamples, AcceptAudio(s, n)
      PROVE  InputInv'
  <2> DEFINE y == Accept(x, n)
             works == FullHops(x, n)
  <2>1. /\ reader[s] = "reading" /\ ~sawEnd[s] /\ ReaderUnchanged /\ UNCHANGED sawEnd
        /\ x.inputSamples + n <= MaxSamples
        /\ Put(s, y, works) \/ PutRaises(s, y, works)
    BY <1>5 DEF AcceptAudio, x
  <2>2. y \in BoundedSession /\ works \in Seq(ModelWork) /\ n \in Nat /\ n > 0
    <3>1. n \in Nat /\ n > 0
      BY ServiceAssumption
    <3> QED
      BY <1>2, <3>1, RechunkType
  <2>3. /\ AllSource(works) /\ Continues(works, x.nextSample, y.nextSample)
        /\ x.nextSample <= y.nextSample
        /\ y.nextSample + y.buffered = x.nextSample + x.buffered + n
        /\ y.inputSamples = x.inputSamples + n
        /\ y.inq = x.inq /\ y.pending = x.pending /\ y.ended = x.ended
        /\ y.cancelled = x.cancelled /\ y.outputSamples = x.outputSamples
    BY <1>2, <2>2, HopsContinue
  <2> HIDE DEF y, works
  <2>4. /\ flight \subseteq ModelWork /\ ~x.ended
        /\ \A work \in flight : IsSource(work)
        /\ AllSource(x.inq) /\ x.outputSamples <= x.inputSamples
        /\ Live(s) => Chained(x, x.inq, flight)
    BY <1>1, <2>1, ReadingInput DEF x, flight
  <2>5. \A work \in Elements(works) : IsSource(work) /\ work # FlushWork
    BY <2>3 DEF AllSource, Elements, FlushWork, IsSource
  <2>6. ASSUME Live(s) PROVE Chained(y, y.inq \o works, flight)
    <3>1. x.inputSamples = x.nextSample + x.buffered
      BY <2>4, <2>6 DEF Chained
    <3>2. y.inputSamples = y.nextSample + y.buffered
      BY <1>3, <2>2, <2>3, <3>1
    <3>3. FlushWork \notin Elements(works)
      BY <2>5
    <3> QED
      BY <1>2, <1>3, <1>4, <2>2, <2>3, <2>4, <2>6, <3>2, <3>3, ChainAppend
  <2>7. \A work \in flight \cup Elements(y.inq \o works) : IsSource(work)
    <3>1. \A work \in Elements(x.inq) : IsSource(work)
      BY <2>4 DEF AllSource, Elements
    <3>2. Elements(x.inq \o works) = Elements(x.inq) \cup Elements(works)
      BY <1>3, <2>2, JoinedElements
    <3> QED
      BY <2>3, <2>4, <2>5, <3>1, <3>2
  <2>8. /\ y.inputSamples # 0 /\ y.outputSamples <= y.inputSamples
        /\ y.inputSamples <= MaxSamples
    BY <1>3, <2>1, <2>2, <2>3, <2>4
  <2> QED
    BY <2>1, <2>2, <2>3, <2>4, <2>6, <2>7, <2>8, PutInput DEF x, flight
<1>6. ASSUME NEW n \in 1..MaxAudioChunkSamples, ChunkRefused(s, n)
      PROVE  InputInv'
  <2> DEFINE y == [x EXCEPT !.inputSamples = @ + n]
  <2>1. x.inputSamples + n \in Nat /\ n \in Nat
    BY <1>3, ServiceAssumption
  <2>2. /\ y \in BoundedSession /\ y.inputSamples = x.inputSamples + n
        /\ y.outputSamples = x.outputSamples
    BY <1>2, <2>1, FieldType DEF BoundedSession, Session
  <2>3. /\ ReaderFails(s, y, "inputFull") /\ ReaderUnchanged /\ UNCHANGED sawEnd
        /\ x.inputSamples + n <= MaxSamples
    BY <1>6 DEF ChunkRefused, x
  <2> HIDE DEF y
  <2>4. x.outputSamples <= x.inputSamples
    BY <1>1 DEF InputOK, x
  <2>5. y.outputSamples <= y.inputSamples /\ y.inputSamples <= MaxSamples
    BY <1>3, <2>1, <2>2, <2>3, <2>4
  <2> QED
    BY <2>2, <2>3, <2>5, ReaderFailsInput
<1>7. CASE ProtocolViolation(s) \/ IdleTimeout(s)
  <2>1. /\ ReaderFails(s, x, "protocol") /\ ReaderUnchanged /\ UNCHANGED sawEnd
    BY <1>7 DEF ProtocolViolation, IdleTimeout, x
  <2> QED
    BY <1>1, <1>2, <2>1, ReaderFailsInput DEF InputOK, x
<1>8. CASE EndWithoutFlush(s)
  <2> DEFINE works == <<NoFlushWork>>
  <2>1. /\ reader[s] = "reading" /\ ~sawEnd[s] /\ ReaderUnchanged
        /\ sawEnd' = [sawEnd EXCEPT ![s] = TRUE]
        /\ Put(s, x, works) \/ PutRaises(s, x, works)
    BY <1>8 DEF EndWithoutFlush, x
  <2>2. /\ works \in Seq(ModelWork) /\ Continues(works, x.nextSample, x.nextSample)
        /\ FlushWork \notin Elements(works)
    BY <1>3, EndMarkerContinues
  <2> HIDE DEF works
  <2>3. /\ flight \subseteq ModelWork /\ \A work \in flight : IsSource(work)
        /\ AllSource(x.inq) /\ x.outputSamples <= x.inputSamples
        /\ x.inputSamples <= MaxSamples
        /\ Live(s) => Chained(x, x.inq, flight)
    BY <1>1, <2>1, ReadingInput DEF x, flight
  <2>4. Live(s) => Chained(x, x.inq \o works, flight)
    <3>1. Chained(x, x.inq, flight) => x.inputSamples = x.nextSample + x.buffered
      BY DEF Chained
    <3>2. x.nextSample <= x.nextSample
      BY <1>3
    <3> QED
      BY <1>2, <1>3, <1>4, <2>2, <2>3, <3>1, <3>2, ChainAppend
  <2>5. sawEnd'[s] = TRUE /\ \A t \in Streams \ {s} : sawEnd'[t] = sawEnd[t]
    BY <1>2, <2>1
  <2> QED
    BY <1>2, <2>1, <2>2, <2>3, <2>4, <2>5, PutInput DEF x, flight
<1>9. CASE EndWithFlush(s)
  <2> DEFINE works == TerminalWorks(x)
             y == FlushPartial(x)
  <2>1. /\ reader[s] = "reading" /\ ~sawEnd[s] /\ ReaderUnchanged
        /\ sawEnd' = [sawEnd EXCEPT ![s] = TRUE]
        /\ Put(s, y, works) \/ PutRaises(s, y, works)
    BY <1>9 DEF EndWithFlush, x
  <2>2. y \in BoundedSession /\ works \in Seq(ModelWork)
    BY <1>2, FlushType
  <2>3. /\ Continues(works, x.nextSample, y.nextSample)
        /\ x.nextSample <= y.nextSample
        /\ y.buffered = 0 /\ y.nextSample = x.nextSample + x.buffered
        /\ y.inq = x.inq /\ y.pending = x.pending /\ y.ended = x.ended
        /\ y.cancelled = x.cancelled /\ y.outputSamples = x.outputSamples
        /\ y.inputSamples = x.inputSamples
    BY <1>2, TerminalContinues
  <2> HIDE DEF works, y
  <2>4. /\ flight \subseteq ModelWork /\ \A work \in flight : IsSource(work)
        /\ AllSource(x.inq) /\ x.outputSamples <= x.inputSamples
        /\ x.inputSamples <= MaxSamples
        /\ Live(s) => Chained(x, x.inq, flight)
    BY <1>1, <2>1, ReadingInput DEF x, flight
  <2>5. Live(s) => Chained(y, y.inq \o works, flight)
    <3>1. Chained(x, x.inq, flight) => y.inputSamples = y.nextSample + y.buffered
      BY <1>3, <2>3 DEF Chained
    <3> QED
      BY <1>2, <1>3, <1>4, <2>2, <2>3, <2>4, <3>1, ChainAppend
  <2>6. sawEnd'[s] = TRUE /\ \A t \in Streams \ {s} : sawEnd'[t] = sawEnd[t]
    BY <1>2, <2>1
  <2> QED
    BY <2>1, <2>2, <2>3, <2>4, <2>5, <2>6, PutInput DEF x, flight
<1>10. CASE EndEmptyStream(s)
  <2> DEFINE y == Complete(x, TRUE)
  <2>1. /\ session' = [session EXCEPT ![s] = y] /\ UNCHANGED <<sched, active, toPut, reader>>
        /\ sawEnd' = [sawEnd EXCEPT ![s] = TRUE] /\ UNCHANGED handler
        /\ reader[s] = "reading"
    BY <1>10 DEF EndEmptyStream, ReaderUnchanged, x
  <2>2. /\ y.ended = TRUE /\ y.inputSamples = x.inputSamples
        /\ y.outputSamples = x.outputSamples
    BY <1>2, CompleteInput
  <2> HIDE DEF y
  <2>3. /\ session'[s] = y /\ sawEnd'[s] = TRUE /\ OtherTasksStay(s)
    BY <1>2, <2>1 DEF OtherTasksStay, TasksStay
  <2>4. InputOver(s)' /\ ~Live(s)'
    BY <2>1, <2>2, <2>3 DEF InputOver, Live
  <2>5. InputOK(s)'
    <3>1. toPut'[s] # <<>> => reader'[s] = "putting"
      BY <1>1, <2>1 DEF InputOK
    <3>2. /\ session'[s].outputSamples <= session'[s].inputSamples
          /\ session'[s].inputSamples <= MaxSamples
      BY <1>1, <2>2, <2>3 DEF InputOK, x
    <3> QED
      BY <2>4, <3>1, <3>2, InputDead
  <2> QED
    BY <1>2, <2>1, <2>3, <2>5, TaskInput
<1>11. CASE ResumePut(s)
  <2>1. /\ reader[s] = "putting" /\ ReaderUnchanged /\ UNCHANGED sawEnd
        /\ Put(s, x, toPut[s]) \/ PutRaises(s, x, toPut[s])
    BY <1>11 DEF ResumePut, x
  <2>2. ~sawEnd[s] => ~InputOver(s) /\ Open(s)
    BY <2>1 DEF InputOver, Open
  <2>3. toPut[s] \in Seq(ModelWork) /\ Works(s) = x.inq \o toPut[s]
    BY <1>2 DEF Works, x
  <2>4. ~sawEnd'[s] =>
           /\ ~x.ended
           /\ \A work \in flight \cup Elements(x.inq \o toPut[s]) : IsSource(work)
           /\ x.inputSamples = 0 =>
                 ~x.cancelled /\ x.inq \o toPut[s] = <<>> /\ flight = {}
    BY <1>1, <2>1, <2>2, <2>3 DEF InputOK, x, flight
  <2>5. /\ Live(s) => Chained(x, x.inq \o toPut[s], flight)
        /\ x.outputSamples <= x.inputSamples /\ x.inputSamples <= MaxSamples
    BY <1>1, <2>3 DEF InputOK, x, flight
  <2> QED
    BY <1>2, <2>1, <2>3, <2>4, <2>5, PutInput DEF x, flight
<1>12. CASE HalfClose(s)
  <2>1. /\ UNCHANGED <<session, sched, active, toPut, sawEnd, handler>>
        /\ reader[s] = "reading" /\ sawEnd[s]
        /\ reader' = [reader EXCEPT ![s] = "stopped"]
    BY <1>12 DEF HalfClose, schedVars
  <2>2. reader'[s] = "stopped" /\ OtherTasksStay(s)
    BY <1>2, <2>1 DEF OtherTasksStay, TasksStay
  <2>3. (InputOver(s)' <=> InputOver(s)) /\ (Open(s)' => Open(s))
    BY <2>1, <2>2 DEF InputOver, Open
  <2>4. /\ toPut'[s] = toPut[s] /\ (toPut[s] # <<>> => reader'[s] = "putting")
        /\ SameInput(session[s], session'[s])
    BY <1>1, <2>1 DEF InputOK, SameInput
  <2>5. WorkInFlight(s)' = WorkInFlight(s) /\ (Live(s)' => Live(s))
    BY <2>1 DEF WorkInFlight, Live, Running
  <2>6. InputOK(s)'
    BY <1>1, <2>3, <2>4, <2>5, InputStays
  <2>7. session' = [session EXCEPT ![s] = session[s]]
    BY <1>2, <2>1
  <2> QED
    BY <1>2, <2>1, <2>2, <2>6, <2>7, TaskInput
<1> QED
  BY <1>5, <1>6, <1>7, <1>8, <1>9, <1>10, <1>11, <1>12 DEF Reader
-----------------------------------------------------------------------------

LEMMA InitInput == Init => InputInv
<1> SUFFICES ASSUME Init, NEW s \in Streams PROVE InputOK(s)
  BY DEF InputInv
<1>1. /\ session[s] = FreshSession /\ toPut[s] = <<>> /\ reader[s] = "none"
      /\ active = <<>>
  BY DEF Init, SchedulerInit
<1>2. /\ session[s].inq = <<>> /\ session[s].pending = None /\ session[s].ended = FALSE
      /\ session[s].cancelled = FALSE /\ session[s].inputSamples = 0
      /\ session[s].outputSamples = 0 /\ session[s].nextSample = 0 /\ session[s].buffered = 0
  BY <1>1 DEF FreshSession
<1>3. WorkInFlight(s) = {}
  BY <1>1 DEF WorkInFlight
<1>4. Works(s) = <<>> /\ Elements(Works(s)) = {}
  <2>1. Works(s) = <<>>
    BY <1>1, <1>2 DEF Works
  <2> QED
    BY <2>1 DEF Elements
<1>5. Sourced(<<>>) = 0
  BY DEF Sourced
<1>6. AfterPending(session[s]) = 0
  BY <1>2 DEF AfterPending
<1>7. Chained(session[s], Works(s), WorkInFlight(s))
  BY <1>2, <1>3, <1>4, <1>5, <1>6 DEF Chained, Continues, Tile
<1> QED
  BY <1>1, <1>2, <1>3, <1>4, <1>7, ServiceAssumption DEF InputOK

LEMMA ShutdownInput ==
    ASSUME InputInv, Shutdown
    PROVE  InputInv'
<1>1. ~Running' /\ active' = <<>> /\ UNCHANGED session /\ \A t \in Streams : TasksStay(t)
  BY DEF Shutdown, CloseScheduler, Running, serviceVars, TasksStay
<1>2. \A t \in Streams : ~Live(t)' /\ WorkInFlight(t)' = {}
  BY <1>1 DEF Live, WorkInFlight
<1> QED
  BY <1>1, <1>2, IdleInput

LEMMA NextInput ==
    ASSUME BatchInv, RegistryInv, InputInv, [Next]_vars
    PROVE  InputInv'
<1>1. CASE SchedulerStep
  BY <1>1, TakeInput, DispatchInput, ReturnInput DEF SchedulerStep, RunStep
<1>2. ASSUME NEW s \in Streams, Handler(s) PROVE InputInv'
  BY <1>2, HandlerInput DEF RegistryInv
<1>3. ASSUME NEW s \in Streams, Reader(s) PROVE InputInv'
  BY <1>3, ReaderInput
<1>4. CASE StopServer \/ UNCHANGED vars
  <2>1. UNCHANGED <<session, active, sched>> /\ \A t \in Streams : TasksStay(t)
    BY <1>4 DEF StopServer, vars, schedVars, serviceVars, TasksStay
  <2>2. \A t : WorkInFlight(t)' = WorkInFlight(t) /\ (Live(t)' => Live(t))
    BY <2>1 DEF WorkInFlight, Live, Running
  <2> QED
    BY <2>1, <2>2, IdleInput
<1>5. CASE Shutdown
  BY <1>5, ShutdownInput
<1> QED
  BY <1>1, <1>2, <1>3, <1>4, <1>5 DEF Next
-----------------------------------------------------------------------------
(* The output side: the queue of events and the client.                       *)

\* The audio of a queue of events continues from sample first up to sample end.
Plays(outq, first, end) ==
    /\ \A i \in 1..Audible(outq) : IsAudio(outq[i])
    /\ Tile(outq, Audible(outq), first, end)

AllAudio(outq) == \A i \in DOMAIN outq : IsAudio(outq[i])

\* A stream that goes on queues nothing but audio, and what CompletionAccounts
\* says of one session.
EventsOK(x) ==
    /\ ~x.ended /\ ~x.cancelled => AllAudio(x.outq)
    /\ \A i \in DOMAIN x.outq :
          LET e == x.outq[i]
          IN  /\ ~IsAudio(e) => i = Len(x.outq)
              /\ e.type = "ended" =>
                   /\ x.ended
                   /\ e.output = x.outputSamples
                   /\ e.input = x.inputSamples
                   /\ IF e.flushed THEN e.output = e.input ELSE e.output <= e.input

OutputOK(s) ==
    LET x == session[s]
    IN  ~x.cancelled =>
            /\ SendingAudio(s) => sending[s].start = received[s]
            /\ Plays(x.outq, SentUpTo(s), x.outputSamples)

OutputInv == \A s \in Streams : EventsOK(session[s]) /\ OutputOK(s)

LEMMA EventBounds ==
    ASSUME NEW q \in Seq(OutputEvent)
    PROVE  /\ Len(q) \in Nat /\ DOMAIN q = 1..Len(q)
           /\ q = <<>> <=> Len(q) = 0
           /\ Audible(q) \in Nat
           /\ q # <<>> => Audible(q) = IF IsAudio(q[Len(q)]) THEN Len(q) ELSE Len(q) - 1
           /\ AllAudio(q) => Audible(q) = Len(q)
<1>1. Len(q) \in Nat /\ DOMAIN q = 1..Len(q)
  OBVIOUS
<1>2. q = <<>> <=> Len(q) = 0
  BY <1>1, EmptySeq
<1>3. CASE q = <<>>
  BY <1>1, <1>2, <1>3 DEF Audible
<1>4. CASE q # <<>>
  <2>1. Len(q) \in DOMAIN q /\ Len(q) >= 1
    BY <1>1, <1>2, <1>4
  <2>2. Audible(q) = IF IsAudio(q[Len(q)]) THEN Len(q) ELSE Len(q) - 1
    BY <1>4 DEF Audible
  <2>3. AllAudio(q) => Audible(q) = Len(q)
    BY <2>1, <2>2 DEF AllAudio
  <2>4. Audible(q) \in Nat
    BY <1>1, <2>1, <2>2
  <2> QED
    BY <1>1, <1>2, <2>2, <2>3, <2>4
<1> QED
  BY <1>3, <1>4

\* The event taken is the next audio, or it is the last event.
LEMMA PlaysTail ==
    ASSUME NEW q \in Seq(OutputEvent), q # <<>>, NEW first, NEW end, Plays(q, first, end)
    PROVE  /\ IsAudio(Head(q)) => Head(q).start = first /\ Plays(Tail(q), EndOf(Head(q)), end)
           /\ ~IsAudio(Head(q)) => Plays(Tail(q), first, end)
<1> DEFINE n == Len(q)
           k == Audible(q)
           rest == Tail(q)
<1>1. /\ n \in Nat \ {0} /\ DOMAIN q = 1..n /\ q[1] = Head(q)
      /\ rest \in Seq(OutputEvent) /\ Len(rest) = n - 1
      /\ \A i \in 1..(n - 1) : rest[i] = q[i + 1]
  BY TailElements
<1>2. k \in Nat /\ k = IF IsAudio(q[n]) THEN n ELSE n - 1
  BY EventBounds
<1>3. /\ \A i \in 1..k : IsAudio(q[i])
      /\ \A i \in 1..k : q[i].start = IF i = 1 THEN first ELSE EndOf(q[i - 1])
      /\ end = IF k = 0 THEN first ELSE EndOf(q[k])
  BY DEF Plays, Tile
<1> HIDE DEF rest, n, k
<1>4. rest = <<>> <=> n = 1
  <2>1. rest = <<>> <=> Len(rest) = 0
    BY <1>1, EmptySeq
  <2> QED
    BY <1>1, <2>1
<1>5. CASE k = 0
  <2>1. n = 1 /\ ~IsAudio(q[1])
    BY <1>1, <1>2, <1>5
  <2>2. rest = <<>> /\ Audible(rest) = 0
    BY <1>4, <2>1 DEF Audible
  <2>3. Plays(rest, first, end)
    BY <1>3, <1>5, <2>2 DEF Plays, Tile
  <2> QED
    BY <1>1, <2>1, <2>3 DEF rest
<1>6. CASE k # 0
  <2>1. k >= 1 /\ 1 \in 1..k
    BY <1>2, <1>6
  <2>2. IsAudio(q[1]) /\ q[1].start = first
    BY <1>3, <2>1
  <2>3. Audible(rest) = k - 1
    <3>1. CASE n = 1
      BY <1>1, <1>2, <1>4, <2>2, <3>1 DEF Audible
    <3>2. CASE n # 1
      <4>1. n - 1 \in 1..(n - 1) /\ rest[n - 1] = q[n]
        BY <1>1, <3>2
      <4> QED
        BY <1>1, <1>2, <1>4, <3>2, <4>1, EventBounds
    <3> QED
      BY <3>1, <3>2
  <2>4. \A i \in 1..(k - 1) : i \in 1..(n - 1) /\ i + 1 \in 1..k /\ rest[i] = q[i + 1]
    BY <1>1, <1>2
  <2>5. \A i \in 1..(k - 1) : IsAudio(rest[i])
    BY <1>3, <2>4
  <2>6. ASSUME NEW i \in 1..(k - 1)
        PROVE  rest[i].start = IF i = 1 THEN EndOf(q[1]) ELSE EndOf(rest[i - 1])
    <3>1. i + 1 \in 1..k /\ i + 1 # 1 /\ (i + 1) - 1 = i /\ i \in Nat
      BY <1>2
    <3>2. rest[i].start = EndOf(q[i])
      BY <1>3, <2>4, <3>1
    <3>3. i # 1 => i - 1 \in 1..(k - 1) /\ rest[i - 1] = q[i]
      BY <1>2, <2>4
    <3> QED
      BY <3>2, <3>3
  <2>7. end = IF k - 1 = 0 THEN EndOf(q[1]) ELSE EndOf(rest[k - 1])
    <3>1. k # 1 => k - 1 \in 1..(k - 1) /\ rest[k - 1] = q[k]
      BY <1>2, <2>1, <2>4
    <3> QED
      BY <1>2, <1>3, <1>6, <3>1
  <2>8. Plays(rest, EndOf(q[1]), end)
    BY <2>3, <2>5, <2>6, <2>7 DEF Plays, Tile
  <2> QED
    BY <1>1, <2>2, <2>8 DEF rest
<1> QED
  BY <1>5, <1>6

\* The hop that continues the audio, or the last event, is put behind it.
LEMMA PlaysAppend ==
    ASSUME NEW q \in Seq(OutputEvent), AllAudio(q), NEW first, NEW end, Plays(q, first, end),
           NEW e \in OutputEvent
    PROVE  /\ IsAudio(e) /\ e.start = end => Plays(Append(q, e), first, EndOf(e))
           /\ ~IsAudio(e) => Plays(Append(q, e), first, end)
<1> DEFINE n == Len(q)
           w == Append(q, e)
<1>1. /\ n \in Nat /\ DOMAIN q = 1..n /\ w \in Seq(OutputEvent)
      /\ Len(w) = n + 1 /\ w[n + 1] = e
      /\ \A i \in 1..n : w[i] = q[i]
  BY AppendElements, AppendProperties
<1>2. Audible(q) = n
  BY EventBounds
<1>3. /\ \A i \in 1..n : IsAudio(q[i])
      /\ \A i \in 1..n : q[i].start = IF i = 1 THEN first ELSE EndOf(q[i - 1])
      /\ end = IF n = 0 THEN first ELSE EndOf(q[n])
  BY <1>2 DEF Plays, Tile
<1> HIDE DEF w, n
<1>4. Audible(w) = IF IsAudio(e) THEN n + 1 ELSE n
  <2>1. Len(w) # 0
    BY <1>1
  <2>2. w # <<>>
    BY <1>1, <2>1, EventBounds
  <2> QED
    BY <1>1, <2>2, EventBounds
<1>5. \A i \in 1..n : w[i].start = IF i = 1 THEN first ELSE EndOf(w[i - 1])
  <2>1. \A i \in 1..n : i # 1 => i - 1 \in 1..n
    BY <1>1
  <2> QED
    BY <1>1, <1>3, <2>1
<1>6. ASSUME IsAudio(e), e.start = end PROVE Plays(w, first, EndOf(e))
  <2>1. \A i \in 1..(n + 1) : i \in 1..n \/ i = n + 1
    BY <1>1
  <2>2. w[n + 1].start = IF n + 1 = 1 THEN first ELSE EndOf(w[(n + 1) - 1])
    <3>1. (n + 1) - 1 = n /\ (n # 0 => n \in 1..n) /\ (n + 1 = 1 <=> n = 0)
      BY <1>1
    <3> QED
      BY <1>1, <1>3, <1>6, <3>1
  <2>3. \A i \in 1..(n + 1) : IsAudio(w[i])
    BY <1>1, <1>3, <1>6, <2>1
  <2>4. \A i \in 1..(n + 1) : w[i].start = IF i = 1 THEN first ELSE EndOf(w[i - 1])
    BY <1>5, <2>1, <2>2
  <2>5. n + 1 # 0
    BY <1>1
  <2> QED
    BY <1>1, <1>4, <1>6, <2>3, <2>4, <2>5 DEF Plays, Tile
<1>7. ASSUME ~IsAudio(e) PROVE Plays(w, first, end)
  <2>1. end = IF n = 0 THEN first ELSE EndOf(w[n])
    <3>1. n # 0 => n \in 1..n
      BY <1>1
    <3> QED
      BY <1>1, <1>3, <3>1
  <2> QED
    BY <1>1, <1>3, <1>4, <1>5, <1>7, <2>1 DEF Plays, Tile
<1> QED
  BY <1>6, <1>7 DEF w
OutputConcerns == {"outq", "ended", "cancelled", "inputSamples", "outputSamples"}
SameOutput(x, y) == \A field \in OutputConcerns : y[field] = x[field]

LEMMA SameOutputFields ==
    ASSUME NEW x, NEW y, SameOutput(x, y)
    PROVE  /\ y.outq = x.outq /\ y.ended = x.ended /\ y.cancelled = x.cancelled
           /\ y.inputSamples = x.inputSamples /\ y.outputSamples = x.outputSamples
BY DEF SameOutput, OutputConcerns

LEMMA EventsStay ==
    ASSUME NEW x, NEW y, SameOutput(x, y), EventsOK(x)
    PROVE  EventsOK(y)
BY SameOutputFields DEF EventsOK

LEMMA FailedEvents ==
    ASSUME NEW x \in BoundedSession, NEW reason
    PROVE  /\ EventsOK(Fail(x, reason))
           /\ Fail(x, reason).cancelled = TRUE
           /\ Fail(x, reason).outq = <<Failure(reason)>>
<1>1. /\ Fail(x, reason).cancelled = TRUE
      /\ Fail(x, reason).outq = <<Failure(reason)>>
  BY DEF Fail, BoundedSession, Session
<1>2. Failure(reason).type = "failure"
  BY DEF Failure
<1> HIDE DEF Fail
<1> DEFINE q == <<Failure(reason)>>
<1>3. DOMAIN q = 1..1 /\ Len(q) = 1 /\ q[1] = Failure(reason)
  OBVIOUS
<1> HIDE DEF q
<1>4. \A i \in DOMAIN q : i = Len(q) /\ q[i].type # "ended"
  BY <1>2, <1>3
<1> QED
  BY <1>1, <1>4 DEF EventsOK, q

\* A completion is last, and says what was delivered.
LEMMA CompletedEvents ==
    ASSUME NEW x \in BoundedSession, ~x.ended, ~x.cancelled, EventsOK(x),
           NEW flushed \in BOOLEAN, x.outputSamples <= x.inputSamples,
           flushed => x.outputSamples = x.inputSamples
    PROVE  LET y == Complete(x, flushed)
           IN  /\ EventsOK(y)
               /\ y.outputSamples = x.outputSamples
               /\ \/ y.cancelled = TRUE
                  \/ /\ y.outq = Append(x.outq, Completion(x, flushed))
                     /\ y.cancelled = FALSE
<1> DEFINE y == [x EXCEPT !.ended = TRUE]
           e == Completion(x, flushed)
           z == Complete(x, flushed)
<1>1. /\ y \in BoundedSession /\ y.ended = TRUE /\ y.outq = x.outq
      /\ y.inputSamples = x.inputSamples /\ y.outputSamples = x.outputSamples
      /\ y.cancelled = x.cancelled /\ x.cancelled \in BOOLEAN
      /\ x.outq \in Seq(OutputEvent)
      /\ x.inputSamples \in Nat /\ x.outputSamples \in Nat
  BY FlagsType DEF BoundedSession, Session
<1>2. z = IF OutputFull(y) THEN Fail(y, "outputFull") ELSE Emit(y, Completion(y, flushed))
  BY DEF Complete
<1>3. Completion(y, flushed) = e
  BY <1>1 DEF Completion
<1>4. e.type = "ended" /\ e.input = x.inputSamples /\ e.output = x.outputSamples
      /\ e.flushed = flushed
  BY DEF Completion
<1>5. e \in OutputEvent
  BY <1>1 DEF Completion, OutputEvent, StreamCompletion
<1> HIDE DEF y, e, z
<1>6. CASE OutputFull(y)
  <2>1. z = Fail(y, "outputFull")
    BY <1>2, <1>6
  <2>2. z.outputSamples = x.outputSamples
    BY <1>1, <2>1, FailedInput
  <2> QED
    BY <1>1, <2>1, <2>2, FailedEvents DEF z
<1>7. CASE ~OutputFull(y)
  <2>1. z = Emit(y, e)
    BY <1>2, <1>3, <1>7
  <2>2. /\ z.outq = Append(x.outq, e) /\ z.ended = TRUE /\ z.cancelled = FALSE
        /\ z.inputSamples = x.inputSamples /\ z.outputSamples = x.outputSamples
    BY <1>1, <2>1 DEF Emit, BoundedSession, Session
  <2> DEFINE n == Len(x.outq)
             w == Append(x.outq, e)
  <2>3. /\ n \in Nat /\ DOMAIN x.outq = 1..n /\ DOMAIN w = 1..(n + 1) /\ Len(w) = n + 1
        /\ w[n + 1] = e /\ \A i \in 1..n : w[i] = x.outq[i]
    BY <1>1, <1>5, AppendElements, AppendProperties
  <2>4. \A i \in 1..n : IsAudio(x.outq[i]) /\ x.outq[i].type # "ended"
    BY <2>3 DEF EventsOK, AllAudio, IsAudio
  <2> HIDE DEF n, w
  <2>5. \A i \in DOMAIN w : i \in 1..n \/ i = n + 1
    BY <2>3
  <2>6. ASSUME NEW i \in DOMAIN w
        PROVE  /\ ~IsAudio(w[i]) => i = Len(w)
               /\ w[i].type = "ended" =>
                    /\ w[i].output = x.outputSamples /\ w[i].input = x.inputSamples
                    /\ IF w[i].flushed THEN w[i].output = w[i].input
                                       ELSE w[i].output <= w[i].input
    <3>1. CASE i \in 1..n
      BY <2>3, <2>4, <3>1
    <3>2. CASE i = n + 1
      BY <1>1, <1>4, <2>3, <3>2
    <3> QED
      BY <2>5, <3>1, <3>2
  <2>7. z.outq = w
    BY <2>2 DEF w
  <2>8. EventsOK(z)
    BY <2>2, <2>6, <2>7 DEF EventsOK
  <2> QED
    BY <2>2, <2>8 DEF z, e
<1> QED
  BY <1>6, <1>7

\* A result appends the pending hop as audio, at the sample the output count
\* says.
LEMMA DeliverOutput ==
    ASSUME NEW x \in BoundedSession, NEW entry \in ActiveEntry, Deliverable(x),
           EventsOK(x), x.pending # None => x.outputSamples = x.pending.start
    PROVE  LET y == Deliver(x, entry)
           IN  /\ EventsOK(y)
               /\ \A first : Plays(x.outq, first, x.outputSamples)
                             => Plays(y.outq, first, y.outputSamples)
<1> DEFINE y == Deliver(x, entry)
           a == Advance(x, entry)
           e == AudioOf(Enhanced(x, entry))
<1>1. /\ y \in BoundedSession /\ y.ended = x.ended /\ y.cancelled = x.cancelled
      /\ y.outputSamples = IF x.pending = None THEN x.outputSamples
                           ELSE x.outputSamples + x.pending.valid
      /\ ~x.ended /\ ~x.cancelled
  BY DeliverInput DEF Deliverable, Unwanted
<1>2. AllAudio(x.outq)
  BY <1>1 DEF EventsOK
<1>3. a.outq = x.outq /\ a \in BoundedSession /\ x.outq \in Seq(OutputEvent)
  BY AdvanceType DEF Advance, BoundedSession, Session
<1>4. CASE x.pending = None
  <2>1. y = a
    BY <1>4 DEF Deliver
  <2> HIDE DEF y, a
  <2>2. EventsOK(y)
    BY <1>1, <1>2, <1>3, <2>1 DEF EventsOK, AllAudio, IsAudio
  <2> QED
    BY <1>1, <1>3, <1>4, <2>1, <2>2 DEF y
<1>5. CASE x.pending # None
  <2>1. y = [Emit(a, e) EXCEPT !.outputSamples = @ + x.pending.valid]
    BY <1>5 DEF Deliver
  <2>2. IsAudio(e) /\ e.start = x.pending.start /\ e.valid = x.pending.valid
    BY DEF AudioOf, Enhanced, IsAudio
  <2>3. e \in OutputEvent
    BY <1>5, DeliverType DEF EnhancedHop, AudioOf, OutputAudio, OutputEvent
  <2> HIDE DEF a, e
  <2>4. y.outq = Append(x.outq, e)
    BY <1>3, <2>1 DEF Emit, BoundedSession, Session
  <2>5. e.start = x.outputSamples /\ EndOf(e) = y.outputSamples
    BY <1>1, <1>5, <2>2 DEF EndOf
  <2> HIDE DEF y
  <2>6. \A first : Plays(x.outq, first, x.outputSamples) => Plays(y.outq, first, y.outputSamples)
    BY <1>2, <1>3, <2>2, <2>3, <2>4, <2>5, PlaysAppend
  <2>7. AllAudio(y.outq)
    <3>1. /\ DOMAIN Append(x.outq, e) = 1..(Len(x.outq) + 1) /\ Len(x.outq) \in Nat
          /\ DOMAIN x.outq = 1..Len(x.outq)
          /\ Append(x.outq, e)[Len(x.outq) + 1] = e
          /\ \A i \in DOMAIN x.outq : Append(x.outq, e)[i] = x.outq[i]
      BY <1>3, <2>3, AppendElements
    <3>2. \A i \in 1..(Len(x.outq) + 1) : i \in DOMAIN x.outq \/ i = Len(x.outq) + 1
      BY <3>1
    <3> QED
      BY <1>2, <2>2, <2>4, <3>1, <3>2 DEF AllAudio
  <2>8. EventsOK(y)
    BY <1>1, <2>7 DEF EventsOK, AllAudio, IsAudio
  <2> QED
    BY <2>6, <2>8 DEF y
<1> QED
  BY <1>4, <1>5
\* The client and the handler of a stream stand where they stood.
ClientStays(t) ==
    /\ handler'[t] = handler[t]
    /\ sending'[t] = sending[t]
    /\ received'[t] = received[t]

LEMMA SameSent ==
    ASSUME NEW t, ClientStays(t)
    PROVE  (SendingAudio(t)' <=> SendingAudio(t)) /\ SentUpTo(t)' = SentUpTo(t)
BY DEF ClientStays, SendingAudio, SentUpTo

LEMMA OutputStays ==
    ASSUME NEW t \in Streams, OutputOK(t), EventsOK(session[t]), ClientStays(t),
           SameOutput(session[t], session'[t])
    PROVE  OutputOK(t)' /\ EventsOK(session'[t])
<1>1. EventsOK(session'[t])
  BY EventsStay
<1>2. /\ session'[t].outq = session[t].outq /\ session'[t].cancelled = session[t].cancelled
      /\ session'[t].outputSamples = session[t].outputSamples
  BY SameOutputFields
<1> QED
  BY <1>1, <1>2, SameSent DEF OutputOK, ClientStays

\* A step that concerns the output of at most one stream.
LEMMA OneOutput ==
    ASSUME OutputInv, session \in [Streams -> BoundedSession],
           NEW s \in Streams, NEW y, session' = [session EXCEPT ![s] = y],
           \A t \in Streams \ {s} : ClientStays(t),
           EventsOK(y), OutputOK(s)'
    PROVE  OutputInv'
<1>1. session'[s] = y
  OBVIOUS
<1>2. ASSUME NEW t \in Streams, t # s PROVE EventsOK(session'[t]) /\ OutputOK(t)'
  <2>1. session'[t] = session[t]
    BY <1>2
  <2>2. SameOutput(session[t], session'[t])
    BY <2>1 DEF SameOutput
  <2> QED
    BY <1>2, <2>2, OutputStays DEF OutputInv
<1> QED
  BY <1>1, <1>2 DEF OutputInv

\* Steps of the scheduler and of readers: the client stays where it is, and the
\* queue continues to play from the same sample.
LEMMA QueueOutput ==
    ASSUME OutputInv, session \in [Streams -> BoundedSession],
           NEW s \in Streams, NEW y, session' = [session EXCEPT ![s] = y],
           \A t \in Streams : ClientStays(t), EventsOK(y),
           \/ y.cancelled = TRUE
           \/ /\ session[s].cancelled = FALSE
              /\ \A first : Plays(session[s].outq, first, session[s].outputSamples)
                            => Plays(y.outq, first, y.outputSamples)
    PROVE  OutputInv'
<1>1. session'[s] = y
  OBVIOUS
<1>2. OutputOK(s)'
  <2>1. CASE y.cancelled = TRUE
    BY <1>1, <2>1 DEF OutputOK
  <2>2. CASE /\ session[s].cancelled = FALSE
             /\ \A first : Plays(session[s].outq, first, session[s].outputSamples)
                           => Plays(y.outq, first, y.outputSamples)
    <3>1. Plays(y.outq, SentUpTo(s), y.outputSamples)
      BY <2>2 DEF OutputInv, OutputOK
    <3>2. SentUpTo(s)' = SentUpTo(s) /\ (SendingAudio(s)' <=> SendingAudio(s))
      BY SameSent
    <3>3. SendingAudio(s) => sending[s].start = received[s]
      BY <2>2 DEF OutputInv, OutputOK
    <3>4. sending'[s] = sending[s] /\ received'[s] = received[s]
      BY DEF ClientStays
    <3> QED
      BY <1>1, <3>1, <3>2, <3>3, <3>4 DEF OutputOK
  <2> QED
    BY <2>1, <2>2
<1> QED
  BY <1>2, OneOutput

LEMMA SameQueueOutput ==
    ASSUME OutputInv, session \in [Streams -> BoundedSession],
           NEW s \in Streams, NEW y, session' = [session EXCEPT ![s] = y],
           \A t \in Streams : ClientStays(t), SameOutput(session[s], y)
    PROVE  OutputInv'
<1>1. session'[s] = y
  OBVIOUS
<1>2. OutputOK(s)' /\ EventsOK(y)
  BY <1>1, OutputStays DEF OutputInv
<1> QED
  BY <1>2, OneOutput

LEMMA IdleOutput ==
    ASSUME OutputInv, UNCHANGED session, \A t \in Streams : ClientStays(t)
    PROVE  OutputInv'
<1> SUFFICES ASSUME NEW t \in Streams PROVE OutputOK(t)' /\ EventsOK(session'[t])
  BY DEF OutputInv
<1>1. SameOutput(session[t], session'[t])
  BY DEF SameOutput
<1> QED
  BY <1>1, OutputStays DEF OutputInv

\* A stream that is completed was not before, and plays on.
LEMMA CompletedPlays ==
    ASSUME NEW x \in BoundedSession, ~x.ended, ~x.cancelled, EventsOK(x),
           NEW flushed \in BOOLEAN, x.outputSamples <= x.inputSamples,
           flushed => x.outputSamples = x.inputSamples
    PROVE  LET y == Complete(x, flushed)
           IN  \/ y.cancelled = TRUE
               \/ \A first : Plays(x.outq, first, x.outputSamples)
                             => Plays(y.outq, first, y.outputSamples)
<1> DEFINE y == Complete(x, flushed)
           e == Completion(x, flushed)
<1>1. y.outputSamples = x.outputSamples
      /\ (y.cancelled = TRUE \/ y.outq = Append(x.outq, e))
  BY CompletedEvents
<1>2. x.outq \in Seq(OutputEvent) /\ x.inputSamples \in Nat /\ x.outputSamples \in Nat
  BY DEF BoundedSession, Session
<1>3. e \in OutputEvent /\ ~IsAudio(e)
  BY <1>2 DEF Completion, OutputEvent, StreamCompletion, IsAudio
<1>4. AllAudio(x.outq)
  BY DEF EventsOK
<1> HIDE DEF y, e
<1>5. \A first : Plays(x.outq, first, x.outputSamples)
                 => Plays(Append(x.outq, e), first, x.outputSamples)
  BY <1>2, <1>3, <1>4, PlaysAppend
<1> QED
  BY <1>1, <1>5 DEF y
LEMMA SchedulerOutput ==
    ASSUME BatchInv, InputInv, OutputInv, SchedulerStep
    PROVE  OutputInv'
<1>1. \A t \in Streams : ClientStays(t)
  BY DEF SchedulerStep, serviceVars, ClientStays
<1>2. session \in [Streams -> BoundedSession]
  BY DEF BatchInv, TypeInv, TypeOK, SessionTypeOK
<1>3. CASE TakeFirst \/ TakeMore \/ InferenceDone \/ InferenceFails \/ DistributeSkip
  BY <1>1, <1>3, IdleOutput
     DEF TakeFirst, TakeMore, InferenceDone, InferenceFails, DistributeSkip
<1>4. CASE DispatchSkip \/ DispatchWork \/ DispatchNoFlush
  <2> SUFFICES ASSUME NEW s, s = NextToDispatch
               PROVE  OutputInv'
    OBVIOUS
  <2> DEFINE x == session[s]
  <2>1. s \in Streams /\ x \in BoundedSession
    BY <1>2, <1>4, DispatchedStream
       DEF BatchInv, DispatchSkip, DispatchWork, DispatchNoFlush
  <2>2. CASE DispatchSkip
    <3> DEFINE y == Unscheduled(x)
    <3>1. session' = [session EXCEPT ![s] = y]
      BY <2>2 DEF DispatchSkip
    <3>2. SameOutput(x, y)
      BY <2>1 DEF Unscheduled, SameOutput, OutputConcerns, BoundedSession, Session
    <3> HIDE DEF y
    <3> QED
      BY <1>1, <1>2, <2>1, <3>1, <3>2, SameQueueOutput
  <2>3. CASE DispatchWork
    <3> DEFINE y == Dequeued(x)
    <3>1. session' = [session EXCEPT ![s] = y]
      BY <2>3 DEF DispatchWork
    <3>2. SameOutput(x, y)
      BY <2>1 DEF Dequeued, Unscheduled, SameOutput, OutputConcerns, BoundedSession, Session
    <3> HIDE DEF y
    <3> QED
      BY <1>1, <1>2, <2>1, <3>1, <3>2, SameQueueOutput
  <2>4. CASE DispatchNoFlush
    <3> DEFINE d == [Dequeued(x) EXCEPT !.pending = None]
               y == Complete(d, FALSE)
    <3>1. /\ session' = [session EXCEPT ![s] = y]
          /\ x.inq # <<>> /\ ~x.cancelled /\ ~x.ended
      BY <2>4 DEF DispatchNoFlush, NothingToDispatch, CompleteWithoutFlush
    <3>2. d \in BoundedSession /\ SameOutput(x, d)
      BY <2>1, <3>1, DequeuedType
         DEF BoundedSession, Session, Dequeued, Unscheduled, SameOutput, OutputConcerns
    <3> HIDE DEF d
    <3>3. EventsOK(d)
      BY <2>1, <3>2, EventsStay DEF OutputInv
    <3>4. /\ ~d.ended /\ ~d.cancelled /\ d.outq = x.outq
          /\ d.outputSamples = x.outputSamples /\ d.outputSamples <= d.inputSamples
      BY <2>1, <3>1, <3>2, SameOutputFields DEF InputInv, InputOK
    <3>5. EventsOK(y)
      BY <3>2, <3>3, <3>4, CompletedEvents
    <3>6. \/ y.cancelled = TRUE
          \/ \A first : Plays(d.outq, first, d.outputSamples)
                        => Plays(y.outq, first, y.outputSamples)
      BY <3>2, <3>3, <3>4, CompletedPlays
    <3>7. x.cancelled = FALSE
      BY <2>1, <3>1 DEF BoundedSession, Session
    <3> HIDE DEF y
    <3> QED
      BY <1>1, <1>2, <2>1, <3>1, <3>4, <3>5, <3>6, <3>7, QueueOutput
  <2> QED
    BY <1>4, <2>2, <2>3, <2>4
<1>5. CASE FailEntry \/ DistributeOverflow \/ DistributeFlush \/ DistributeHop \/ DistributeDies
  <2> SUFFICES ASSUME NEW s, s = Returned.stream
               PROVE  OutputInv'
    OBVIOUS
  <2> DEFINE x == session[s]
  <2>1. sched \in {"distribute", "failing"}
    BY <1>5 DEF FailEntry, DistributeOverflow, DistributeFlush, DistributeHop, DistributeDies
  <2>2. s \in Streams /\ x \in BoundedSession /\ Returned \in ActiveEntry
    BY <1>2, <2>1, ReturnedType DEF BatchInv
  <2>3. CASE FailEntry
    <3>1. session' = [session EXCEPT ![s] = Fail(x, "inference")]
      BY <2>3 DEF FailEntry, Returned
    <3>2. /\ EventsOK(Fail(x, "inference"))
          /\ Fail(x, "inference").cancelled = TRUE
      BY <2>2, FailedEvents
    <3> QED
      BY <1>1, <1>2, <2>2, <3>1, <3>2, QueueOutput
  <2>4. CASE DistributeOverflow
    <3> DEFINE a == Advance(x, Returned)
    <3>1. session' = [session EXCEPT ![s] = Fail(a, "outputFull")]
      BY <2>4 DEF DistributeOverflow
    <3>2. a \in BoundedSession
      BY <2>2, AdvanceType
    <3>3. /\ EventsOK(Fail(a, "outputFull"))
          /\ Fail(a, "outputFull").cancelled = TRUE
      BY <3>2, FailedEvents
    <3> QED
      BY <1>1, <1>2, <2>2, <3>1, <3>3, QueueOutput
  <2>5. CASE DistributeFlush \/ DistributeHop \/ DistributeDies
    <3> DEFINE y == Deliver(x, Returned)
    <3>1. /\ Deliverable(x) /\ sched = "distribute" /\ ~x.cancelled /\ ~x.ended
      BY <2>5
         DEF DistributeFlush, DistributeHop, DistributeDies, Deliverable, Unwanted
    <3>2. Chained(x, Works(s), WorkInFlight(s))
      <4>1. Live(s)
        BY <3>1 DEF Live, Running
      <4> QED
        BY <2>2, <4>1 DEF InputInv, InputOK
    <3>3. /\ EventsOK(y)
          /\ \A first : Plays(x.outq, first, x.outputSamples)
                        => Plays(y.outq, first, y.outputSamples)
      BY <2>2, <3>1, <3>2, DeliverOutput DEF OutputInv, Chained
    <3>4. /\ y \in BoundedSession /\ y.ended = x.ended /\ y.cancelled = x.cancelled
          /\ y.outputSamples = IF x.pending = None THEN x.outputSamples
                               ELSE x.outputSamples + x.pending.valid
          /\ y.inputSamples = x.inputSamples
      BY <2>2, <3>1, DeliverInput DEF SameCounts
    <3>5. x.cancelled = FALSE
      BY <2>2, <3>1 DEF BoundedSession, Session
    <3> HIDE DEF y
    <3>6. CASE DistributeFlush
      <4> DEFINE z == Complete(y, TRUE)
      <4>1. session' = [session EXCEPT ![s] = z] /\ Returned.work = FlushWork
        BY <3>6 DEF DistributeFlush, y
      <4>2. FlushWork \in WorkInFlight(s)
        <5>1. active \in Seq(ActiveEntry) /\ active # <<>>
          BY <2>1 DEF BatchInv, TypeInv, TypeOK, SchedulerTypeOK, LoopShape
        <5>2. 1 \in DOMAIN active /\ active[1] = Returned
          BY <5>1, TailElements DEF Returned
        <5> QED
          BY <4>1, <5>2 DEF WorkInFlight
      <4>3. y.outputSamples = y.inputSamples
        <5>1. Chained(x, Works(s), {FlushWork})
          BY <3>2, <4>2 DEF Chained, FlushWork
        <5> QED
          BY <2>2, <3>4, <5>1, ChainFlush
      <4>4. y.outputSamples <= y.inputSamples
        BY <3>4, <4>3 DEF BoundedSession, Session
      <4>5. EventsOK(z)
        BY <3>1, <3>3, <3>4, <4>3, <4>4, CompletedEvents
      <4>6. \/ z.cancelled = TRUE
            \/ \A first : Plays(y.outq, first, y.outputSamples)
                          => Plays(z.outq, first, z.outputSamples)
        BY <3>1, <3>3, <3>4, <4>3, <4>4, CompletedPlays
      <4> HIDE DEF z
      <4> QED
        BY <1>1, <1>2, <2>2, <3>3, <3>5, <4>1, <4>5, <4>6, QueueOutput
    <3>7. CASE DistributeHop \/ DistributeDies
      <4> DEFINE z == Notified(y)
      <4>1. session' = [session EXCEPT ![s] = z]
        BY <3>7 DEF DistributeHop, DistributeDies, y
      <4>2. SameOutput(y, z)
        BY <3>4 DEF Notified, SameOutput, OutputConcerns, BoundedSession, Session
      <4> HIDE DEF z
      <4>3. EventsOK(z) /\ z.outq = y.outq /\ z.outputSamples = y.outputSamples
        BY <3>3, <4>2, EventsStay, SameOutputFields
      <4> QED
        BY <1>1, <1>2, <2>2, <3>3, <3>5, <4>1, <4>3, QueueOutput
    <3> QED
      BY <2>5, <3>6, <3>7
  <2> QED
    BY <1>5, <2>3, <2>4, <2>5
<1> QED
  BY <1>3, <1>4, <1>5 DEF SchedulerStep, RunStep
LEMMA FinalizeOutput ==
    ASSUME BatchInv, OutputInv, NEW s \in Streams, Finalize(s), UNCHANGED received
    PROVE  OutputInv'
<1> DEFINE y == [session[s] EXCEPT !.cancelled = TRUE, !.inq = <<>>, !.outq = <<>>]
<1>1. /\ session \in [Streams -> BoundedSession] /\ session[s] \in BoundedSession
      /\ handler \in [Streams -> HandlerStates]
      /\ sending \in [Streams -> OutputEvent \cup {Accepted, None}]
  BY DEF BatchInv, TypeInv, TypeOK, SessionTypeOK, ServiceTypeOK
<1>2. session' = [session EXCEPT ![s] = y]
  BY <1>1 DEF Finalize
<1>3. y.cancelled = TRUE /\ y.outq = <<>>
  BY <1>1 DEF BoundedSession, Session
<1> HIDE DEF y
<1>4. EventsOK(y)
  BY <1>3 DEF EventsOK
<1>5. \A t \in Streams \ {s} : ClientStays(t)
  BY <1>1 DEF Finalize, ClientStays
<1>6. OutputOK(s)'
  BY <1>1, <1>2, <1>3 DEF OutputOK
<1> QED
  BY <1>1, <1>2, <1>4, <1>5, <1>6, OneOutput

\* The handler takes the next audio, or the last event.
LEMMA TakeEventOutput ==
    ASSUME BatchInv, OutputInv, NEW s \in Streams, TakeEvent(s)
    PROVE  OutputInv'
<1> DEFINE x == session[s]
           e == Head(x.outq)
           y == [x EXCEPT !.outq = Tail(@)]
<1>1. /\ session \in [Streams -> BoundedSession] /\ x \in BoundedSession
      /\ handler \in [Streams -> HandlerStates]
      /\ sending \in [Streams -> OutputEvent \cup {Accepted, None}]
  BY DEF BatchInv, TypeInv, TypeOK, SessionTypeOK, ServiceTypeOK
<1>2. /\ session' = [session EXCEPT ![s] = y] /\ UNCHANGED received
      /\ sending' = [sending EXCEPT ![s] = e]
      /\ handler' = [handler EXCEPT ![s] = IF e.type = "failure" THEN "aborting" ELSE "sending"]
      /\ handler[s] = "waiting" /\ x.outq # <<>>
  BY <1>1 DEF TakeEvent
<1>3. /\ y.outq = Tail(x.outq) /\ y.ended = x.ended /\ y.cancelled = x.cancelled
      /\ y.inputSamples = x.inputSamples /\ y.outputSamples = x.outputSamples
      /\ x.outq \in Seq(OutputEvent)
  BY <1>1 DEF BoundedSession, Session
<1>4. /\ session'[s] = y /\ sending'[s] = e /\ received'[s] = received[s]
      /\ handler'[s] = IF e.type = "failure" THEN "aborting" ELSE "sending"
      /\ \A t \in Streams \ {s} : ClientStays(t)
  BY <1>1, <1>2 DEF ClientStays
<1>5. EventsOK(x) /\ OutputOK(s)
  BY DEF OutputInv
<1> HIDE DEF x, y, e
<1>6. EventsOK(y)
  <2>1. /\ Len(x.outq) \in Nat \ {0} /\ DOMAIN x.outq = 1..Len(x.outq)
        /\ DOMAIN y.outq = 1..(Len(x.outq) - 1) /\ Len(y.outq) = Len(x.outq) - 1
        /\ \A i \in DOMAIN y.outq : y.outq[i] = x.outq[i + 1] /\ i + 1 \in DOMAIN x.outq
    BY <1>2, <1>3, TailElements
  <2>2. ASSUME NEW i \in DOMAIN y.outq, i + 1 = Len(x.outq) PROVE i = Len(y.outq)
    BY <2>1, <2>2
  <2> QED
    BY <1>3, <1>5, <2>1, <2>2 DEF EventsOK, AllAudio
<1>7. OutputOK(s)'
  <2> SUFFICES ASSUME ~x.cancelled
               PROVE  /\ SendingAudio(s)' => sending'[s].start = received'[s]
                      /\ Plays(y.outq, SentUpTo(s)', y.outputSamples)
    BY <1>3, <1>4 DEF OutputOK
  <2>1. SentUpTo(s) = received[s]
    BY <1>2 DEF SentUpTo, SendingAudio
  <2>2. Plays(x.outq, received[s], x.outputSamples)
    BY <1>5, <2>1 DEF OutputOK, x
  <2>3. /\ IsAudio(e) => e.start = received[s] /\ Plays(y.outq, EndOf(e), x.outputSamples)
        /\ ~IsAudio(e) => Plays(y.outq, received[s], x.outputSamples)
    BY <1>2, <1>3, <2>2, PlaysTail DEF e
  <2>4. CASE IsAudio(e)
    <3>1. SendingAudio(s)' /\ SentUpTo(s)' = EndOf(e)
      BY <1>4, <2>4 DEF SendingAudio, SentUpTo, IsAudio
    <3> QED
      BY <1>3, <1>4, <2>3, <2>4, <3>1
  <2>5. CASE ~IsAudio(e)
    <3>1. ~SendingAudio(s)' /\ SentUpTo(s)' = received[s]
      BY <1>4, <2>5 DEF SendingAudio, SentUpTo, IsAudio
    <3> QED
      BY <1>3, <2>3, <2>5, <3>1
  <2> QED
    BY <2>4, <2>5
<1> QED
  BY <1>1, <1>2, <1>4, <1>6, <1>7, OneOutput

LEMMA HandlerOutput ==
    ASSUME BatchInv, OutputInv, NEW s \in Streams, Handler(s)
    PROVE  OutputInv'
<1>1. /\ session \in [Streams -> BoundedSession] /\ session[s] \in BoundedSession
      /\ handler \in [Streams -> HandlerStates]
      /\ sending \in [Streams -> OutputEvent \cup {Accepted, None}]
      /\ received \in [Streams -> Nat]
  BY DEF BatchInv, TypeInv, TypeOK, SessionTypeOK, ServiceTypeOK
<1>2. CASE EndedSent(s) \/ AbortSent(s) \/ CancelRPC(s)
  BY <1>2, FinalizeOutput DEF EndedSent, AbortSent, CancelRPC
<1>3. CASE TakeEvent(s)
  BY <1>3, TakeEventOutput
<1>4. CASE \/ \E id \in StreamIds : Start(s, id) \/ RefuseStart(s, id)
           \/ RejectFirst(s) \/ MessageSent(s)
  <2>1. /\ UNCHANGED session
        /\ \A t \in Streams \ {s} : ClientStays(t)
    BY <1>1, <1>4
       DEF Start, RefuseStart, RejectFirst, MessageSent, schedVars, ClientStays
  <2>2. /\ ~SendingAudio(s)' /\ SentUpTo(s)' = received'[s]
    <3>1. CASE MessageSent(s)
      BY <1>1, <3>1 DEF MessageSent, SendingAudio, SentUpTo
    <3>2. CASE (\E id \in StreamIds : RefuseStart(s, id)) \/ RejectFirst(s)
      BY <1>1, <3>2 DEF RefuseStart, RejectFirst, SendingAudio, SentUpTo
    <3>3. CASE \E id \in StreamIds : Start(s, id)
      BY <1>1, <3>3 DEF Start, SendingAudio, SentUpTo, Accepted, IsAudio
    <3> QED
      BY <1>4, <3>1, <3>2, <3>3
  <2>3. ASSUME ~session[s].cancelled PROVE received'[s] = SentUpTo(s)
    <3>1. CASE MessageSent(s)
      <4>1. received'[s] = received[s] + SampleCount(sending[s]) /\ handler[s] = "sending"
        BY <1>1, <3>1 DEF MessageSent
      <4>2. CASE IsAudio(sending[s])
        <5>1. SendingAudio(s) /\ SentUpTo(s) = EndOf(sending[s])
          BY <4>1, <4>2 DEF SendingAudio, SentUpTo
        <5>2. sending[s].start = received[s]
          BY <2>3, <5>1 DEF OutputInv, OutputOK
        <5> QED
          BY <4>1, <4>2, <5>1, <5>2 DEF EndOf, SampleCount, IsAudio
      <4>3. CASE ~IsAudio(sending[s])
        BY <1>1, <4>1, <4>3 DEF SendingAudio, SentUpTo, SampleCount, IsAudio
      <4> QED
        BY <4>2, <4>3
    <3>2. CASE \/ \E id \in StreamIds : Start(s, id) \/ RefuseStart(s, id)
               \/ RejectFirst(s)
      BY <3>2 DEF Start, RefuseStart, RejectFirst, SendingAudio, SentUpTo
    <3> QED
      BY <1>4, <3>1, <3>2
  <2>4. OutputOK(s)'
    BY <2>1, <2>2, <2>3 DEF OutputInv, OutputOK
  <2>5. EventsOK(session[s]) /\ session' = [session EXCEPT ![s] = session[s]]
    BY <1>1, <2>1 DEF OutputInv
  <2> QED
    BY <1>1, <2>1, <2>4, <2>5, OneOutput
<1> QED
  BY <1>2, <1>3, <1>4 DEF Handler

\* A reader enqueues: the output queue is not touched, and input is only counted
\* as long as no completion reported it.
LEMMA PutOutput ==
    ASSUME BatchInv, OutputInv, NEW s \in Streams, ReaderUnchanged,
           NEW x \in BoundedSession, NEW works \in Seq(ModelWork),
           Put(s, x, works) \/ PutRaises(s, x, works),
           EventsOK(x), x.outq = session[s].outq, x.cancelled = session[s].cancelled,
           x.outputSamples = session[s].outputSamples
    PROVE  OutputInv'
<1> DEFINE k == Fitting(x, works)
           y == Enqueued(x, works, k)
           z == IF k = 0 THEN y ELSE Notified(y)
<1>1. session \in [Streams -> BoundedSession] /\ session[s] \in BoundedSession
  BY DEF BatchInv, TypeInv, TypeOK, SessionTypeOK
<1>2. \A t \in Streams : ClientStays(t)
  BY DEF ReaderUnchanged, ClientStays
<1>3. k \in Nat /\ k <= Room(x) /\ k <= Len(works)
  BY FittingBounds
<1>4. CASE Put(s, x, works)
  <2>1. session' = [session EXCEPT ![s] = z]
    BY <1>4 DEF Put
  <2>2. y \in BoundedSession /\ SameOutput(x, y)
    BY <1>3, EnqueuedType DEF Enqueued, SameOutput, OutputConcerns, BoundedSession, Session
  <2> HIDE DEF y, k
  <2>3. SameOutput(y, z)
    BY <2>2 DEF Notified, SameOutput, OutputConcerns, BoundedSession, Session
  <2>4. SameOutput(x, z)
    BY <2>2, <2>3 DEF SameOutput
  <2> HIDE DEF z
  <2>5. /\ EventsOK(z) /\ z.outq = session[s].outq
        /\ z.outputSamples = session[s].outputSamples /\ z.cancelled = session[s].cancelled
    BY <2>4, EventsStay, SameOutputFields
  <2>6. z.cancelled = TRUE \/ session[s].cancelled = FALSE
    BY <1>1, <2>5 DEF BoundedSession, Session
  <2> QED
    BY <1>1, <1>2, <2>1, <2>5, <2>6, QueueOutput
<1>5. CASE PutRaises(s, x, works)
  <2> DEFINE w == Enqueued(x, works, 1)
             v == Notified(w)
  <2>1. w \in BoundedSession
    <3>1. Room(x) \in Int /\ Len(works) \in Nat /\ k > 0
      BY <1>5, SessionAssumption DEF PutRaises, Room, BoundedSession, Session
    <3>2. 1 \in Nat /\ 1 <= Room(x) /\ 1 <= Len(works)
      BY <1>3, <3>1
    <3> QED
      BY <3>2, EnqueuedType
  <2> HIDE DEF w
  <2>2. v \in BoundedSession
    BY <2>1, NotifiedType
  <2>3. session' = [session EXCEPT ![s] = Fail(v, "internal")]
    BY <1>5 DEF PutRaises, ReaderFails, w
  <2> HIDE DEF v
  <2>4. EventsOK(Fail(v, "internal")) /\ Fail(v, "internal").cancelled = TRUE
    BY <2>2, FailedEvents
  <2> QED
    BY <1>1, <1>2, <2>3, <2>4, QueueOutput
<1> QED
  BY <1>4, <1>5

LEMMA ReaderFailsOutput ==
    ASSUME BatchInv, OutputInv, NEW s \in Streams, ReaderUnchanged,
           NEW x \in BoundedSession, NEW reason, ReaderFails(s, x, reason)
    PROVE  OutputInv'
<1>1. session \in [Streams -> BoundedSession]
  BY DEF BatchInv, TypeInv, TypeOK, SessionTypeOK
<1>2. \A t \in Streams : ClientStays(t)
  BY DEF ReaderUnchanged, ClientStays
<1>3. session' = [session EXCEPT ![s] = Fail(x, reason)]
  BY DEF ReaderFails
<1>4. EventsOK(Fail(x, reason)) /\ Fail(x, reason).cancelled = TRUE
  BY FailedEvents
<1> QED
  BY <1>1, <1>2, <1>3, <1>4, QueueOutput

LEMMA ReaderOutput ==
    ASSUME BatchInv, InputInv, OutputInv, NEW s \in Streams, Reader(s)
    PROVE  OutputInv'
<1> DEFINE x == session[s]
<1>1. InputOK(s) /\ EventsOK(x)
  BY DEF InputInv, OutputInv
<1>2. /\ session \in [Streams -> BoundedSession] /\ x \in BoundedSession
      /\ toPut \in [Streams -> Seq(ModelWork)]
  BY DEF BatchInv, TypeInv, TypeOK, ServiceTypeOK, SessionTypeOK
<1>3. x.outq \in Seq(OutputEvent) /\ x.inputSamples \in Nat /\ x.outputSamples \in Nat
  BY <1>2 DEF BoundedSession, Session
<1> HIDE DEF x
\* A stream that may still send input has no completion in its queue.
<1>4. ASSUME ~x.ended, NEW y, y.outq = x.outq, y.ended = x.ended,
             y.cancelled = x.cancelled, y.outputSamples = x.outputSamples
      PROVE  EventsOK(y)
  BY <1>1, <1>4 DEF EventsOK
<1>5. ASSUME NEW n \in 1..MaxAudioChunkSamples, AcceptAudio(s, n)
      PROVE  OutputInv'
  <2> DEFINE y == Accept(x, n)
             works == FullHops(x, n)
  <2>1. /\ reader[s] = "reading" /\ ~sawEnd[s] /\ ReaderUnchanged
        /\ Put(s, y, works) \/ PutRaises(s, y, works)
    BY <1>5 DEF AcceptAudio, x
  <2>2. n \in Nat
    BY ServiceAssumption
  <2>3. y \in BoundedSession /\ works \in Seq(ModelWork)
    BY <1>2, <2>2, RechunkType
  <2>4. /\ y.outq = x.outq /\ y.ended = x.ended /\ y.cancelled = x.cancelled
        /\ y.outputSamples = x.outputSamples
    BY <1>2, <2>2, HopsContinue
  <2> HIDE DEF y, works
  <2>5. ~x.ended
    BY <1>1, <2>1, ReadingInput DEF x
  <2>6. EventsOK(y)
    BY <1>4, <2>4, <2>5
  <2> QED
    BY <2>1, <2>3, <2>4, <2>6, PutOutput DEF x
<1>6. ASSUME NEW n \in 1..MaxAudioChunkSamples, ChunkRefused(s, n)
      PROVE  OutputInv'
  <2> DEFINE y == [x EXCEPT !.inputSamples = @ + n]
  <2>1. x.inputSamples + n \in Nat
    BY <1>3, ServiceAssumption
  <2>2. y \in BoundedSession
    BY <1>2, <2>1, FieldType DEF BoundedSession, Session
  <2>3. ReaderFails(s, y, "inputFull") /\ ReaderUnchanged
    BY <1>6 DEF ChunkRefused, x
  <2> QED
    BY <2>2, <2>3, ReaderFailsOutput
<1>7. CASE ProtocolViolation(s) \/ IdleTimeout(s)
  <2>1. ReaderFails(s, x, "protocol") /\ ReaderUnchanged
    BY <1>7 DEF ProtocolViolation, IdleTimeout, x
  <2> QED
    BY <1>2, <2>1, ReaderFailsOutput
<1>8. CASE EndWithoutFlush(s)
  <2> DEFINE works == <<NoFlushWork>>
  <2>1. ReaderUnchanged /\ (Put(s, x, works) \/ PutRaises(s, x, works))
    BY <1>8 DEF EndWithoutFlush, x
  <2>2. works \in Seq(ModelWork)
    BY EndMarkerContinues
  <2> HIDE DEF works
  <2> QED
    BY <1>1, <1>2, <2>1, <2>2, PutOutput DEF x
<1>9. CASE EndWithFlush(s)
  <2> DEFINE works == TerminalWorks(x)
             y == FlushPartial(x)
  <2>1. /\ reader[s] = "reading" /\ ~sawEnd[s] /\ ReaderUnchanged
        /\ Put(s, y, works) \/ PutRaises(s, y, works)
    BY <1>9 DEF EndWithFlush, x
  <2>2. y \in BoundedSession /\ works \in Seq(ModelWork)
    BY <1>2, FlushType
  <2>3. /\ y.outq = x.outq /\ y.ended = x.ended /\ y.cancelled = x.cancelled
        /\ y.outputSamples = x.outputSamples
    BY <1>2, TerminalContinues
  <2> HIDE DEF y, works
  <2>4. ~x.ended
    BY <1>1, <2>1, ReadingInput DEF x
  <2>5. EventsOK(y)
    BY <1>4, <2>3, <2>4
  <2> QED
    BY <2>1, <2>2, <2>3, <2>5, PutOutput DEF x
<1>10. CASE EndEmptyStream(s)
  <2> DEFINE y == Complete(x, TRUE)
  <2>1. /\ session' = [session EXCEPT ![s] = y] /\ ReaderUnchanged
        /\ reader[s] = "reading" /\ ~sawEnd[s] /\ x.inputSamples = 0
    BY <1>10 DEF EndEmptyStream, x
  <2>2. ~InputOver(s) /\ Open(s)
    BY <2>1 DEF InputOver, Open
  <2>3. ~x.ended /\ ~x.cancelled /\ x.outputSamples <= x.inputSamples
    BY <1>1, <2>1, <2>2 DEF InputOK, x
  <2>4. x.outputSamples = x.inputSamples
    BY <1>3, <2>1, <2>3
  <2>5. EventsOK(y)
    BY <1>1, <1>2, <2>3, <2>4, CompletedEvents
  <2>6. \/ y.cancelled = TRUE
        \/ \A first : Plays(x.outq, first, x.outputSamples)
                      => Plays(y.outq, first, y.outputSamples)
    BY <1>1, <1>2, <2>3, <2>4, CompletedPlays
  <2>7. x.cancelled = FALSE
    BY <1>2, <2>3 DEF BoundedSession, Session
  <2>8. \A t \in Streams : ClientStays(t)
    BY <2>1 DEF ReaderUnchanged, ClientStays
  <2> HIDE DEF y
  <2> QED
    BY <1>2, <2>1, <2>5, <2>6, <2>7, <2>8, QueueOutput DEF x
<1>11. CASE ResumePut(s)
  <2>1. ReaderUnchanged /\ (Put(s, x, toPut[s]) \/ PutRaises(s, x, toPut[s]))
    BY <1>11 DEF ResumePut, x
  <2>2. toPut[s] \in Seq(ModelWork)
    BY <1>2
  <2> QED
    BY <1>1, <1>2, <2>1, <2>2, PutOutput DEF x
<1>12. CASE HalfClose(s)
  <2>1. UNCHANGED session /\ \A t \in Streams : ClientStays(t)
    BY <1>12 DEF HalfClose, schedVars, ClientStays
  <2> QED
    BY <2>1, IdleOutput
<1> QED
  BY <1>5, <1>6, <1>7, <1>8, <1>9, <1>10, <1>11, <1>12 DEF Reader

-----------------------------------------------------------------------------

LEMMA InitOutput == Init => OutputInv
<1> SUFFICES ASSUME Init, NEW s \in Streams PROVE EventsOK(session[s]) /\ OutputOK(s)
  BY DEF OutputInv
<1>1. session[s] = FreshSession /\ handler[s] = "new" /\ received[s] = 0
  BY DEF Init, SchedulerInit
<1>2. /\ session[s].outq = <<>> /\ session[s].outputSamples = 0
  BY <1>1 DEF FreshSession
<1>3. ~SendingAudio(s) /\ SentUpTo(s) = 0
  BY <1>1 DEF SendingAudio, SentUpTo
<1>4. Audible(<<>>) = 0
  BY DEF Audible
<1>5. Plays(<<>>, 0, 0)
  BY <1>4 DEF Plays, Tile
<1> QED
  BY <1>2, <1>3, <1>5 DEF EventsOK, OutputOK, AllAudio

LEMMA NextOutput ==
    ASSUME BatchInv, InputInv, OutputInv, [Next]_vars
    PROVE  OutputInv'
<1>1. CASE SchedulerStep
  BY <1>1, SchedulerOutput
<1>2. ASSUME NEW s \in Streams, Handler(s) PROVE OutputInv'
  BY <1>2, HandlerOutput
<1>3. ASSUME NEW s \in Streams, Reader(s) PROVE OutputInv'
  BY <1>3, ReaderOutput
<1>4. CASE StopServer \/ Shutdown \/ UNCHANGED vars
  <2>1. UNCHANGED session /\ \A t \in Streams : ClientStays(t)
    BY <1>4 DEF StopServer, Shutdown, CloseScheduler, vars, schedVars, serviceVars,
                ClientStays
  <2> QED
    BY <2>1, IdleOutput
<1> QED
  BY <1>1, <1>2, <1>3, <1>4 DEF Next

-----------------------------------------------------------------------------
(* The invariant of the whole service, and what follows from it.              *)

ServiceInv == BatchInv /\ RegistryInv /\ InputInv /\ OutputInv

LEMMA ServiceInvariant ==
    /\ Init => ServiceInv
    /\ ServiceInv /\ [Next]_vars => ServiceInv'
<1>1. Init => RegistryInv
  BY NoneAssumption DEF Init, RegistryInv, RegistryExact, NewHasNoReader
<1>2. ASSUME ServiceInv, [Next]_vars PROVE ServiceInv'
  <2>1. RegistryInv'
    BY <1>2, NextRegistry DEF ServiceInv, BatchInv
  <2> QED
    BY <1>2, <2>1, NextIntegrity, NextInput, NextOutput DEF ServiceInv
<1> QED
  BY <1>1, <1>2, InitIntegrity, InitInput, InitOutput DEF ServiceInv

\* From the first sample the client sent to the last one it has received nothing
\* is missing, repeated or out of order: not in the rechunker, a blocked put, the
\* input queue, a batch, the pending hop, the output queue or a message that is
\* being sent (service.py, scheduler.py, audio.py).
THEOREM NothingIsMissing == Spec => []SampleChain
<1>1. ServiceInv => OutputContiguous
  BY DEF ServiceInv, OutputInv, OutputOK, Plays, OutputContiguous
<1>2. ASSUME ServiceInv, NEW s \in Streams, Live(s)
      PROVE  InputChain(session[s], toPut[s], WorkInFlight(s))
  <2>1. session[s] \in BoundedSession /\ toPut[s] \in Seq(ModelWork)
    BY <1>2 DEF ServiceInv, BatchInv, TypeInv, TypeOK, SessionTypeOK, ServiceTypeOK
  <2>2. Chained(session[s], session[s].inq \o toPut[s], WorkInFlight(s))
    BY <1>2 DEF ServiceInv, InputInv, InputOK, Works
  <2> QED
    BY <2>1, <2>2, ChainedIsInputChain
<1>3. ServiceInv => SampleChain
  BY <1>1, <1>2 DEF InputConserved, SampleChain
<1> QED
  BY <1>3, ServiceInvariant, PTL DEF Spec

\* Nothing follows StreamEnded or a failure in an output queue, and the totals
\* StreamEnded reports are what the client has then received; after a flush,
\* everything it sent (scheduler.py: _complete).
THEOREM TotalsAreExact == Spec => []CompletionAccounts
<1>1. ServiceInv => CompletionAccounts
  BY DEF ServiceInv, OutputInv, EventsOK, CompletionAccounts
<1> QED
  BY <1>1, ServiceInvariant, PTL DEF Spec

-----------------------------------------------------------------------------
(* A cancelled stream: nothing but a failure enters its queue any more.       *)

\* y queues nothing that x did not, except a failure.
OnlyFailures(x, y) ==
    \A i \in DOMAIN y.outq :
        y.outq[i].type = "failure" \/ y.outq[i] \in Elements(x.outq)

LEMMA OnlyFailuresEnter ==
    ASSUME NEW x \in BoundedSession, NEW y,
           \/ y.outq = x.outq
           \/ y.outq = <<>>
           \/ x.outq # <<>> /\ y.outq = Tail(x.outq)
           \/ \E reason : y.outq = <<Failure(reason)>>
    PROVE  OnlyFailures(x, y)
<1>1. x.outq \in Seq(OutputEvent)
  BY DEF BoundedSession, Session
<1>2. CASE y.outq = x.outq \/ y.outq = <<>>
  BY <1>2 DEF OnlyFailures, Elements
<1>3. CASE x.outq # <<>> /\ y.outq = Tail(x.outq)
  <2>1. \A i \in DOMAIN y.outq : i + 1 \in DOMAIN x.outq /\ y.outq[i] = x.outq[i + 1]
    BY <1>1, <1>3, TailElements
  <2> QED
    BY <2>1 DEF OnlyFailures, Elements
<1>4. ASSUME NEW reason, y.outq = <<Failure(reason)>> PROVE OnlyFailures(x, y)
  BY <1>4 DEF OnlyFailures, Failure
<1> QED
  BY <1>2, <1>3, <1>4

\* What one step does to the streams that are cancelled already.
FinalStep ==
    \A s \in Streams :
        session[s].cancelled =>
            /\ produced'[s] = produced[s]
            /\ OnlyFailures(session[s], session'[s])

LEMMA OneFinal ==
    ASSUME session \in [Streams -> BoundedSession], NEW s \in Streams, NEW y,
           session' = [session EXCEPT ![s] = y],
           \A t \in Streams \ {s} : produced'[t] = produced[t],
           session[s].cancelled => /\ produced'[s] = produced[s]
                                   /\ OnlyFailures(session[s], y)
    PROVE  FinalStep
<1>1. \A t \in Streams \ {s} : OnlyFailures(session[t], session'[t])
  BY OnlyFailuresEnter
<1>2. session'[s] = y
  OBVIOUS
<1> QED
  BY <1>1, <1>2 DEF FinalStep

LEMMA IdleFinal ==
    ASSUME session \in [Streams -> BoundedSession], UNCHANGED <<session, produced>>
    PROVE  FinalStep
BY OnlyFailuresEnter DEF FinalStep

\* The operations that do not touch the output queue, and those that empty it.
LEMMA QueueKept ==
    ASSUME NEW x \in BoundedSession
    PROVE  /\ Unscheduled(x).outq = x.outq /\ Dequeued(x).outq = x.outq
           /\ Notified(x).outq = x.outq
           /\ FlushPartial(x).outq = x.outq
           /\ \A works, k : Enqueued(x, works, k).outq = x.outq
           /\ \A reason : Fail(x, reason).outq = <<Failure(reason)>>
BY DEF Unscheduled, Dequeued, Notified, FlushPartial, Enqueued, Fail, BoundedSession, Session

LEMMA SchedulerFinal ==
    ASSUME BatchInv, SchedulerStep
    PROVE  FinalStep
<1>1. /\ session \in [Streams -> BoundedSession]
      /\ produced \in [Streams -> Seq(EnhancedHop)]
  BY DEF BatchInv, TypeInv, TypeOK, SessionTypeOK, SchedulerTypeOK
<1>2. CASE TakeFirst \/ TakeMore \/ InferenceDone \/ InferenceFails \/ DistributeSkip
  BY <1>1, <1>2, IdleFinal
     DEF TakeFirst, TakeMore, InferenceDone, InferenceFails, DistributeSkip
<1>3. CASE DispatchSkip \/ DispatchWork \/ DispatchNoFlush
  <2> SUFFICES ASSUME NEW s, s = NextToDispatch
               PROVE  FinalStep
    OBVIOUS
  <2>1. s \in Streams /\ session[s] \in BoundedSession
    BY <1>1, <1>3, DispatchedStream
       DEF BatchInv, DispatchSkip, DispatchWork, DispatchNoFlush
  <2>2. UNCHANGED produced
    BY <1>3 DEF DispatchSkip, DispatchWork, DispatchNoFlush, AfterDispatch
  <2>3. CASE DispatchSkip
    <3> DEFINE y == Unscheduled(session[s])
    <3>1. session' = [session EXCEPT ![s] = y]
      BY <2>3 DEF DispatchSkip
    <3>2. OnlyFailures(session[s], y)
      BY <2>1, QueueKept, OnlyFailuresEnter
    <3> HIDE DEF y
    <3> QED
      BY <1>1, <2>1, <2>2, <3>1, <3>2, OneFinal
  <2>4. CASE DispatchWork
    <3> DEFINE y == Dequeued(session[s])
    <3>1. session' = [session EXCEPT ![s] = y]
      BY <2>4 DEF DispatchWork
    <3>2. OnlyFailures(session[s], y)
      BY <2>1, QueueKept, OnlyFailuresEnter
    <3> HIDE DEF y
    <3> QED
      BY <1>1, <2>1, <2>2, <3>1, <3>2, OneFinal
  <2>5. CASE DispatchNoFlush
    <3> DEFINE y == CompleteWithoutFlush(Dequeued(session[s]))
    <3>1. session' = [session EXCEPT ![s] = y] /\ ~session[s].cancelled
      BY <2>5 DEF DispatchNoFlush, NothingToDispatch
    <3> HIDE DEF y
    <3> QED
      BY <1>1, <2>1, <2>2, <3>1, OneFinal
  <2> QED
    BY <1>3, <2>3, <2>4, <2>5
<1>4. CASE FailEntry \/ DistributeOverflow \/ DistributeFlush \/ DistributeHop \/ DistributeDies
  <2> SUFFICES ASSUME NEW s, s = Returned.stream
               PROVE  FinalStep
    OBVIOUS
  <2>1. s \in Streams /\ session[s] \in BoundedSession
    BY <1>1, <1>4, ReturnedType
       DEF BatchInv, FailEntry, DistributeOverflow, DistributeFlush, DistributeHop,
           DistributeDies
  <2>2. CASE FailEntry
    <3> DEFINE y == Fail(session[s], "inference")
    <3>1. session' = [session EXCEPT ![s] = y] /\ UNCHANGED produced
      BY <2>2 DEF FailEntry, Returned
    <3>2. OnlyFailures(session[s], y)
      BY <2>1, QueueKept, OnlyFailuresEnter
    <3> HIDE DEF y
    <3> QED
      BY <1>1, <2>1, <3>1, <3>2, OneFinal
  <2>3. CASE DistributeOverflow \/ DistributeFlush \/ DistributeHop \/ DistributeDies
    <3>1. ~session[s].cancelled
      BY <2>3 DEF DistributeOverflow, DistributeFlush, DistributeHop, DistributeDies,
                  Deliverable, Unwanted
    <3>2. \E y : session' = [session EXCEPT ![s] = y]
      BY <2>3 DEF DistributeOverflow, DistributeFlush, DistributeHop, DistributeDies
    <3>3. \/ UNCHANGED produced
          \/ produced' = [produced EXCEPT ![s] = Append(@, Enhanced(session[s], Returned))]
      BY <2>3 DEF DistributeOverflow, DistributeFlush, DistributeHop, DistributeDies,
                  RecordProduced
    <3>4. \A t \in Streams \ {s} : produced'[t] = produced[t]
      BY <1>1, <3>3
    <3> QED
      BY <1>1, <2>1, <3>1, <3>2, <3>4, OneFinal
  <2> QED
    BY <1>4, <2>2, <2>3
<1> QED
  BY <1>2, <1>3, <1>4 DEF SchedulerStep, RunStep

LEMMA HandlerFinal ==
    ASSUME BatchInv, NEW s \in Streams, Handler(s)
    PROVE  FinalStep
<1>1. session \in [Streams -> BoundedSession] /\ session[s] \in BoundedSession
  BY DEF BatchInv, TypeInv, TypeOK, SessionTypeOK
<1>2. CASE \/ \E id \in StreamIds : Start(s, id) \/ RefuseStart(s, id)
           \/ RejectFirst(s) \/ MessageSent(s)
  BY <1>1, <1>2, IdleFinal DEF Start, RefuseStart, RejectFirst, MessageSent, schedVars
<1>3. CASE TakeEvent(s)
  <2> DEFINE y == [session[s] EXCEPT !.outq = Tail(@)]
  <2>1. /\ session' = [session EXCEPT ![s] = y] /\ UNCHANGED produced
        /\ session[s].outq # <<>>
    BY <1>1, <1>3 DEF TakeEvent
  <2>2. y.outq = Tail(session[s].outq)
    BY <1>1 DEF BoundedSession, Session
  <2> HIDE DEF y
  <2>3. OnlyFailures(session[s], y)
    BY <1>1, <2>1, <2>2, OnlyFailuresEnter
  <2> QED
    BY <1>1, <2>1, <2>3, OneFinal
<1>4. CASE EndedSent(s) \/ AbortSent(s) \/ CancelRPC(s)
  <2> DEFINE y == [session[s] EXCEPT !.cancelled = TRUE, !.inq = <<>>, !.outq = <<>>]
  <2>1. session' = [session EXCEPT ![s] = y] /\ UNCHANGED produced
    BY <1>1, <1>4 DEF EndedSent, AbortSent, CancelRPC, Finalize
  <2>2. y.outq = <<>>
    BY <1>1 DEF BoundedSession, Session
  <2> HIDE DEF y
  <2>3. OnlyFailures(session[s], y)
    BY <1>1, <2>2, OnlyFailuresEnter
  <2> QED
    BY <1>1, <2>1, <2>3, OneFinal
<1> QED
  BY <1>2, <1>3, <1>4 DEF Handler

LEMMA FailsFinal ==
    ASSUME BatchInv, NEW s \in Streams, ReaderUnchanged,
           NEW x \in BoundedSession, NEW reason, ReaderFails(s, x, reason)
    PROVE  FinalStep
<1>1. session \in [Streams -> BoundedSession] /\ session[s] \in BoundedSession
  BY DEF BatchInv, TypeInv, TypeOK, SessionTypeOK
<1>2. session' = [session EXCEPT ![s] = Fail(x, reason)] /\ UNCHANGED produced
  BY DEF ReaderFails, ReaderUnchanged
<1>3. Fail(x, reason).outq = <<Failure(reason)>>
  BY QueueKept
<1>4. OnlyFailures(session[s], Fail(x, reason))
  BY <1>1, <1>3, OnlyFailuresEnter
<1> QED
  BY <1>1, <1>2, <1>4, OneFinal

LEMMA PutFinal ==
    ASSUME BatchInv, NEW s \in Streams, ReaderUnchanged,
           NEW x \in BoundedSession, x.outq = session[s].outq,
           NEW works \in Seq(ModelWork),
           Put(s, x, works) \/ PutRaises(s, x, works)
    PROVE  FinalStep
<1> DEFINE k == Fitting(x, works)
<1>1. session \in [Streams -> BoundedSession] /\ session[s] \in BoundedSession
  BY DEF BatchInv, TypeInv, TypeOK, SessionTypeOK
<1>2. k \in Nat /\ k <= Room(x) /\ k <= Len(works)
  BY FittingBounds
<1>3. CASE Put(s, x, works)
  <2> DEFINE y == Enqueued(x, works, k)
             z == IF k = 0 THEN y ELSE Notified(y)
  <2>1. session' = [session EXCEPT ![s] = z] /\ UNCHANGED produced
    BY <1>3 DEF Put, ReaderUnchanged
  <2>2. y \in BoundedSession /\ y.outq = x.outq
    BY <1>2, EnqueuedType, QueueKept
  <2> HIDE DEF y, k
  <2>3. z.outq = session[s].outq
    BY <2>2, QueueKept
  <2> HIDE DEF z
  <2>4. OnlyFailures(session[s], z)
    BY <1>1, <2>3, OnlyFailuresEnter
  <2> QED
    BY <1>1, <2>1, <2>4, OneFinal
<1>4. CASE PutRaises(s, x, works)
  <2> DEFINE y == Enqueued(x, works, 1)
  <2>1. y \in BoundedSession
    <3>1. Room(x) \in Int /\ Len(works) \in Nat /\ k > 0
      BY <1>4, SessionAssumption DEF PutRaises, Room, BoundedSession, Session
    <3>2. 1 \in Nat /\ 1 <= Room(x) /\ 1 <= Len(works)
      BY <1>2, <3>1
    <3> QED
      BY <3>2, EnqueuedType
  <2>2. ReaderFails(s, Notified(y), "internal")
    BY <1>4 DEF PutRaises
  <2> HIDE DEF y
  <2>3. Notified(y) \in BoundedSession
    BY <2>1, NotifiedType
  <2> QED
    BY <2>2, <2>3, FailsFinal
<1> QED
  BY <1>3, <1>4

LEMMA ReaderFinal ==
    ASSUME BatchInv, InputInv, NEW s \in Streams, Reader(s)
    PROVE  FinalStep
<1> DEFINE x == session[s]
<1>1. /\ session \in [Streams -> BoundedSession] /\ x \in BoundedSession
      /\ toPut \in [Streams -> Seq(ModelWork)]
  BY DEF BatchInv, TypeInv, TypeOK, ServiceTypeOK, SessionTypeOK
<1>2. MaxAudioChunkSamples \in Nat
  BY ServiceAssumption
<1>3. ASSUME NEW n \in 1..MaxAudioChunkSamples, AcceptAudio(s, n)
      PROVE  FinalStep
  <2> DEFINE y == Accept(x, n)
             works == FullHops(x, n)
  <2>1. ReaderUnchanged /\ (Put(s, y, works) \/ PutRaises(s, y, works))
    BY <1>3 DEF AcceptAudio
  <2>2. n \in Nat
    BY <1>2
  <2>3. y \in BoundedSession /\ works \in Seq(ModelWork) /\ y.outq = x.outq
    BY <1>1, <2>2, RechunkType, HopsContinue
  <2> HIDE DEF y, works
  <2> QED
    BY <2>1, <2>3, PutFinal
<1>4. ASSUME NEW n \in 1..MaxAudioChunkSamples, ChunkRefused(s, n)
      PROVE  FinalStep
  <2> DEFINE y == [x EXCEPT !.inputSamples = @ + n]
  <2>1. x.inputSamples + n \in Nat
    BY <1>1, <1>2 DEF BoundedSession, Session
  <2>2. y \in BoundedSession
    BY <1>1, <2>1, FieldType DEF BoundedSession, Session
  <2>3. ReaderFails(s, y, "inputFull") /\ ReaderUnchanged
    BY <1>4 DEF ChunkRefused
  <2> QED
    BY <2>2, <2>3, FailsFinal
<1>5. CASE ProtocolViolation(s) \/ IdleTimeout(s)
  BY <1>1, <1>5, FailsFinal DEF ProtocolViolation, IdleTimeout
<1>6. CASE EndWithoutFlush(s)
  <2>1. <<NoFlushWork>> \in Seq(ModelWork)
    BY EndMarkerContinues
  <2> QED
    BY <1>1, <1>6, <2>1, PutFinal DEF EndWithoutFlush
<1>7. CASE EndWithFlush(s)
  <2> DEFINE y == FlushPartial(x)
             works == TerminalWorks(x)
  <2>1. ReaderUnchanged /\ (Put(s, y, works) \/ PutRaises(s, y, works))
    BY <1>7 DEF EndWithFlush
  <2>2. y \in BoundedSession /\ works \in Seq(ModelWork) /\ y.outq = x.outq
    BY <1>1, FlushType, QueueKept
  <2> HIDE DEF y, works
  <2> QED
    BY <2>1, <2>2, PutFinal
<1>8. CASE EndEmptyStream(s)
  <2> DEFINE y == Complete(x, TRUE)
  <2>1. /\ session' = [session EXCEPT ![s] = y] /\ UNCHANGED produced
        /\ reader[s] = "reading" /\ ~sawEnd[s] /\ x.inputSamples = 0
    BY <1>8 DEF EndEmptyStream, ReaderUnchanged
  <2>2. ~InputOver(s) /\ Open(s)
    BY <2>1 DEF InputOver, Open
  <2>3. ~x.cancelled
    BY <2>1, <2>2 DEF InputInv, InputOK
  <2> HIDE DEF y
  <2> QED
    BY <1>1, <2>1, <2>3, OneFinal
<1>9. CASE ResumePut(s)
  <2>1. toPut[s] \in Seq(ModelWork)
    BY <1>1
  <2> QED
    BY <1>1, <1>9, <2>1, PutFinal DEF ResumePut
<1>10. CASE HalfClose(s)
  BY <1>1, <1>10, IdleFinal DEF HalfClose, schedVars
<1> QED
  BY <1>3, <1>4, <1>5, <1>6, <1>7, <1>8, <1>9, <1>10 DEF Reader

LEMMA NextFinal ==
    ASSUME ServiceInv, [Next]_vars
    PROVE  FinalStep
<1>1. session \in [Streams -> BoundedSession]
  BY DEF ServiceInv, BatchInv, TypeInv, TypeOK, SessionTypeOK
<1>2. CASE SchedulerStep
  BY <1>2, SchedulerFinal DEF ServiceInv
<1>3. ASSUME NEW s \in Streams, Handler(s) \/ Reader(s) PROVE FinalStep
  BY <1>3, HandlerFinal, ReaderFinal DEF ServiceInv
<1>4. CASE StopServer \/ Shutdown \/ UNCHANGED vars
  BY <1>1, <1>4, IdleFinal DEF StopServer, Shutdown, CloseScheduler, vars, schedVars
<1> QED
  BY <1>2, <1>3, <1>4 DEF Next

\* Once a stream is cancelled no step gives it another hop, and nothing enters
\* its output queue but a failure, though the scheduler may still hold its work
\* in a batch or at the model (scheduler.py: _distribute, service.py: finally).
THEOREM CancelledStaysFinal == Spec => CancelledIsFinal
<1>1. ASSUME ServiceInv, [Next]_vars
      PROVE  [\A s \in Streams :
                session[s].cancelled =>
                    /\ produced'[s] = produced[s]
                    /\ \A i \in DOMAIN session'[s].outq :
                         \/ session'[s].outq[i].type = "failure"
                         \/ session'[s].outq[i] \in Elements(session[s].outq)]_vars
  BY <1>1, NextFinal DEF FinalStep, OnlyFailures
<1> QED
  BY <1>1, ServiceInvariant, PTL DEF Spec, CancelledIsFinal

-----------------------------------------------------------------------------
(* The refinement: each stream of the service is a single-stream pipeline.    *)
(* A delivered result is a Push or the Flush; whatever cancels or ends a      *)
(* stream otherwise is an Abandon; every other step is a stutter.             *)

PipelineStep == [Pipeline!Next]_(Pipeline!vars)

LEMMA PipelineStays ==
    ASSUME UNCHANGED produced,
           \A t \in Streams :
              /\ PipelineClosed(t)' <=> PipelineClosed(t)
              /\ PipelineClosed(t) \/ /\ session'[t].pending = session[t].pending
                                      /\ session'[t].cache = session[t].cache
    PROVE  PipelineStep
<1>1. \A t \in Streams :
        /\ (IF PipelineClosed(t) THEN None ELSE session[t].pending)'
             = IF PipelineClosed(t) THEN None ELSE session[t].pending
        /\ (IF PipelineClosed(t) THEN None ELSE session[t].cache)'
             = IF PipelineClosed(t) THEN None ELSE session[t].cache
        /\ PipelineClosed(t)' = PipelineClosed(t)
  BY DEF PipelineClosed
<1>2. UNCHANGED Pipeline!vars
  BY <1>1 DEF Pipeline!vars
<1> QED
  BY <1>2 DEF PipelineStep

\* One stream changes, its history does not: the step is invisible to the
\* pipelines unless it closes the stream.
LEMMA PipelineOne ==
    ASSUME session \in [Streams -> BoundedSession], NEW s \in Streams, NEW y,
           session' = [session EXCEPT ![s] = y], UNCHANGED produced,
           \/ y.cancelled \/ y.ended
           \/ /\ ~PipelineClosed(s)
              /\ y.pending = session[s].pending
              /\ y.cache = session[s].cache
    PROVE  PipelineStep
<1>1. session'[s] = y /\ \A t \in Streams \ {s} : session'[t] = session[t]
  OBVIOUS
<1>2. /\ PipelineClosed(s)' <=> (y.cancelled \/ y.ended)
      /\ \A t \in Streams \ {s} : PipelineClosed(t)' <=> PipelineClosed(t)
  BY <1>1 DEF PipelineClosed
<1>3. CASE ~PipelineClosed(s) /\ (y.cancelled \/ y.ended)
  <2>1. PipelineClosed(s)' /\ ~PipelineClosed(s)
    BY <1>2, <1>3
  <2>2. \A t \in Streams \ {s} :
           /\ PipelineClosed(t)' = PipelineClosed(t)
           /\ (IF PipelineClosed(t) THEN None ELSE session[t].pending)'
                = IF PipelineClosed(t) THEN None ELSE session[t].pending
           /\ (IF PipelineClosed(t) THEN None ELSE session[t].cache)'
                = IF PipelineClosed(t) THEN None ELSE session[t].cache
    BY <1>1, <1>2 DEF PipelineClosed
  <2>3. PipelineClosed(s)' = TRUE
    BY <2>1 DEF PipelineClosed
  <2>4. Pipeline!Abandon(s)
    BY <2>1, <2>2, <2>3 DEF Pipeline!Abandon, Pipeline!Absorb
  <2> QED
    BY <2>4 DEF PipelineStep, Pipeline!Next
<1>4. CASE ~(~PipelineClosed(s) /\ (y.cancelled \/ y.ended))
  BY <1>1, <1>2, <1>4, PipelineStays
<1> QED
  BY <1>3, <1>4

LEMMA PipelineIdle ==
    ASSUME UNCHANGED <<session, produced>>
    PROVE  PipelineStep
BY PipelineStays DEF PipelineClosed

\* A delivered hop is absorbed in the place of the pending one, whose audio is
\* returned.
LEMMA PipelinePush ==
    ASSUME session \in [Streams -> BoundedSession], NEW s \in Streams, NEW y,
           session' = [session EXCEPT ![s] = y],
           ~PipelineClosed(s), ~y.cancelled, ~y.ended,
           NEW hop \in SourceHop, y.pending = hop,
           y.cache = [stream |-> s, start |-> hop.start],
           hop.start = AfterPending(session[s]), EndOf(hop) <= MaxSamples,
           produced' = IF session[s].pending = None THEN produced
                       ELSE [produced EXCEPT ![s] =
                               Append(@, [start |-> session[s].pending.start,
                                          valid |-> session[s].pending.valid,
                                          heard |-> session[s].cache])]
    PROVE  PipelineStep
<1>1. session'[s] = y /\ \A t \in Streams \ {s} : session'[t] = session[t]
  OBVIOUS
<1>2. ~PipelineClosed(s)'
  BY <1>1 DEF PipelineClosed
<1>3. \A t \in Streams : PipelineClosed(t)' = PipelineClosed(t)
  BY <1>1, <1>2 DEF PipelineClosed
<1>4. /\ (IF PipelineClosed(s) THEN None ELSE session[s].pending)' = hop
      /\ (IF PipelineClosed(s) THEN None ELSE session[s].cache)'
           = [stream |-> s, start |-> hop.start]
      /\ (IF PipelineClosed(s) THEN None ELSE session[s].pending) = session[s].pending
      /\ (IF PipelineClosed(s) THEN None ELSE session[s].cache) = session[s].cache
  BY <1>1, <1>2
<1>5. \A t \in Streams \ {s} :
         /\ (IF PipelineClosed(t) THEN None ELSE session[t].pending)'
              = IF PipelineClosed(t) THEN None ELSE session[t].pending
         /\ (IF PipelineClosed(t) THEN None ELSE session[t].cache)'
              = IF PipelineClosed(t) THEN None ELSE session[t].cache
  BY <1>1, <1>3
<1>6. Pipeline!NextStart(s) = hop.start
  BY <1>4 DEF Pipeline!NextStart, AfterPending, EndOf
<1>7. Pipeline!Return(s)
  BY <1>4 DEF Pipeline!Return
<1>8. hop = [start |-> Pipeline!NextStart(s), valid |-> hop.valid] /\ hop.valid \in 1..HopSamples
  BY <1>6 DEF SourceHop
<1> DEFINE Pushed(valid) == Pipeline!Push(s, [start |-> Pipeline!NextStart(s), valid |-> valid])
<1>9. Pushed(hop.valid)
  BY <1>3, <1>4, <1>5, <1>6, <1>7, <1>8 DEF Pipeline!Push, Pipeline!Absorb, EndOf
<1>10. ASSUME \E valid \in 1..HopSamples : Pushed(valid)
       PROVE  Pipeline!Next
  BY <1>10 DEF Pipeline!Next
<1> HIDE DEF Pushed
<1>11. Pipeline!Next
  BY <1>8, <1>9, <1>10
<1> QED
  BY <1>11 DEF PipelineStep

\* The flush result returns the pending hop's audio and closes the stream.
LEMMA PipelineFlush ==
    ASSUME session \in [Streams -> BoundedSession], NEW s \in Streams, NEW y,
           session' = [session EXCEPT ![s] = y],
           ~PipelineClosed(s), y.cancelled \/ y.ended,
           produced' = IF session[s].pending = None THEN produced
                       ELSE [produced EXCEPT ![s] =
                               Append(@, [start |-> session[s].pending.start,
                                          valid |-> session[s].pending.valid,
                                          heard |-> session[s].cache])]
    PROVE  PipelineStep
<1>1. session'[s] = y /\ \A t \in Streams \ {s} : session'[t] = session[t]
  OBVIOUS
<1>2. /\ PipelineClosed(s)' = TRUE
      /\ \A t \in Streams \ {s} : PipelineClosed(t)' = PipelineClosed(t)
  BY <1>1 DEF PipelineClosed
<1>3. /\ (IF PipelineClosed(s) THEN None ELSE session[s].pending) = session[s].pending
      /\ (IF PipelineClosed(s) THEN None ELSE session[s].cache) = session[s].cache
  OBVIOUS
<1>4. \A t \in Streams \ {s} :
         /\ (IF PipelineClosed(t) THEN None ELSE session[t].pending)'
              = IF PipelineClosed(t) THEN None ELSE session[t].pending
         /\ (IF PipelineClosed(t) THEN None ELSE session[t].cache)'
              = IF PipelineClosed(t) THEN None ELSE session[t].cache
  BY <1>1, <1>2
<1>5. Pipeline!Return(s)
  BY <1>3 DEF Pipeline!Return
<1>6. Pipeline!Flush(s)
  BY <1>2, <1>4, <1>5 DEF Pipeline!Flush, Pipeline!Absorb
<1> QED
  BY <1>6 DEF PipelineStep, Pipeline!Next

\* x becomes y out of the pipeline's sight, or is closed.
Unseen(x, y) ==
    \/ y.cancelled \/ y.ended
    \/ /\ y.cancelled = x.cancelled /\ y.ended = x.ended
       /\ y.pending = x.pending /\ y.cache = x.cache

LEMMA UnseenStep ==
    ASSUME session \in [Streams -> BoundedSession], NEW s \in Streams, NEW y,
           session' = [session EXCEPT ![s] = y], UNCHANGED produced,
           Unseen(session[s], y)
    PROVE  PipelineStep
<1>1. \/ y.cancelled \/ y.ended
      \/ /\ ~PipelineClosed(s)
         /\ y.pending = session[s].pending
         /\ y.cache = session[s].cache
  BY DEF Unseen, PipelineClosed
<1> QED
  BY <1>1, PipelineOne

LEMMA UnseenOperations ==
    ASSUME NEW x \in BoundedSession
    PROVE  /\ Unseen(x, Unscheduled(x)) /\ Unseen(x, Dequeued(x)) /\ Unseen(x, Notified(x))
           /\ Unseen(x, FlushPartial(x))
           /\ Unseen(x, [x EXCEPT !.outq = Tail(@)])
           /\ \A works, k : Unseen(x, Enqueued(x, works, k))
           /\ Unseen(x, [x EXCEPT !.cancelled = TRUE, !.inq = <<>>, !.outq = <<>>])
BY DEF Unseen, Unscheduled, Dequeued, Notified, FlushPartial, Enqueued, BoundedSession, Session

\* A failure cancels and a completion ends the stream, whatever it was before.
LEMMA ClosingOperations ==
    ASSUME NEW x \in BoundedSession
    PROVE  /\ \A reason : Fail(x, reason).cancelled = TRUE
           /\ \A flushed : Complete(x, flushed).ended
<1>1. \A reason : Fail(x, reason).cancelled = TRUE
  BY DEF Fail, BoundedSession, Session
<1>2. ASSUME NEW flushed PROVE Complete(x, flushed).ended
  BY DEF Complete, Fail, Emit, BoundedSession, Session
<1> QED
  BY <1>1, <1>2

LEMMA PipelineHandler ==
    ASSUME BatchInv, NEW s \in Streams, Handler(s)
    PROVE  PipelineStep
<1>1. session \in [Streams -> BoundedSession] /\ session[s] \in BoundedSession
  BY DEF BatchInv, TypeInv, TypeOK, SessionTypeOK
<1>2. CASE \/ \E id \in StreamIds : Start(s, id) \/ RefuseStart(s, id)
           \/ RejectFirst(s) \/ MessageSent(s)
  BY <1>2, PipelineIdle DEF Start, RefuseStart, RejectFirst, MessageSent, schedVars
<1>3. CASE TakeEvent(s)
  <2>1. /\ session' = [session EXCEPT ![s] = [session[s] EXCEPT !.outq = Tail(@)]]
        /\ UNCHANGED produced
    BY <1>1, <1>3 DEF TakeEvent
  <2> QED
    BY <1>1, <2>1, UnseenOperations, UnseenStep
<1>4. CASE EndedSent(s) \/ AbortSent(s) \/ CancelRPC(s)
  <2>1. /\ session' = [session EXCEPT ![s] =
                         [session[s] EXCEPT !.cancelled = TRUE, !.inq = <<>>, !.outq = <<>>]]
        /\ UNCHANGED produced
    BY <1>1, <1>4 DEF EndedSent, AbortSent, CancelRPC, Finalize
  <2> QED
    BY <1>1, <2>1, UnseenOperations, UnseenStep
<1> QED
  BY <1>2, <1>3, <1>4 DEF Handler

LEMMA PipelineFails ==
    ASSUME BatchInv, NEW s \in Streams, ReaderUnchanged,
           NEW x \in BoundedSession, NEW reason, ReaderFails(s, x, reason)
    PROVE  PipelineStep
<1>1. session \in [Streams -> BoundedSession]
  BY DEF BatchInv, TypeInv, TypeOK, SessionTypeOK
<1>2. session' = [session EXCEPT ![s] = Fail(x, reason)] /\ UNCHANGED produced
  BY DEF ReaderFails, ReaderUnchanged
<1>3. Unseen(session[s], Fail(x, reason))
  BY ClosingOperations DEF Unseen
<1> QED
  BY <1>1, <1>2, <1>3, UnseenStep

LEMMA PipelinePut ==
    ASSUME BatchInv, NEW s \in Streams, ReaderUnchanged,
           NEW x \in BoundedSession, Unseen(session[s], x),
           NEW works \in Seq(ModelWork),
           Put(s, x, works) \/ PutRaises(s, x, works)
    PROVE  PipelineStep
<1> DEFINE k == Fitting(x, works)
<1>1. session \in [Streams -> BoundedSession] /\ session[s] \in BoundedSession
  BY DEF BatchInv, TypeInv, TypeOK, SessionTypeOK
<1>2. k \in Nat /\ k <= Room(x) /\ k <= Len(works)
  BY FittingBounds
<1>3. CASE Put(s, x, works)
  <2> DEFINE y == Enqueued(x, works, k)
             z == IF k = 0 THEN y ELSE Notified(y)
  <2>1. session' = [session EXCEPT ![s] = z] /\ UNCHANGED produced
    BY <1>3 DEF Put, ReaderUnchanged
  <2>2. y \in BoundedSession /\ Unseen(x, y)
    BY <1>2, EnqueuedType, UnseenOperations
  <2>3. y.cancelled = x.cancelled /\ y.ended = x.ended
    BY DEF Enqueued, BoundedSession, Session
  <2> HIDE DEF y, k
  <2>4. z.cancelled = y.cancelled /\ z.ended = y.ended /\ (z = y \/ Unseen(y, z))
    BY <2>2, UnseenOperations DEF Notified, BoundedSession, Session
  <2> HIDE DEF z
  <2>5. Unseen(session[s], z)
    BY <2>2, <2>3, <2>4 DEF Unseen
  <2> QED
    BY <1>1, <2>1, <2>5, UnseenStep
<1>4. CASE PutRaises(s, x, works)
  <2> DEFINE y == Enqueued(x, works, 1)
  <2>1. y \in BoundedSession
    <3>1. Room(x) \in Int /\ Len(works) \in Nat /\ k > 0
      BY <1>4, SessionAssumption DEF PutRaises, Room, BoundedSession, Session
    <3>2. 1 \in Nat /\ 1 <= Room(x) /\ 1 <= Len(works)
      BY <1>2, <3>1
    <3> QED
      BY <3>2, EnqueuedType
  <2>2. ReaderFails(s, Notified(y), "internal")
    BY <1>4 DEF PutRaises
  <2> HIDE DEF y
  <2>3. Notified(y) \in BoundedSession
    BY <2>1, NotifiedType
  <2> QED
    BY <2>2, <2>3, PipelineFails
<1> QED
  BY <1>3, <1>4

LEMMA PipelineReader ==
    ASSUME BatchInv, NEW s \in Streams, Reader(s)
    PROVE  PipelineStep
<1> DEFINE x == session[s]
<1>1. /\ session \in [Streams -> BoundedSession] /\ x \in BoundedSession
      /\ toPut \in [Streams -> Seq(ModelWork)]
  BY DEF BatchInv, TypeInv, TypeOK, ServiceTypeOK, SessionTypeOK
<1>2. MaxAudioChunkSamples \in Nat
  BY ServiceAssumption
<1>3. Unseen(x, x)
  BY DEF Unseen
<1>4. ASSUME NEW n \in 1..MaxAudioChunkSamples, AcceptAudio(s, n)
      PROVE  PipelineStep
  <2> DEFINE y == Accept(x, n)
             works == FullHops(x, n)
  <2>1. ReaderUnchanged /\ (Put(s, y, works) \/ PutRaises(s, y, works))
    BY <1>4 DEF AcceptAudio
  <2>2. n \in Nat
    BY <1>2
  <2>3. y \in BoundedSession /\ works \in Seq(ModelWork)
    BY <1>1, <2>2, RechunkType
  <2>4. y.cancelled = x.cancelled /\ y.ended = x.ended /\ Kept(x, y)
    BY <1>1, <2>2, HopsContinue, InputKept
  <2> HIDE DEF y, works
  <2>5. Unseen(x, y)
    BY <2>4 DEF Unseen, Kept
  <2> QED
    BY <2>1, <2>3, <2>5, PipelinePut
<1>5. ASSUME NEW n \in 1..MaxAudioChunkSamples, ChunkRefused(s, n)
      PROVE  PipelineStep
  <2> DEFINE y == [x EXCEPT !.inputSamples = @ + n]
  <2>1. x.inputSamples + n \in Nat
    BY <1>1, <1>2 DEF BoundedSession, Session
  <2>2. y \in BoundedSession
    BY <1>1, <2>1, FieldType DEF BoundedSession, Session
  <2>3. ReaderFails(s, y, "inputFull") /\ ReaderUnchanged
    BY <1>5 DEF ChunkRefused
  <2> QED
    BY <2>2, <2>3, PipelineFails
<1>6. CASE ProtocolViolation(s) \/ IdleTimeout(s)
  BY <1>1, <1>6, PipelineFails DEF ProtocolViolation, IdleTimeout
<1>7. CASE EndWithoutFlush(s)
  <2>1. <<NoFlushWork>> \in Seq(ModelWork)
    BY EndMarkerContinues
  <2> QED
    BY <1>1, <1>3, <1>7, <2>1, PipelinePut DEF EndWithoutFlush
<1>8. CASE EndWithFlush(s)
  <2> DEFINE y == FlushPartial(x)
             works == TerminalWorks(x)
  <2>1. ReaderUnchanged /\ (Put(s, y, works) \/ PutRaises(s, y, works))
    BY <1>8 DEF EndWithFlush
  <2>2. y \in BoundedSession /\ works \in Seq(ModelWork) /\ Unseen(x, y)
    BY <1>1, FlushType, UnseenOperations
  <2> HIDE DEF y, works
  <2> QED
    BY <2>1, <2>2, PipelinePut
<1>9. CASE EndEmptyStream(s)
  <2>1. /\ session' = [session EXCEPT ![s] = Complete(x, TRUE)] /\ UNCHANGED produced
    BY <1>9 DEF EndEmptyStream, ReaderUnchanged
  <2>2. Unseen(x, Complete(x, TRUE))
    BY <1>1, ClosingOperations DEF Unseen
  <2> QED
    BY <1>1, <2>1, <2>2, UnseenStep
<1>10. CASE ResumePut(s)
  <2>1. toPut[s] \in Seq(ModelWork)
    BY <1>1
  <2> QED
    BY <1>1, <1>3, <1>10, <2>1, PipelinePut DEF ResumePut
<1>11. CASE HalfClose(s)
  BY <1>11, PipelineIdle DEF HalfClose, schedVars
<1> QED
  BY <1>4, <1>5, <1>6, <1>7, <1>8, <1>9, <1>10, <1>11 DEF Reader

LEMMA PipelineDispatch ==
    ASSUME BatchInv, DispatchSkip \/ DispatchWork \/ DispatchNoFlush
    PROVE  PipelineStep
<1> SUFFICES ASSUME NEW s, s = NextToDispatch
             PROVE  PipelineStep
  OBVIOUS
<1>1. session \in [Streams -> BoundedSession]
  BY DEF BatchInv, TypeInv, TypeOK, SessionTypeOK
<1>2. s \in Streams /\ session[s] \in BoundedSession
  BY <1>1, DispatchedStream DEF BatchInv, DispatchSkip, DispatchWork, DispatchNoFlush
<1>3. UNCHANGED produced
  BY DEF DispatchSkip, DispatchWork, DispatchNoFlush, AfterDispatch
<1>4. CASE DispatchSkip
  <2>1. session' = [session EXCEPT ![s] = Unscheduled(session[s])]
    BY <1>4 DEF DispatchSkip
  <2> QED
    BY <1>1, <1>2, <1>3, <2>1, UnseenOperations, UnseenStep
<1>5. CASE DispatchWork
  <2>1. session' = [session EXCEPT ![s] = Dequeued(session[s])]
    BY <1>5 DEF DispatchWork
  <2> QED
    BY <1>1, <1>2, <1>3, <2>1, UnseenOperations, UnseenStep
<1>6. CASE DispatchNoFlush
  <2> DEFINE d == [Dequeued(session[s]) EXCEPT !.pending = None]
             y == Complete(d, FALSE)
  <2>1. session' = [session EXCEPT ![s] = y] /\ session[s].inq # <<>>
    BY <1>6 DEF DispatchNoFlush, NothingToDispatch, CompleteWithoutFlush
  <2>2. d \in BoundedSession
    BY <1>2, <2>1, DequeuedType DEF BoundedSession, Session
  <2> HIDE DEF d
  <2>3. y.ended
    BY <2>2, ClosingOperations
  <2> HIDE DEF y
  <2>4. Unseen(session[s], y)
    BY <2>3 DEF Unseen
  <2> QED
    BY <1>1, <1>2, <1>3, <2>1, <2>4, UnseenStep
<1> QED
  BY <1>4, <1>5, <1>6

\* What a delivered result finds and leaves: the next hop of the stream is
\* absorbed, and the audio returned was computed from the caches before.
LEMMA DeliveryFits ==
    ASSUME ServiceInv, sched = "distribute", active # <<>>,
           NEW s, s = Returned.stream, Deliverable(session[s])
    PROVE  /\ s \in Streams /\ session[s] \in BoundedSession /\ ~PipelineClosed(s)
           /\ Returned \in ActiveEntry
           /\ Returned.wav = session[s].cache
           /\ Returned.work # FlushWork =>
                /\ SourceOf(Returned.work) \in SourceHop
                /\ SourceOf(Returned.work).start = AfterPending(session[s])
                /\ EndOf(SourceOf(Returned.work)) <= MaxSamples
                /\ Returned.cache = [stream |-> s, start |-> SourceOf(Returned.work).start]
<1> DEFINE x == session[s]
           work == Returned.work
<1>1. s \in Streams /\ x \in BoundedSession /\ Returned \in ActiveEntry
  BY ReturnedType DEF ServiceInv, BatchInv, TypeInv, TypeOK, SessionTypeOK
<1>2. ~PipelineClosed(s) /\ Live(s)
  BY DEF Deliverable, Unwanted, PipelineClosed, Live, Running
<1>3. 1 \in DOMAIN active /\ active[1] = Returned
  <2>1. active \in Seq(ActiveEntry)
    BY DEF ServiceInv, BatchInv, TypeInv, TypeOK, SchedulerTypeOK
  <2> QED
    BY <2>1, TailElements DEF Returned
<1>4. Returned.wav = x.cache /\ Returned.cache = Absorbed(Returned)
  BY <1>3 DEF ServiceInv, BatchInv, CachesFollow
<1>5. work \in WorkInFlight(s)
  BY <1>3 DEF WorkInFlight
<1>6. /\ Chained(x, Works(s), WorkInFlight(s))
      /\ x.inputSamples <= MaxSamples
  BY <1>1, <1>2 DEF ServiceInv, InputInv, InputOK
<1>7. ASSUME work # FlushWork
      PROVE  /\ SourceOf(work) \in SourceHop
             /\ SourceOf(work).start = AfterPending(x)
             /\ EndOf(SourceOf(work)) <= MaxSamples
             /\ Returned.cache = [stream |-> s, start |-> SourceOf(work).start]
  <2>1. /\ IsSource(work) /\ work.start = AfterPending(x) /\ EndOf(work) <= x.nextSample
        /\ x.inputSamples = x.nextSample + x.buffered
    BY <1>5, <1>6, <1>7 DEF Chained
  <2>2. work \in ModelWork
    BY <1>1 DEF ActiveEntry
  <2>3. work.start \in Nat /\ work.valid \in 1..HopSamples /\ EndOf(work) \in Nat
    BY <2>1, <2>2, WorkTypes
  <2>4. SourceOf(work) = [start |-> work.start, valid |-> work.valid]
    BY <2>1 DEF SourceOf
  <2>5. EndOf(work) <= MaxSamples
    BY <1>1, <1>6, <2>1, <2>3, PendingTypes, ServiceAssumption
  <2>6. EndOf(SourceOf(work)) = EndOf(work) /\ SourceOf(work).start = work.start
    BY <2>4 DEF EndOf
  <2>7. SourceOf(work) \in SourceHop
    BY <2>3, <2>4 DEF SourceHop
  <2>8. Returned.cache = [stream |-> s, start |-> work.start]
    BY <1>4, <2>1 DEF Absorbed
  <2> QED
    BY <2>1, <2>5, <2>6, <2>7, <2>8
<1> QED
  BY <1>1, <1>2, <1>4, <1>7

LEMMA PipelineReturn ==
    ASSUME ServiceInv,
           \/ FailEntry \/ DistributeOverflow
           \/ DistributeFlush \/ DistributeHop \/ DistributeDies
    PROVE  PipelineStep
<1> SUFFICES ASSUME NEW s, s = Returned.stream
             PROVE  PipelineStep
  OBVIOUS
<1> DEFINE x == session[s]
<1>1. /\ session \in [Streams -> BoundedSession]
      /\ sched \in {"distribute", "failing"} /\ active # <<>>
  BY DEF ServiceInv, BatchInv, TypeInv, TypeOK, SessionTypeOK, LoopShape,
         FailEntry, DistributeOverflow, DistributeFlush, DistributeHop, DistributeDies
<1>2. s \in Streams /\ x \in BoundedSession /\ Returned \in ActiveEntry
  BY <1>1, ReturnedType DEF ServiceInv, BatchInv
<1>3. CASE FailEntry
  <2>1. session' = [session EXCEPT ![s] = Fail(x, "inference")] /\ UNCHANGED produced
    BY <1>3 DEF FailEntry, Returned
  <2>2. Unseen(x, Fail(x, "inference"))
    BY <1>2, ClosingOperations DEF Unseen
  <2> QED
    BY <1>1, <1>2, <2>1, <2>2, UnseenStep
<1>4. CASE DistributeOverflow
  <2> DEFINE a == Advance(x, Returned)
  <2>1. session' = [session EXCEPT ![s] = Fail(a, "outputFull")] /\ UNCHANGED produced
    BY <1>4 DEF DistributeOverflow
  <2>2. a \in BoundedSession
    BY <1>2, AdvanceType
  <2> HIDE DEF a
  <2>3. Unseen(x, Fail(a, "outputFull"))
    BY <2>2, ClosingOperations DEF Unseen
  <2> QED
    BY <1>1, <1>2, <2>1, <2>3, UnseenStep
<1>5. CASE DistributeFlush \/ DistributeHop \/ DistributeDies
  <2> DEFINE y == Deliver(x, Returned)
             hop == SourceOf(Returned.work)
  <2>1. sched = "distribute" /\ Deliverable(x) /\ RecordProduced(s, x)
    BY <1>5 DEF DistributeFlush, DistributeHop, DistributeDies
  <2>2. /\ ~PipelineClosed(s) /\ Returned.wav = x.cache
        /\ Returned.work # FlushWork =>
             /\ hop \in SourceHop /\ hop.start = AfterPending(x) /\ EndOf(hop) <= MaxSamples
             /\ Returned.cache = [stream |-> s, start |-> hop.start]
    BY <1>1, <2>1, DeliveryFits
  <2>3. produced' = IF x.pending = None THEN produced
                    ELSE [produced EXCEPT ![s] =
                            Append(@, [start |-> x.pending.start, valid |-> x.pending.valid,
                                       heard |-> x.cache])]
    BY <2>1, <2>2 DEF RecordProduced, Enhanced
  <2>4. /\ y \in BoundedSession /\ y.cache = Returned.cache /\ y.pending = hop
        /\ y.ended = x.ended /\ y.cancelled = x.cancelled
    BY <1>2, <2>1, DeliverKept, DeliverInput
  <2> HIDE DEF y, hop
  <2>5. CASE DistributeFlush
    <3>1. session' = [session EXCEPT ![s] = Complete(y, TRUE)]
      BY <2>5 DEF DistributeFlush, y
    <3>2. Complete(y, TRUE).ended
      BY <2>4, ClosingOperations
    <3> QED
      BY <1>1, <1>2, <2>2, <2>3, <3>1, <3>2, PipelineFlush
  <2>6. CASE DistributeHop \/ DistributeDies
    <3> DEFINE z == Notified(y)
    <3>1. session' = [session EXCEPT ![s] = z] /\ Returned.work # FlushWork
      BY <2>6 DEF DistributeHop, DistributeDies, y
    <3>2. /\ z.cache = y.cache /\ z.pending = y.pending
          /\ z.ended = y.ended /\ z.cancelled = y.cancelled
      BY <2>4 DEF Notified, BoundedSession, Session
    <3> HIDE DEF z
    <3>3. ~z.cancelled /\ ~z.ended
      BY <2>2, <2>4, <3>2 DEF PipelineClosed
    <3>4. /\ hop \in SourceHop /\ hop.start = AfterPending(session[s])
          /\ EndOf(hop) <= MaxSamples
          /\ z.cache = [stream |-> s, start |-> hop.start] /\ z.pending = hop
      BY <1>1, <2>2, <2>4, <3>1, <3>2
    <3>5. produced' = IF session[s].pending = None THEN produced
                      ELSE [produced EXCEPT ![s] =
                              Append(@, [start |-> session[s].pending.start,
                                         valid |-> session[s].pending.valid,
                                         heard |-> session[s].cache])]
      BY <1>1, <2>3
    <3> QED
      BY <1>1, <1>2, <2>2, <3>1, <3>3, <3>4, <3>5, PipelinePush
  <2> QED
    BY <1>5, <2>5, <2>6
<1> QED
  BY <1>3, <1>4, <1>5

LEMMA NextPipeline ==
    ASSUME ServiceInv, [Next]_vars
    PROVE  PipelineStep
<1>1. CASE SchedulerStep
  <2>1. CASE TakeFirst \/ TakeMore \/ InferenceDone \/ InferenceFails \/ DistributeSkip
    BY <2>1, PipelineIdle
       DEF TakeFirst, TakeMore, InferenceDone, InferenceFails, DistributeSkip
  <2> QED
    BY <1>1, <2>1, PipelineDispatch, PipelineReturn DEF SchedulerStep, RunStep, ServiceInv
<1>2. ASSUME NEW s \in Streams, Handler(s) \/ Reader(s) PROVE PipelineStep
  BY <1>2, PipelineHandler, PipelineReader DEF ServiceInv
<1>3. CASE StopServer \/ Shutdown \/ UNCHANGED vars
  BY <1>3, PipelineIdle DEF StopServer, Shutdown, CloseScheduler, vars, schedVars
<1> QED
  BY <1>1, <1>2, <1>3 DEF Next

LEMMA InitPipeline == Init => Pipeline!Init
<1> SUFFICES ASSUME Init PROVE Pipeline!Init
  OBVIOUS
<1>1. \A s \in Streams : /\ session[s].pending = None /\ session[s].cache = None
                         /\ PipelineClosed(s) = FALSE
  BY DEF Init, SchedulerInit, FreshSession, PipelineClosed
<1>2. produced = [s \in Streams |-> <<>>]
  BY DEF Init, SchedulerInit
<1> QED
  BY <1>1, <1>2 DEF Pipeline!Init

\* The batching server implements one single-stream pipeline per stream: what a
\* stream hears does not depend on the batches its hops travelled in, on other
\* streams, on overflow or on cancellation (scheduler.py against pipeline.py).
THEOREM ServiceImplementsPipelines == Spec => ImplementsPipeline
<1>1. ServiceInv /\ [Next]_vars => [Pipeline!Next]_(Pipeline!vars)
  BY NextPipeline DEF PipelineStep
<1> QED
  BY <1>1, InitPipeline, ServiceInvariant, PTL DEF Spec, ImplementsPipeline, Pipeline!Spec

=============================================================================
