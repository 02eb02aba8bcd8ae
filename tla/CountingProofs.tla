---------------------------- MODULE CountingProofs ----------------------------
(* Facts about numbers and lists on which the proofs of several components      *)
(* rest: induction in a form that needs no operator parameter, intervals, and   *)
(* the lists that are joined of others.                                         *)
EXTENDS Integers, Sequences, SequencesExt, SequenceTheorems, FiniteSetTheorems,
        NaturalsInduction, WellFoundedInduction, TLAPS

\* A set of numbers that has 0 and with each number the next one has them all.
LEMMA Counting ==
    ASSUME NEW n \in Nat, NEW S, 0 \in S, \A k \in 0..(n - 1) : k \in S => k + 1 \in S
    PROVE  0..n \subseteq S
<1> DEFINE Missing == {k \in 0..n : k \notin S}
<1> SUFFICES ASSUME Missing # {}
             PROVE  FALSE
  OBVIOUS
<1>1. PICK m \in Missing : \A k \in Missing : <<k, m>> \notin OpToRel(<, Nat)
  <2>1. Missing \subseteq Nat
    OBVIOUS
  <2> HIDE DEF Missing
  <2> QED
    BY <2>1, WFMin, NatLessThanWellFounded, Zenon
<1>2. \A k \in Missing : ~(k < m)
  <2>1. \A k \in Missing : k \in Nat
    OBVIOUS
  <2> HIDE DEF Missing
  <2> QED
    BY <1>1, <2>1, Zenon DEF OpToRel
<1>3. m \in 1..n /\ m \notin S
  OBVIOUS
<1>4. m - 1 \in 0..(n - 1) /\ m - 1 < m /\ (m - 1) + 1 = m
  BY <1>3
<1>5. m - 1 \in S
  BY <1>2, <1>4
<1> QED
  BY <1>3, <1>4, <1>5

\* A set of indices that has all the smaller ones is an interval, and its size
\* says which.
LEMMA FirstOnes ==
    ASSUME NEW n \in Nat, NEW S \in SUBSET (1..n), \A i \in S : 1..i \subseteq S
    PROVE  Cardinality(S) \in 0..n /\ S = 1..Cardinality(S)
<1> DEFINE c == Cardinality(S)
<1>1. IsFiniteSet(1..n) /\ Cardinality(1..n) = n
  <2>1. 1 \in Int /\ n \in Int /\ (IF 1 > n THEN 0 ELSE n - 1 + 1) = n
    OBVIOUS
  <2> QED
    BY <2>1, FS_Interval
<1>2. IsFiniteSet(S) /\ c <= n
  <2> DEFINE interval == 1..n
  <2>1. IsFiniteSet(interval) /\ Cardinality(interval) = n /\ S \in SUBSET interval
    BY <1>1
  <2> HIDE DEF interval
  <2> QED
    BY <2>1, FS_Subset
<1>3. c \in Nat
  BY <1>2, FS_CardinalityType
<1>4. ASSUME NEW i \in S PROVE i <= c
  <2>1. i \in Nat /\ i >= 1
    OBVIOUS
  <2>2. Cardinality(1..i) = i
    BY <2>1, FS_Interval
  <2> QED
    BY <1>2, <2>2, FS_Subset
<1>5. IsFiniteSet(1..c) /\ Cardinality(1..c) = c
  BY <1>3, FS_Interval
<1>6. S \in SUBSET (1..c)
  BY <1>3, <1>4
<1>7. S = 1..c
  BY <1>5, <1>6, FS_Subset
<1> QED
  BY <1>2, <1>3, <1>7

-----------------------------------------------------------------------------
(* Products and quotients. *)

LEMMA TimesMonotone ==
    ASSUME NEW a \in Nat, NEW b \in Nat, NEW k \in Nat, a <= b
    PROVE  a * k \in Nat /\ b * k \in Nat /\ a * k <= b * k
<1>1. PICK c \in Nat : b = a + c
  OBVIOUS
<1>2. a * k \in Nat /\ c * k \in Nat
  OBVIOUS
<1>3. (a + c) * k = a * k + c * k
  OBVIOUS
<1> QED
  BY <1>1, <1>2, <1>3

LEMMA DivideBlock ==
    ASSUME NEW k \in Nat \ {0}, NEW c \in Int, NEW d \in 0..(k - 1)
    PROVE  (c * k + d) \div k = c
<1> DEFINE n == c * k + d
           q == n \div k
           r == n % k
<1>1. c * k \in Int /\ n \in Int
  OBVIOUS
<1>2. q \in Int /\ r \in 0..(k - 1) /\ n = q * k + r
  BY <1>1
<1>3. ASSUME q < c PROVE FALSE
  <2>1. PICK e \in Nat \ {0} : c = q + e
    BY <1>2, <1>3
  <2>2. c * k = q * k + e * k
    BY <1>2, <2>1
  <2>3. e * k >= k
    OBVIOUS
  <2> QED
    BY <1>1, <1>2, <2>2, <2>3
<1>4. ASSUME q > c PROVE FALSE
  <2>1. PICK e \in Nat \ {0} : q = c + e
    BY <1>2, <1>4
  <2>2. q * k = c * k + e * k
    BY <1>2, <2>1
  <2>3. e * k >= k
    OBVIOUS
  <2> QED
    BY <1>1, <1>2, <2>2, <2>3
<1> QED
  BY <1>2, <1>3, <1>4

LEMMA RemainderOfBlock ==
    ASSUME NEW k \in Nat \ {0}, NEW c \in Int, NEW d \in 0..(k - 1)
    PROVE  (c * k + d) % k = d
<1>1. (c * k + d) \div k = c
  BY DivideBlock
<1>2. PICK n : n = c * k + d
  OBVIOUS
<1>3. n \in Int /\ n = (n \div k) * k + (n % k)
  BY <1>2
<1> QED
  BY <1>1, <1>2, <1>3

(* Lists. *)

LEMMA JoinTwo ==
    ASSUME NEW S, NEW front \in Seq(S), NEW back \in Seq(S), NEW joined, joined = front \o back
    PROVE  /\ joined \in Seq(S) /\ Len(joined) = Len(front) + Len(back)
           /\ \A m \in 1..(Len(front) + Len(back)) :
                joined[m] = IF m <= Len(front) THEN front[m] ELSE back[m - Len(front)]
OBVIOUS

LEMMA JoinAround ==
    ASSUME NEW S, NEW front \in Seq(S), NEW x \in S, NEW back \in Seq(S),
           NEW joined, joined = front \o <<x>> \o back
    PROVE  /\ joined \in Seq(S)
           /\ Len(joined) = Len(front) + 1 + Len(back)
           /\ \A i \in 1..(Len(front) + 1 + Len(back)) :
                joined[i] = IF i <= Len(front) THEN front[i]
                            ELSE IF i = Len(front) + 1 THEN x
                            ELSE back[i - Len(front) - 1]
<1>1. /\ front \o <<x>> \in Seq(S) /\ Len(front \o <<x>>) = Len(front) + 1
      /\ \A i \in 1..(Len(front) + 1) :
           (front \o <<x>>)[i] = IF i <= Len(front) THEN front[i] ELSE x
  OBVIOUS
<1> DEFINE head == front \o <<x>>
<1> HIDE DEF head
<1>2. /\ head \o back \in Seq(S) /\ Len(head \o back) = Len(head) + Len(back)
      /\ \A i \in 1..(Len(head) + Len(back)) :
           (head \o back)[i] = IF i <= Len(head) THEN head[i] ELSE back[i - Len(head)]
  BY <1>1 DEF head
<1>3. Len(front) \in Nat /\ Len(back) \in Nat
  OBVIOUS
<1> QED
  BY <1>1, <1>2, <1>3 DEF head

\* Putting a longer list behind another makes a longer list.
LEMMA JoinLonger ==
    ASSUME NEW S, NEW s \in Seq(S), NEW t \in Seq(S), NEW e \in S
    PROVE  s \o Append(t, e) = Append(s \o t, e)
<1>1. <<e>> \in Seq(S) /\ s \o t \in Seq(S)
  BY ConcatProperties
<1>2. Append(t, e) = t \o <<e>> /\ Append(s \o t, e) = (s \o t) \o <<e>>
  BY <1>1, AppendIsConcat
<1>3. ASSUME NEW u \in Seq(S) PROVE (s \o t) \o u = s \o (t \o u)
  BY ConcatAssociative
<1> QED
  BY <1>1, <1>2, <1>3

\* A list is made of its beginnings, one element after the other.
LEMMA PrefixGrows ==
    ASSUME NEW S, NEW q \in Seq(S), NEW k \in 0..(Len(q) - 1)
    PROVE  /\ SubSeq(q, 1, k) \in Seq(S) /\ q[k + 1] \in S
           /\ SubSeq(q, 1, k + 1) = Append(SubSeq(q, 1, k), q[k + 1])
<1>1. k \in Nat /\ k + 1 \in 1..Len(q) /\ Len(q) \in Nat /\ 1 \in 1..Len(q) /\ (k + 1) - 1 = k
  OBVIOUS
<1>2. \A i \in 1..k : q[i] \in S
  BY <1>1
<1>3. SubSeq(q, 1, k) \in Seq(S) /\ q[k + 1] \in S
  BY <1>1, <1>2, SubSeqProperties
<1>4. SubSeq(q, 1, k + 1) = SubSeq(q, 1, k) \o <<q[k + 1]>>
  <2> DEFINE n == k + 1
  <2>1. n \in 1..Len(q) /\ n - 1 = k /\ 1 \in 1..Len(q)
    BY <1>1
  <2> HIDE DEF n
  <2>2. SubSeq(q, 1, n) = SubSeq(q, 1, n - 1) \o <<q[n]>>
    BY <2>1, SubSeqRecursiveSecond
  <2> QED
    BY <2>1, <2>2 DEF n
<1>5. Append(SubSeq(q, 1, k), q[k + 1]) = SubSeq(q, 1, k) \o <<q[k + 1]>>
  BY <1>3, AppendIsConcat
<1> QED
  BY <1>3, <1>4, <1>5

(* The list FlattenSeq makes of a list of lists, one after the other. *)

Flattened(t, q) == t = [i \in 1..Len(q) |-> IF i = 1 THEN q[i] ELSE t[i - 1] \o q[i]]

LEMMA FlattenExists ==
    ASSUME NEW q, Len(q) \in Nat \ {0}
    PROVE  \E t : Flattened(t, q) /\ FlattenSeq(q) = t[Len(q)]
<1> DEFINE n == Len(q)
           Upto(t, k) == t = [i \in 1..k |-> IF i = 1 THEN q[i] ELSE t[i - 1] \o q[i]]
           S == {k \in Nat : \E t : Upto(t, k)}
<1>1. 0 \in S
  <2> DEFINE t == [i \in 1..0 |-> q[i]]
  <2>1. Upto(t, 0)
    OBVIOUS
  <2> HIDE DEF t
  <2> QED
    BY <2>1
<1>2. ASSUME NEW k \in 0..(n - 1), k \in S PROVE k + 1 \in S
  <2>1. PICK t : Upto(t, k)
    BY <1>2
  <2>2. k \in Nat /\ k + 1 \in Nat
    OBVIOUS
  <2> DEFINE value == IF k = 0 THEN q[1] ELSE t[k] \o q[k + 1]
             u == [i \in 1..(k + 1) |-> IF i = k + 1 THEN value ELSE t[i]]
  <2>3. ASSUME NEW i \in 1..(k + 1)
        PROVE  u[i] = IF i = 1 THEN q[i] ELSE u[i - 1] \o q[i]
    <3>1. CASE i = k + 1
      <4>1. i = 1 <=> k = 0
        BY <3>1
      <4>2. i # 1 => i - 1 = k /\ k \in 1..(k + 1) /\ k # k + 1
        BY <3>1
      <4>3. u[i] = value
        BY <3>1
      <4>4. i # 1 => u[i - 1] = t[k]
        BY <4>2
      <4> HIDE DEF u
      <4> QED
        BY <3>1, <4>1, <4>3, <4>4
    <3>2. CASE i # k + 1
      <4>1. i \in 1..k
        BY <3>2
      <4>2. t[i] = IF i = 1 THEN q[i] ELSE t[i - 1] \o q[i]
        BY <2>1, <4>1
      <4>3. u[i] = t[i]
        BY <3>2
      <4>4. i # 1 => i - 1 \in 1..(k + 1) /\ i - 1 # k + 1
        BY <4>1
      <4>5. i # 1 => u[i - 1] = t[i - 1]
        BY <4>4
      <4> HIDE DEF u
      <4> QED
        BY <4>2, <4>3, <4>5
    <3> QED
      BY <3>1, <3>2
  <2>4. Upto(u, k + 1)
    <3>1. u = [i \in 1..(k + 1) |-> u[i]]
      OBVIOUS
    <3> HIDE DEF u
    <3> QED
      BY <2>3, <3>1
  <2> HIDE DEF Upto
  <2> QED
    BY <2>2, <2>4
<1>3. \E t : Upto(t, n)
  <2> HIDE DEF S, n
  <2>1. 0..n \subseteq S
    BY <1>1, <1>2, Counting DEF n
  <2>2. n \in S
    BY <2>1 DEF n
  <2> QED
    BY <2>2 DEF S
<1>4. FlattenSeq(q) = (CHOOSE t : Upto(t, n))[n]
  BY DEF FlattenSeq
<1> HIDE DEF n
<1>5. Upto(CHOOSE t : Upto(t, n), n)
  <2> HIDE DEF Upto
  <2> QED
    BY <1>3, Zenon
<1> QED
  BY <1>4, <1>5 DEF Flattened, n

LEMMA FlattenStep ==
    ASSUME NEW q, NEW t, Flattened(t, q), Len(q) \in Nat, NEW k \in Nat, k + 1 <= Len(q)
    PROVE  t[k + 1] = IF k = 0 THEN q[k + 1] ELSE t[k] \o q[k + 1]
<1> DEFINE i == k + 1
<1>1. i \in 1..Len(q) /\ i - 1 = k /\ (i = 1 <=> k = 0)
  OBVIOUS
<1> HIDE DEF i
<1>2. t[i] = IF i = 1 THEN q[i] ELSE t[i - 1] \o q[i]
  BY <1>1 DEF Flattened
<1> QED
  BY <1>1, <1>2 DEF i

BeginAlike(q, r, n) ==
    /\ Len(q) \in Nat /\ Len(r) \in Nat /\ n <= Len(q) /\ n <= Len(r)
    /\ \A i \in 1..n : q[i] = r[i]

LEMMA FlattenAgree ==
    ASSUME NEW q, NEW r, NEW t, NEW u, NEW n \in Nat \ {0},
           BeginAlike(q, r, n), Flattened(t, q), Flattened(u, r)
    PROVE  t[n] = u[n]
<1> DEFINE S == {k \in Nat : k # 0 => t[k] = u[k]}
<1>1. 0 \in S
  OBVIOUS
<1>2. ASSUME NEW k \in 0..(n - 1), k \in S PROVE k + 1 \in S
  <2>1. k \in Nat /\ k + 1 <= Len(q) /\ k + 1 <= Len(r) /\ q[k + 1] = r[k + 1]
        /\ Len(q) \in Nat /\ Len(r) \in Nat
    BY DEF BeginAlike
  <2>2. t[k + 1] = IF k = 0 THEN q[k + 1] ELSE t[k] \o q[k + 1]
    BY <2>1, FlattenStep
  <2>3. u[k + 1] = IF k = 0 THEN r[k + 1] ELSE u[k] \o r[k + 1]
    BY <2>1, FlattenStep
  <2>4. t[k + 1] = u[k + 1]
    BY <1>2, <2>1, <2>2, <2>3
  <2> QED
    BY <2>1, <2>4
<1>3. n \in S
  <2> HIDE DEF S
  <2>1. 0..n \subseteq S
    BY <1>1, <1>2, Counting
  <2> QED
    BY <2>1
<1> QED
  BY <1>3

LEMMA FlattenEmpty == FlattenSeq(<<>>) = <<>>
BY DEF FlattenSeq

\* The sets of all lists of something.
Lists(L) == \E S : L = Seq(S)

\* A list behind the others comes last.
LEMMA FlattenLonger ==
    ASSUME NEW L, Lists(L), NEW q \in Seq(L), NEW e \in L
    PROVE  FlattenSeq(Append(q, e)) = FlattenSeq(q) \o e
<1> DEFINE r == Append(q, e)
           n == Len(q)
<1>1. /\ n \in Nat /\ Len(r) = n + 1 /\ r[n + 1] = e
      /\ \A i \in 1..n : q[i] = r[i]
  OBVIOUS
<1> HIDE DEF r
<1>2. PICK u : Flattened(u, r) /\ FlattenSeq(r) = u[n + 1]
  BY <1>1, FlattenExists
<1>3. u[n + 1] = IF n = 0 THEN e ELSE u[n] \o e
  BY <1>1, <1>2, FlattenStep
<1>4. CASE n = 0
  <2>1. q = <<>>
    BY <1>4
  <2>2. FlattenSeq(q) \o e = e
    BY <2>1, FlattenEmpty, ConcatEmptySeq DEF Lists
  <2> QED
    BY <1>2, <1>3, <1>4, <2>2 DEF r
<1>5. CASE n # 0
  <2> HIDE DEF n
  <2>1. PICK t : Flattened(t, q) /\ FlattenSeq(q) = t[n]
    BY <1>1, <1>5, FlattenExists DEF n
  <2>2. n \in Nat \ {0} /\ Len(q) = n /\ n <= Len(q) /\ n <= Len(r) /\ Len(r) \in Nat
    BY <1>1, <1>5 DEF n
  <2>3. BeginAlike(q, r, n)
    BY <1>1, <2>2 DEF BeginAlike
  <2>4. Flattened(t, q) /\ Flattened(u, r)
    BY <1>2, <2>1
  <2>5. t[n] = u[n]
    BY <2>2, <2>3, <2>4, FlattenAgree
  <2> QED
    BY <1>2, <1>3, <1>5, <2>1, <2>5 DEF r
<1> QED
  BY <1>4, <1>5

LEMMA FlattenType ==
    ASSUME NEW L, Lists(L), NEW q \in Seq(L)
    PROVE  FlattenSeq(q) \in L
<1> DEFINE n == Len(q)
           Fore(k) == SubSeq(q, 1, k)
           T == {k \in Nat : FlattenSeq(Fore(k)) \in L}
<1>1. 0 \in T
  <2>1. Fore(0) = <<>> /\ <<>> \in L
    BY SubSeqEmpty DEF Lists
  <2>2. FlattenSeq(Fore(0)) \in L
    BY <2>1, FlattenEmpty
  <2> HIDE DEF Fore
  <2> QED
    BY <2>2
<1>2. ASSUME NEW k \in 0..(n - 1), k \in T PROVE k + 1 \in T
  <2>1. PICK f, x : f = Fore(k) /\ x = q[k + 1]
    OBVIOUS
  <2>2. f \in Seq(L) /\ x \in L /\ Fore(k + 1) = Append(f, x)
    BY <2>1, PrefixGrows
  <2>3. FlattenSeq(f) \in L /\ k + 1 \in Nat
    BY <1>2, <2>1
  <2>4. FlattenSeq(Append(f, x)) = FlattenSeq(f) \o x
    BY <2>2, FlattenLonger
  <2>5. FlattenSeq(f) \o x \in L
    BY <2>2, <2>3, ConcatProperties DEF Lists
  <2> HIDE DEF Fore
  <2> QED
    BY <2>2, <2>3, <2>4, <2>5
<1>3. n \in T
  <2>1. n \in Nat
    OBVIOUS
  <2> HIDE DEF T, n
  <2>2. 0..n \subseteq T
    BY <1>1, <1>2, <2>1, Counting
  <2> QED
    BY <2>1, <2>2
<1>4. Fore(n) = q
  BY SubSeqFull
<1> HIDE DEF Fore, n
<1> QED
  BY <1>3, <1>4

\* A list before the others comes first: it stays so when the others become more.
LEMMA FirstStaysFirst ==
    ASSUME NEW L, Lists(L), NEW one \in Seq(L), NEW e \in L, NEW q \in Seq(L), NEW x \in L,
           FlattenSeq(one \o q) = e \o FlattenSeq(q)
    PROVE  FlattenSeq(one \o Append(q, x)) = e \o FlattenSeq(Append(q, x))
<1>1. one \o Append(q, x) = Append(one \o q, x) /\ one \o q \in Seq(L)
  BY JoinLonger, ConcatProperties
<1>2. FlattenSeq(q) \in L
  BY FlattenType
<1>3. FlattenSeq(Append(one \o q, x)) = FlattenSeq(one \o q) \o x
  BY <1>1, FlattenLonger
<1>4. FlattenSeq(Append(q, x)) = FlattenSeq(q) \o x
  BY FlattenLonger
<1>5. (e \o FlattenSeq(q)) \o x = e \o (FlattenSeq(q) \o x)
  <2>1. PICK S, y : L = Seq(S) /\ y = FlattenSeq(q)
    BY DEF Lists
  <2>2. e \in Seq(S) /\ y \in Seq(S) /\ x \in Seq(S)
    BY <1>2, <2>1
  <2>3. (e \o y) \o x = e \o (y \o x)
    BY ONLY <2>2, ConcatAssociative, SMTT(30)
  <2> QED
    BY <2>1, <2>3
<1> QED
  BY <1>1, <1>3, <1>4, <1>5

LEMMA FlattenFirst ==
    ASSUME NEW L, Lists(L), NEW e \in L, NEW q \in Seq(L)
    PROVE  FlattenSeq(<<e>> \o q) = e \o FlattenSeq(q)
<1> DEFINE n == Len(q)
           one == <<e>>
           Fore(k) == SubSeq(q, 1, k)
           T == {k \in Nat : FlattenSeq(one \o Fore(k)) = e \o FlattenSeq(Fore(k))}
<1>1. one \in Seq(L)
  OBVIOUS
<1>2. 0 \in T
  <2>1. Fore(0) = <<>>
    BY SubSeqEmpty
  <2>2. one \o <<>> = one /\ one = Append(<<>>, e) /\ <<>> \in Seq(L)
    OBVIOUS
  <2>3. FlattenSeq(Append(<<>>, e)) = <<>> \o e
    BY <2>2, FlattenEmpty, FlattenLonger
  <2>4. <<>> \o e = e /\ e \o <<>> = e
    BY ConcatEmptySeq DEF Lists
  <2> HIDE DEF one, Fore
  <2> QED
    BY <2>1, <2>2, <2>3, <2>4, FlattenEmpty
<1>3. ASSUME NEW k \in 0..(n - 1), k \in T PROVE k + 1 \in T
  <2>1. PICK f, x : f = Fore(k) /\ x = q[k + 1]
    OBVIOUS
  <2>2. f \in Seq(L) /\ x \in L /\ Fore(k + 1) = Append(f, x) /\ k + 1 \in Nat
    BY <2>1, PrefixGrows
  <2>3. FlattenSeq(one \o f) = e \o FlattenSeq(f)
    BY <1>3, <2>1
  <2> HIDE DEF one, Fore, n
  <2>4. FlattenSeq(one \o Append(f, x)) = e \o FlattenSeq(Append(f, x))
    <3> HIDE DEF T
    <3> QED
      BY <1>1, <2>2, <2>3, FirstStaysFirst
  <2> QED
    BY <2>2, <2>4
<1>4. n \in T
  <2>1. n \in Nat
    OBVIOUS
  <2> HIDE DEF T, n
  <2>2. 0..n \subseteq T
    BY <1>2, <1>3, <2>1, Counting
  <2> QED
    BY <2>1, <2>2
<1>5. Fore(n) = q
  BY SubSeqFull
<1> HIDE DEF Fore, n
<1> QED
  BY <1>4, <1>5

\* Lists of one length, one after the other: where their elements are.
EachLong(q, k) == \A i \in 1..Len(q) : Len(q[i]) = k
Blockwise(t, q, k) ==
    /\ Len(t) = Len(q) * k
    /\ \A i \in 1..Len(q), j \in 1..k : t[(i - 1) * k + j] = q[i][j]

LEMMA FlattenBlocks ==
    ASSUME NEW L, Lists(L), NEW q \in Seq(L), NEW k \in Nat, EachLong(q, k)
    PROVE  Blockwise(FlattenSeq(q), q, k)
<1> DEFINE n == Len(q)
           Fore(m) == SubSeq(q, 1, m)
           InPlace(f, m) == /\ Len(f) = m * k
                            /\ \A i \in 1..m, j \in 1..k : f[(i - 1) * k + j] = q[i][j]
           T == {m \in Nat : InPlace(FlattenSeq(Fore(m)), m)}
<1>1. n \in Nat
  OBVIOUS
<1>2. 0 \in T
  <2>1. Fore(0) = <<>>
    BY SubSeqEmpty
  <2> HIDE DEF Fore
  <2>2. FlattenSeq(Fore(0)) = <<>>
    BY <2>1, FlattenEmpty
  <2>3. 0 * k = 0
    OBVIOUS
  <2>4. InPlace(<<>>, 0)
    BY <2>3
  <2> HIDE DEF InPlace
  <2> QED
    BY <2>2, <2>4
<1>3. ASSUME NEW m \in 0..(n - 1), m \in T PROVE m + 1 \in T
  <2>1. PICK f, x : f = Fore(m) /\ x = q[m + 1]
    OBVIOUS
  <2>2. f \in Seq(L) /\ x \in L /\ Fore(m + 1) = Append(f, x) /\ m \in Nat /\ m + 1 \in Nat
    BY <2>1, PrefixGrows
  <2>3. Len(x) = k
    BY <1>1, <2>1 DEF EachLong
  <2>4. PICK front, joined : front = FlattenSeq(f) /\ joined = FlattenSeq(Append(f, x))
    OBVIOUS
  <2>5. joined = front \o x /\ front \in L
    BY <2>2, <2>4, FlattenLonger, FlattenType
  <2>6. InPlace(front, m)
    BY <1>3, <2>1, <2>4
  <2>7. /\ Len(joined) = m * k + k
        /\ \A p \in 1..(m * k + k) : joined[p] = IF p <= m * k THEN front[p] ELSE x[p - m * k]
    <3>1. /\ Len(joined) = Len(front) + Len(x)
          /\ \A p \in 1..(Len(front) + Len(x)) :
               joined[p] = IF p <= Len(front) THEN front[p] ELSE x[p - Len(front)]
      BY <2>2, <2>5, ConcatProperties DEF Lists
    <3> QED
      BY <2>3, <2>6, <3>1
  <2>8. m * k \in Nat /\ (m + 1) * k = m * k + k
    BY <2>2
  <2>9. ASSUME NEW i \in 1..(m + 1), NEW j \in 1..k
        PROVE  joined[(i - 1) * k + j] = q[i][j]
    <3>1. CASE i = m + 1
      <4>1. (i - 1) * k + j = m * k + j
        BY <3>1
      <4>2. m * k + j \in 1..(m * k + k) /\ ~(m * k + j <= m * k) /\ (m * k + j) - m * k = j
        BY <2>8
      <4>3. joined[m * k + j] = x[j]
        BY <2>7, <4>2
      <4> QED
        BY <2>1, <3>1, <4>1, <4>3
    <3>2. CASE i # m + 1
      <4>1. i \in 1..m /\ i - 1 \in Nat /\ i \in Nat /\ j \in 1..k
        BY <3>2
      <4>2. PICK p : p = (i - 1) * k + j
        OBVIOUS
      <4>3. (i - 1) * k \in Nat /\ i * k = (i - 1) * k + k /\ i * k <= m * k
        BY <2>2, <4>1, TimesMonotone
      <4>4. p \in 1..(m * k + k) /\ p <= m * k
        BY <2>8, <4>2, <4>3
      <4>5. joined[p] = front[p]
        BY <2>7, <4>4
      <4>6. front[p] = q[i][j]
        BY <2>6, <4>1, <4>2
      <4> QED
        BY <4>2, <4>5, <4>6
    <3> QED
      BY <3>1, <3>2
  <2>10. InPlace(joined, m + 1)
    BY <2>7, <2>8, <2>9
  <2> HIDE DEF Fore, InPlace
  <2> QED
    BY <2>2, <2>4, <2>10
<1>4. n \in T
  <2> HIDE DEF T, n
  <2>1. 0..n \subseteq T
    BY <1>1, <1>2, <1>3, Counting
  <2> QED
    BY <1>1, <2>1
<1>5. Fore(n) = q
  BY SubSeqFull
<1>6. InPlace(FlattenSeq(q), n)
  <2> HIDE DEF Fore, InPlace
  <2> QED
    BY <1>4, <1>5
<1> QED
  BY <1>6 DEF Blockwise

-----------------------------------------------------------------------------
(* Sums: what MapThenSumSet computes, as a function t from the subsets of S to *)
(* their totals of f, and that the order of the summands does not matter.      *)

Chosen(S) == CHOOSE x \in S : TRUE
WithoutChosen(S) == S \ {Chosen(S)}

\* t has the totals of f for the sets of D, a downward closed set of sets.
Totals(t, f, D) == t = [u \in D |-> IF u = {} THEN 0 ELSE f[Chosen(u)] + t[WithoutChosen(u)]]
IsTotal(t, f, S) == Totals(t, f, SUBSET S)

LEMMA NotEmpty ==
    ASSUME NEW u, NEW n \in Nat, Cardinality(u) = n + 1
    PROVE  u # {}
<1>1. Cardinality({}) = 0
  BY FS_EmptySet
<1> QED
  BY <1>1

LEMMA ChosenOne ==
    ASSUME NEW u, IsFiniteSet(u), u # {}
    PROVE  /\ Chosen(u) \in u /\ WithoutChosen(u) \subseteq u
           /\ IsFiniteSet(WithoutChosen(u))
           /\ Cardinality(u) \in Nat \ {0}
           /\ Cardinality(WithoutChosen(u)) = Cardinality(u) - 1
<1>1. Chosen(u) \in u
  BY Zenon DEF Chosen
<1>2. /\ IsFiniteSet(u \ {Chosen(u)})
      /\ Cardinality(u \ {Chosen(u)}) = Cardinality(u) - 1
  BY <1>1, FS_RemoveElement
<1>3. Cardinality(u) \in Nat /\ Cardinality(u) # 0
  BY FS_CardinalityType, FS_EmptySet
<1> QED
  BY <1>1, <1>2, <1>3 DEF WithoutChosen

LEMMA TotalExists ==
    ASSUME NEW S, IsFiniteSet(S), NEW f
    PROVE  \E t : IsTotal(t, f, S)
<1> DEFINE Small(n) == {u \in SUBSET S : Cardinality(u) <= n}
           Reached == {n \in Nat : \E t : Totals(t, f, Small(n))}
           size == Cardinality(S)
<1>1. size \in Nat
  BY FS_CardinalityType
<1>2. \A u \in SUBSET S : IsFiniteSet(u) /\ Cardinality(u) \in Nat
  BY FS_Subset, FS_CardinalityType
<1>3. 0 \in Reached
  <2> DEFINE t == [u \in Small(0) |-> 0]
  <2>1. \A u \in Small(0) : u = {}
    <3> SUFFICES ASSUME NEW u \in Small(0) PROVE u = {}
      OBVIOUS
    <3>1. IsFiniteSet(u) /\ Cardinality(u) = 0
      BY <1>2
    <3> QED
      BY <3>1, FS_EmptySet
  <2>2. Totals(t, f, Small(0))
    BY <2>1 DEF Totals
  <2> QED
    BY <2>2
<1>4. ASSUME NEW n \in Nat, n \in Reached PROVE n + 1 \in Reached
  <2>1. PICK t : Totals(t, f, Small(n))
    BY <1>4
  <2> DEFINE r == [u \in Small(n + 1) |->
                     IF u = {} THEN 0 ELSE f[Chosen(u)] + t[WithoutChosen(u)]]
  <2>2. \A u \in Small(n) : u \in Small(n + 1) /\ r[u] = t[u]
    BY <1>2, <2>1 DEF Totals
  <2>3. \A u \in Small(n + 1) : u # {} => WithoutChosen(u) \in Small(n)
    <3> SUFFICES ASSUME NEW u \in Small(n + 1), u # {} PROVE WithoutChosen(u) \in Small(n)
      OBVIOUS
    <3>1. IsFiniteSet(u) /\ Cardinality(u) <= n + 1 /\ u \in SUBSET S
      BY <1>2
    <3>2. WithoutChosen(u) \subseteq u /\ Cardinality(WithoutChosen(u)) = Cardinality(u) - 1
          /\ Cardinality(u) \in Nat
      BY <3>1, ChosenOne
    <3> QED
      BY <3>1, <3>2
  <2> HIDE DEF Small
  <2>4. Totals(r, f, Small(n + 1))
    BY <2>2, <2>3 DEF Totals
  <2> HIDE DEF r
  <2> QED
    BY <2>4
<1> HIDE DEF Reached
<1>5. size \in Reached
  <2>1. \A k \in 0..(size - 1) : k \in Reached => k + 1 \in Reached
    BY <1>1, <1>4
  <2>2. 0..size \subseteq Reached
    BY <1>1, <1>3, <2>1, Counting
  <2> QED
    BY <1>1, <2>2
<1>6. Small(size) = SUBSET S
  <2>1. \A u \in SUBSET S : Cardinality(u) <= size
    BY FS_Subset
  <2> QED
    BY <2>1
<1> HIDE DEF Small
<1> QED
  BY <1>5, <1>6 DEF Reached, IsTotal

\* Two totals agree on a set on which their summands do.
LEMMA TotalAgree ==
    ASSUME NEW A, NEW B, NEW f, NEW g, NEW t, NEW r, IsTotal(t, f, A), IsTotal(r, g, B),
           NEW v, IsFiniteSet(v), v \subseteq A, v \subseteq B, \A x \in v : f[x] = g[x]
    PROVE  t[v] = r[v]
<1> DEFINE Agreed == {n \in Nat : \A u \in SUBSET v : Cardinality(u) = n => t[u] = r[u]}
           size == Cardinality(v)
<1>1. size \in Nat
  BY FS_CardinalityType
<1>2. \A u \in SUBSET v : IsFiniteSet(u) /\ Cardinality(u) \in Nat
  BY FS_Subset, FS_CardinalityType
<1>3. 0 \in Agreed
  <2> SUFFICES ASSUME NEW u \in SUBSET v, Cardinality(u) = 0 PROVE t[u] = r[u]
    OBVIOUS
  <2>1. u = {}
    BY <1>2, FS_EmptySet
  <2> QED
    BY <2>1 DEF IsTotal, Totals
<1>4. ASSUME NEW n \in Nat, n \in Agreed PROVE n + 1 \in Agreed
  <2> SUFFICES ASSUME NEW u \in SUBSET v, Cardinality(u) = n + 1 PROVE t[u] = r[u]
    OBVIOUS
  <2>1. u # {}
    BY NotEmpty
  <2>2. /\ Chosen(u) \in u /\ WithoutChosen(u) \in SUBSET v
        /\ Cardinality(WithoutChosen(u)) = (n + 1) - 1
    BY <1>2, <2>1, ChosenOne
  <2>3. t[WithoutChosen(u)] = r[WithoutChosen(u)]
    <3>1. Cardinality(WithoutChosen(u)) = n
      BY <2>2
    <3> QED
      BY <1>4, <2>2, <3>1
  <2>4. t[u] = f[Chosen(u)] + t[WithoutChosen(u)] /\ r[u] = g[Chosen(u)] + r[WithoutChosen(u)]
    <3>1. u \in SUBSET A /\ u \in SUBSET B
      OBVIOUS
    <3> QED
      BY <2>1, <3>1 DEF IsTotal, Totals
  <2> QED
    BY <2>2, <2>3, <2>4
<1> HIDE DEF Agreed
<1>5. size \in Agreed
  <2>1. \A k \in 0..(size - 1) : k \in Agreed => k + 1 \in Agreed
    BY <1>1, <1>4
  <2>2. 0..size \subseteq Agreed
    BY <1>1, <1>3, <2>1, Counting
  <2> QED
    BY <1>1, <2>2
<1> QED
  BY <1>5 DEF Agreed

LEMMA TotalIsNat ==
    ASSUME NEW S, IsFiniteSet(S), NEW f \in [S -> Nat], NEW t, IsTotal(t, f, S)
    PROVE  t[{}] = 0 /\ \A u \in SUBSET S : t[u] \in Nat
<1> DEFINE Typed == {n \in Nat : \A u \in SUBSET S : Cardinality(u) = n => t[u] \in Nat}
           size == Cardinality(S)
<1>1. size \in Nat
  BY FS_CardinalityType
<1>2. \A u \in SUBSET S : IsFiniteSet(u) /\ Cardinality(u) \in Nat
  BY FS_Subset, FS_CardinalityType
<1>3. t[{}] = 0
  BY DEF IsTotal, Totals
<1>4. 0 \in Typed
  <2> SUFFICES ASSUME NEW u \in SUBSET S, Cardinality(u) = 0 PROVE t[u] \in Nat
    OBVIOUS
  <2>1. u = {}
    BY <1>2, FS_EmptySet
  <2> QED
    BY <1>3, <2>1
<1>5. ASSUME NEW n \in Nat, n \in Typed PROVE n + 1 \in Typed
  <2> SUFFICES ASSUME NEW u \in SUBSET S, Cardinality(u) = n + 1 PROVE t[u] \in Nat
    OBVIOUS
  <2>1. u # {}
    BY NotEmpty
  <2>2. /\ Chosen(u) \in u /\ WithoutChosen(u) \in SUBSET S
        /\ Cardinality(WithoutChosen(u)) = (n + 1) - 1
    BY <1>2, <2>1, ChosenOne
  <2>3. t[WithoutChosen(u)] \in Nat
    <3>1. Cardinality(WithoutChosen(u)) = n
      BY <2>2
    <3> QED
      BY <1>5, <2>2, <3>1
  <2>4. t[u] = f[Chosen(u)] + t[WithoutChosen(u)]
    BY <2>1 DEF IsTotal, Totals
  <2> QED
    BY <2>2, <2>3, <2>4
<1> HIDE DEF Typed
<1>6. ASSUME NEW u \in SUBSET S PROVE t[u] \in Nat
  <2>1. \A k \in 0..(size - 1) : k \in Typed => k + 1 \in Typed
    BY <1>1, <1>5
  <2>2. 0..size \subseteq Typed
    BY <1>1, <1>4, <2>1, Counting
  <2>3. Cardinality(u) \in 0..size
    BY <1>1, <1>2, FS_Subset
  <2> QED
    BY <2>2, <2>3 DEF Typed
<1> QED
  BY <1>3, <1>6

\* Any element of a set may be taken out first.
LEMMA TotalTakes ==
    ASSUME NEW S, IsFiniteSet(S), NEW f \in [S -> Nat], NEW t, IsTotal(t, f, S),
           NEW v \in SUBSET S, NEW y \in v
    PROVE  t[v] = f[y] + t[v \ {y}]
<1> DEFINE Good(u) == \A x \in u : t[u] = f[x] + t[u \ {x}]
           Fine == {n \in Nat : \A u \in SUBSET S : Cardinality(u) = n => Good(u)}
           size == Cardinality(S)
<1>1. size \in Nat
  BY FS_CardinalityType
<1>2. \A u \in SUBSET S : IsFiniteSet(u) /\ Cardinality(u) \in Nat
  BY FS_Subset, FS_CardinalityType
<1>3. \A u \in SUBSET S : t[u] \in Nat
  BY TotalIsNat
<1>4. 0 \in Fine
  <2> SUFFICES ASSUME NEW u \in SUBSET S, Cardinality(u) = 0 PROVE Good(u)
    OBVIOUS
  <2>1. u = {}
    BY <1>2, FS_EmptySet
  <2> QED
    BY <2>1
<1>5. ASSUME NEW n \in Nat, n \in Fine PROVE n + 1 \in Fine
  <2> SUFFICES ASSUME NEW u \in SUBSET S, Cardinality(u) = n + 1, NEW x \in u
               PROVE  t[u] = f[x] + t[u \ {x}]
    OBVIOUS
  <2>1. PICK c : c = Chosen(u)
    OBVIOUS
  <2>2. c \in u /\ WithoutChosen(u) = u \ {c} /\ Cardinality(u \ {c}) = (n + 1) - 1
    BY <1>2, <2>1, ChosenOne DEF WithoutChosen
  <2>3. t[u] = f[c] + t[u \ {c}]
    BY <2>1, <2>2 DEF IsTotal, Totals
  <2>4. CASE x = c
    BY <2>3, <2>4
  <2>5. CASE x # c
    <3> DEFINE rest == (u \ {c}) \ {x}
    <3>1. Good(u \ {c})
      <4>1. Cardinality(u \ {c}) = n /\ u \ {c} \in SUBSET S
        BY <2>2
      <4> HIDE DEF Good
      <4> QED
        BY <1>5, <4>1
    <3>2. Good(u \ {x})
      <4>1. Cardinality(u \ {x}) = (n + 1) - 1
        BY <1>2, FS_RemoveElement
      <4>2. Cardinality(u \ {x}) = n /\ u \ {x} \in SUBSET S
        BY <4>1
      <4> HIDE DEF Good
      <4> QED
        BY <1>5, <4>2
    <3>3. t[u \ {c}] = f[x] + t[rest]
      BY <2>5, <3>1
    <3>4. rest = (u \ {x}) \ {c} /\ c \in u \ {x}
      BY <2>2, <2>5
    <3>5. t[u \ {x}] = f[c] + t[rest]
      BY <3>2, <3>4
    <3>6. f[c] \in Nat /\ f[x] \in Nat /\ t[rest] \in Nat
      BY <1>3, <2>2
    <3> HIDE DEF rest, Good
    <3> QED
      BY <2>3, <3>3, <3>5, <3>6
  <2> QED
    BY <2>4, <2>5
<1> HIDE DEF Fine
<1>6. ASSUME NEW u \in SUBSET S PROVE Good(u)
  <2>1. \A k \in 0..(size - 1) : k \in Fine => k + 1 \in Fine
    BY <1>1, <1>5
  <2>2. 0..size \subseteq Fine
    BY <1>1, <1>4, <2>1, Counting
  <2>3. Cardinality(u) \in 0..size
    BY <1>1, <1>2, FS_Subset
  <2> HIDE DEF Good
  <2> QED
    BY <2>2, <2>3 DEF Fine
<1> QED
  BY <1>6

\* When one summand changes, the total changes by as much.
LEMMA TotalChanges ==
    ASSUME NEW S, IsFiniteSet(S), NEW f \in [S -> Nat], NEW g \in [S -> Nat],
           NEW t, IsTotal(t, f, S), NEW r, IsTotal(r, g, S),
           NEW s \in S, \A x \in S \ {s} : g[x] = f[x]
    PROVE  /\ t[S] \in Nat /\ r[S] \in Nat /\ f[s] \in Nat /\ g[s] \in Nat
           /\ r[S] = t[S] + (g[s] - f[s])
<1> DEFINE others == S \ {s}
<1>1. t[S] = f[s] + t[others] /\ r[S] = g[s] + r[others]
  BY TotalTakes
<1>2. t[others] = r[others]
  <2>1. IsFiniteSet(others)
    BY FS_RemoveElement
  <2>2. \A x \in others : f[x] = g[x]
    OBVIOUS
  <2>3. others \subseteq S
    OBVIOUS
  <2> HIDE DEF others
  <2> QED
    BY <2>1, <2>2, <2>3, TotalAgree
<1>3. t[S] \in Nat /\ r[S] \in Nat /\ t[others] \in Nat
  BY TotalIsNat
<1> QED
  BY <1>1, <1>2, <1>3

=============================================================================
