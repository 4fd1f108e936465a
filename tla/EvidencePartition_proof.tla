----------------------- MODULE EvidencePartition_proof -----------------------
(***************************************************************************)
(* Theorems about EvidencePartition, for any rows and documents and any    *)
(* limits of a batch of at least two: the search of partition_evidence     *)
(* always finds a partition, and the one it finds is legal, the smallest,  *)
(* and keeps documents whole where it can.                                 *)
(*                                                                         *)
(* The first parts are about the operators the search is made of: what     *)
(* FlattenSeq, Ascending and Least compute.  They are defined by           *)
(* recursion, by counting and by choice, so what is true of them is proved *)
(* by induction, on a set of numbers (UpTo), of sequences (Appending) or   *)
(* of finite sets (LeastExists).  Then come the parts of the search: the   *)
(* groups, the batches of cuts, the best cuts, the first count and the     *)
(* last, the split.  The invariant PartInv and the theorems are at the     *)
(* end.                                                                    *)
(***************************************************************************)
EXTENDS EvidencePartition, FiniteSetTheorems, SequenceTheorems, TLAPS

-----------------------------------------------------------------------------
(* Induction *)

\* A set of numbers with 0 and the successor of each of its members up to n
\* has all numbers up to n.
LEMMA UpTo ==
    ASSUME NEW n \in Nat, NEW Good, 0 \in Good,
           \A k \in 0..(n - 1) : k \in Good => k + 1 \in Good
    PROVE  \A k \in 0..n : k \in Good
<1> SUFFICES ASSUME \E k \in 0..n : k \notin Good PROVE FALSE
  OBVIOUS
<1> DEFINE Bad == {k \in 0..n : k \notin Good}
           R == OpToRel(<, Nat)
<1>1. Bad \subseteq Nat /\ Bad # {}
  OBVIOUS
<1>2. \A a, b \in Nat : a < b => <<a, b>> \in R
  BY SMT DEF OpToRel
<1>3. PICK k \in Bad : \A m \in Bad : <<m, k>> \notin R
  <2>1. IsWellFoundedOn(R, Nat)
    BY NatLessThanWellFounded
  <2> HIDE DEF R, Bad
  <2> QED BY Zenon, <1>1, <2>1, WFMin
<1>4. k - 1 \notin Bad
  <2>1. SUFFICES ASSUME k - 1 \in Bad PROVE FALSE
    OBVIOUS
  <2>2. k - 1 \in Nat /\ k \in Nat /\ k - 1 < k
    BY <2>1
  <2>3. <<k - 1, k>> \in R
    BY <1>2, <2>2
  <2> HIDE DEF R
  <2> QED BY <1>3, <2>1, <2>3
<1>5. k # 0
  OBVIOUS
<1>6. k - 1 \in 0..(n - 1) /\ (k - 1) + 1 = k
  BY <1>5
<1> QED BY <1>4, <1>6

-----------------------------------------------------------------------------
(* Concatenation *)

\* The function that concatenates the first i sequences.
Flattens(f, seqs) ==
    f = [i \in 1..Len(seqs) |-> IF i = 1 THEN seqs[i] ELSE f[i - 1] \o seqs[i]]

\* What the concatenating function is at i.
LEMMA FlattensStep ==
    ASSUME NEW f, NEW s, Flattens(f, s), NEW i \in 1..Len(s)
    PROVE  f[i] = IF i = 1 THEN s[i] ELSE f[i - 1] \o s[i]
<1> DEFINE value(j) == IF j = 1 THEN s[j] ELSE f[j - 1] \o s[j]
           whole == [j \in 1..Len(s) |-> value(j)]
<1>1. f = whole
  BY Zenon DEF Flattens
<1>2. whole[i] = value(i)
  <2> HIDE DEF value
  <2> QED OBVIOUS
<1>3. f[i] = value(i)
  <2> HIDE DEF value, whole
  <2> QED BY <1>1, <1>2
<1> QED BY <1>3

\* Functions agree up to a number; one sequence starts with the other one.
Agree(f, g, n) == \A i \in 1..n : f[i] = g[i]
StartOf(s, t) == Len(s) \in Nat /\ Len(t) \in Nat /\ Len(s) <= Len(t) /\ Agree(s, t, Len(s))

\* Concatenations of one sequence of sequences agree with those of a longer one.
LEMMA FlattensAgree ==
    ASSUME NEW s, NEW t, StartOf(s, t), NEW f, NEW g, Flattens(f, s), Flattens(g, t)
    PROVE  Agree(f, g, Len(s))
<1> DEFINE Good == {k \in Nat : k = 0 \/ f[k] = g[k]}
<1>1. Len(s) \in Nat /\ Len(t) \in Nat /\ Len(s) <= Len(t) /\ \A i \in 1..Len(s) : s[i] = t[i]
  BY DEF StartOf, Agree
<1>2. ASSUME NEW k \in 0..(Len(s) - 1), k \in Good PROVE k + 1 \in Good
  <2>1. k + 1 \in 1..Len(s) /\ k + 1 \in 1..Len(t)
    BY <1>1
  <2>2. f[k + 1] = IF k + 1 = 1 THEN s[k + 1] ELSE f[k + 1 - 1] \o s[k + 1]
    BY <2>1, FlattensStep
  <2>3. g[k + 1] = IF k + 1 = 1 THEN t[k + 1] ELSE g[k + 1 - 1] \o t[k + 1]
    BY <2>1, FlattensStep
  <2>4. CASE k = 0
    <3>1. s[k + 1] = t[k + 1]
      BY <1>1, <2>1
    <3> QED BY <2>2, <2>3, <2>4, <3>1
  <2>5. CASE k # 0
    <3>1. f[k] = g[k] /\ k + 1 # 1 /\ k + 1 - 1 = k /\ k + 1 \in Nat
      BY <1>2, <2>5
    <3>2. s[k + 1] = t[k + 1]
      BY <1>1, <2>1
    <3>3. f[k + 1] = g[k + 1]
      BY <2>2, <2>3, <3>1, <3>2
    <3> QED BY <3>1, <3>3
  <2> QED BY <2>4, <2>5
<1>3. 0 \in Good
  OBVIOUS
<1>4. \A k \in 0..Len(s) : k \in Good
  <2> HIDE DEF Good
  <2> QED BY <1>1, <1>2, <1>3, UpTo
<1> QED BY <1>1, <1>4 DEF Agree

\* Every sequence of sequences has such a function.
LEMMA FlattensExists ==
    ASSUME NEW S, NEW s \in Seq(Seq(S))
    PROVE  \E f : Flattens(f, s) /\ f \in [1..Len(s) -> Seq(S)]
<1> DEFINE step(f, i) == IF i = 1 THEN s[i] ELSE f[i - 1] \o s[i]
           Good == {k \in Nat : \E f \in [1..k -> Seq(S)] : \A i \in 1..k : f[i] = step(f, i)}
<1>1. Len(s) \in Nat
  OBVIOUS
<1>2. 0 \in Good
  <2>1. [i \in 1..0 |-> <<>>] \in [1..0 -> Seq(S)]
    OBVIOUS
  <2>2. \A i \in 1..0 : FALSE
    OBVIOUS
  <2>3. \E f \in [1..0 -> Seq(S)] : \A i \in 1..0 : f[i] = step(f, i)
    <3> HIDE DEF step
    <3> QED BY <2>1, <2>2
  <2> HIDE DEF step
  <2> QED BY <2>3
<1>3. ASSUME NEW k \in 0..(Len(s) - 1), k \in Good PROVE k + 1 \in Good
  <2>1. PICK f \in [1..k -> Seq(S)] : \A i \in 1..k : f[i] = step(f, i)
    BY <1>3
  <2> DEFINE g == [i \in 1..(k + 1) |-> IF i <= k THEN f[i] ELSE step(f, i)]
  <2>2. k + 1 \in 1..Len(s) /\ k \in Nat
    BY <1>1
  <2>3. step(f, k + 1) \in Seq(S)
    <3>1. s[k + 1] \in Seq(S)
      BY <2>2
    <3>2. CASE k = 0
      BY <3>1, <3>2
    <3>3. CASE k # 0
      <4>1. k + 1 # 1 /\ k + 1 - 1 = k /\ k \in 1..k
        BY <2>2, <3>3
      <4>2. f[k] \in Seq(S)
        BY <4>1
      <4>3. f[k] \o s[k + 1] \in Seq(S)
        BY <3>1, <4>2
      <4> QED BY <4>1, <4>3
    <3> QED BY <3>2, <3>3
  <2>4. ASSUME NEW i \in 1..(k + 1) PROVE g[i] \in Seq(S) /\ g[i] = step(g, i)
    <3>1. CASE i <= k
      <4>1. i \in 1..k /\ (i # 1 => i - 1 \in 1..k /\ i - 1 \in 1..(k + 1) /\ i - 1 <= k)
        BY <2>2, <3>1
      <4>2. g[i] = f[i] /\ (i # 1 => g[i - 1] = f[i - 1])
        BY <4>1
      <4>3. f[i] = step(f, i) /\ f[i] \in Seq(S)
        BY <2>1, <4>1
      <4>4. step(g, i) = step(f, i)
        <5> HIDE DEF g
        <5> QED BY <4>2
      <4> QED BY <4>2, <4>3, <4>4
    <3>2. CASE i > k
      <4>1. i = k + 1 /\ ~(k + 1 <= k) /\ (i # 1 => i - 1 = k /\ k \in 1..(k + 1) /\ k <= k)
        BY <2>2, <3>2
      <4>2. g[i] = step(f, k + 1) /\ (i # 1 => g[i - 1] = f[i - 1])
        BY <4>1
      <4>3. step(g, i) = step(f, i)
        <5> HIDE DEF g
        <5> QED BY <4>2
      <4> HIDE DEF g, step
      <4> QED BY <2>3, <4>1, <4>2, <4>3
    <3> QED BY <2>2, <3>1, <3>2
  <2>5. g \in [1..(k + 1) -> Seq(S)]
    <3> HIDE DEF step
    <3>1. \A i \in 1..(k + 1) : g[i] \in Seq(S)
      BY <2>4
    <3>2. g = [i \in 1..(k + 1) |-> g[i]]
      OBVIOUS
    <3> HIDE DEF g
    <3> QED BY <3>1, <3>2
  <2> HIDE DEF g
  <2>6. \E f2 \in [1..(k + 1) -> Seq(S)] : \A i \in 1..(k + 1) : f2[i] = step(f2, i)
    <3> HIDE DEF step
    <3> QED BY <2>4, <2>5
  <2>7. k + 1 \in Nat
    BY <2>2
  <2> HIDE DEF step
  <2> QED BY <2>6, <2>7
<1>4. Len(s) \in Good
  <2> HIDE DEF Good
  <2>1. \A k \in 0..Len(s) : k \in Good
    BY <1>1, <1>2, <1>3, UpTo
  <2> QED BY <1>1, <2>1
<1>5. PICK f \in [1..Len(s) -> Seq(S)] : \A i \in 1..Len(s) : f[i] = step(f, i)
  BY <1>4
<1>6. f = [i \in 1..Len(s) |-> step(f, i)]
  <2> HIDE DEF step
  <2> QED BY <1>5
<1>7. Flattens(f, s)
  BY <1>6 DEF Flattens
<1> QED BY <1>7

\* FlattenSeq is the last concatenation.
LEMMA FlattenIs ==
    ASSUME NEW S, NEW s \in Seq(Seq(S)), s # <<>>
    PROVE  \E f \in [1..Len(s) -> Seq(S)] : Flattens(f, s) /\ FlattenSeq(s) = f[Len(s)]
<1> DEFINE f == CHOOSE f : Flattens(f, s)
<1>1. PICK g : Flattens(g, s) /\ g \in [1..Len(s) -> Seq(S)]
  BY FlattensExists
<1>2. Flattens(f, s)
  BY <1>1, Zenon
<1>3. f = g
  <2>1. DOMAIN f = 1..Len(s) /\ f = [i \in 1..Len(s) |-> f[i]]
    <3> HIDE DEF f
    <3> QED BY <1>2 DEF Flattens
  <2> HIDE DEF f
  <2>2. \A i \in 1..Len(s) : f[i] = g[i]
    <3>1. StartOf(s, s)
      BY DEF StartOf, Agree
    <3>2. Agree(f, g, Len(s))
      BY Zenon, <1>1, <1>2, <3>1, FlattensAgree
    <3> QED BY <3>2 DEF Agree
  <2> QED BY <1>1, <2>1, <2>2
<1>4. FlattenSeq(s) = f[Len(s)]
  <2>1. Len(s) # 0
    OBVIOUS
  <2> QED BY Zenon, <2>1 DEF FlattenSeq, Flattens
<1> HIDE DEF f
<1> QED BY <1>1, <1>2, <1>3, <1>4

\* Nothing is concatenated to nothing.
LEMMA FlattenEmpty == FlattenSeq(<<>>) = <<>>
BY DEF FlattenSeq

\* One sequence more is concatenated to what was there.
LEMMA FlattenAppend ==
    ASSUME NEW S, NEW s \in Seq(Seq(S)), NEW x \in Seq(S)
    PROVE  FlattenSeq(Append(s, x)) = FlattenSeq(s) \o x /\ FlattenSeq(s) \in Seq(S)
<1> DEFINE t == Append(s, x)
<1>1. t \in Seq(Seq(S)) /\ t # <<>> /\ Len(t) = Len(s) + 1 /\ Len(s) \in Nat
      /\ t[Len(s) + 1] = x /\ \A i \in 1..Len(s) : t[i] = s[i]
  BY AppendProperties
<1> HIDE DEF t
<1>2. PICK g \in [1..Len(t) -> Seq(S)] : Flattens(g, t) /\ FlattenSeq(t) = g[Len(t)]
  BY <1>1, FlattenIs
<1>3. g[Len(t)] = IF Len(t) = 1 THEN t[Len(t)] ELSE g[Len(t) - 1] \o t[Len(t)]
  <2>1. Len(t) \in 1..Len(t)
    BY <1>1
  <2> QED BY Zenon, <1>2, <2>1, FlattensStep
<1>4. CASE s = <<>>
  <2>1. FlattenSeq(s) = <<>> /\ Len(t) = 1
    BY <1>1, <1>4, FlattenEmpty
  <2>2. FlattenSeq(t) = x
    BY <1>1, <1>2, <1>3, <2>1
  <2> QED BY <2>1, <2>2 DEF t
<1>5. CASE s # <<>>
  <2>1. PICK f \in [1..Len(s) -> Seq(S)] : Flattens(f, s) /\ FlattenSeq(s) = f[Len(s)]
    BY <1>5, FlattenIs
  <2>2. Len(s) \in 1..Len(s) /\ Len(t) # 1 /\ Len(t) - 1 = Len(s) /\ Len(s) <= Len(t)
    BY <1>1, <1>5
  <2>3. f[Len(s)] = g[Len(s)]
    <3>1. \A i \in 1..Len(s) : f[i] = g[i]
      <4>1. StartOf(s, t)
        BY <1>1, <2>2 DEF StartOf, Agree
      <4>2. Agree(f, g, Len(s))
        BY Zenon, <1>2, <2>1, <4>1, FlattensAgree
      <4> QED BY <4>2 DEF Agree
    <3> QED BY <2>2, <3>1
  <2>4. f[Len(s)] \in Seq(S)
    BY <2>2
  <2>5. FlattenSeq(t) = f[Len(s)] \o x
    BY <1>1, <1>2, <1>3, <2>2, <2>3
  <2> QED BY <2>1, <2>4, <2>5 DEF t
<1> QED BY <1>4, <1>5

\* Sequences over a set are concatenated to one over it.
LEMMA FlattenType ==
    ASSUME NEW S, NEW s \in Seq(Seq(S))
    PROVE  FlattenSeq(s) \in Seq(S)
BY FlattenAppend, EmptySeq

\* One sequence alone is its concatenation.
LEMMA FlattenOne ==
    ASSUME NEW S, NEW x \in Seq(S)
    PROVE  FlattenSeq(<<x>>) = x
<1>1. <<x>> = Append(<<>>, x)
  OBVIOUS
<1>2. FlattenSeq(Append(<<>>, x)) = FlattenSeq(<<>>) \o x
  <2>1. <<>> \in Seq(Seq(S))
    OBVIOUS
  <2> QED BY Zenon, <2>1, FlattenAppend
<1>3. <<>> \o x = x
  OBVIOUS
<1> QED BY <1>1, <1>2, <1>3, FlattenEmpty

\* The first sequences of a sequence.
LEMMA Firsts ==
    ASSUME NEW S, NEW s \in Seq(S), NEW k \in 0..Len(s)
    PROVE  /\ SubSeq(s, 1, k) \in Seq(S)
           /\ Len(SubSeq(s, 1, k)) = k
           /\ \A i \in 1..k : SubSeq(s, 1, k)[i] = s[i]
           /\ k < Len(s) => /\ s[k + 1] \in S
                            /\ SubSeq(s, 1, k + 1) = Append(SubSeq(s, 1, k), s[k + 1])
<1>1. Len(s) \in Nat /\ k \in Int /\ \A i \in 1..k : s[i] \in S
  OBVIOUS
<1>2. /\ SubSeq(s, 1, k) \in Seq(S)
      /\ Len(SubSeq(s, 1, k)) = IF 1 <= k THEN k - 1 + 1 ELSE 0
      /\ \A i \in 1..(k - 1 + 1) : SubSeq(s, 1, k)[i] = s[1 + i - 1]
  BY <1>1, SubSeqProperties
<1>3. ASSUME k < Len(s)
      PROVE  s[k + 1] \in S /\ SubSeq(s, 1, k + 1) = Append(SubSeq(s, 1, k), s[k + 1])
  <2>1. 1 \in 1..Len(s) /\ k + 1 \in 1..Len(s)
    BY <1>1, <1>3
  <2>2. SubSeq(s, 1, k + 1) = SubSeq(s, 1, k + 1 - 1) \o <<s[k + 1]>>
    BY <2>1, SubSeqRecursiveSecond
  <2>3. k + 1 - 1 = k /\ s[k + 1] \in S
    BY <1>1, <2>1
  <2> QED BY <1>2, <2>2, <2>3, AppendIsConcat
<1>4. Len(SubSeq(s, 1, k)) = k /\ \A i \in 1..k : SubSeq(s, 1, k)[i] = s[i]
  BY <1>1, <1>2
<1> QED BY <1>2, <1>3, <1>4

\* A set with the empty sequence and, with a sequence, every longer one by an
\* element has all sequences.
LEMMA Appending ==
    ASSUME NEW S, NEW Good, <<>> \in Good,
           \A v \in Seq(S), x \in S : v \in Good => Append(v, x) \in Good
    PROVE  \A s \in Seq(S) : s \in Good
<1> TAKE s \in Seq(S)
<1> DEFINE Numbers == {k \in Nat : SubSeq(s, 1, k) \in Good}
<1>1. Len(s) \in Nat
  OBVIOUS
<1>2. 0 \in Numbers
  <2>1. SubSeq(s, 1, 0) = <<>>
    BY SubSeqEmpty
  <2> QED BY <2>1
<1>3. ASSUME NEW k \in 0..(Len(s) - 1), k \in Numbers PROVE k + 1 \in Numbers
  <2>1. /\ SubSeq(s, 1, k) \in Seq(S) /\ s[k + 1] \in S /\ k + 1 \in Nat
        /\ SubSeq(s, 1, k + 1) = Append(SubSeq(s, 1, k), s[k + 1])
    BY <1>1, Firsts
  <2>2. SubSeq(s, 1, k) \in Good
    BY <1>3
  <2>3. Append(SubSeq(s, 1, k), s[k + 1]) \in Good
    BY ONLY <2>1, <2>2, \A v \in Seq(S), x \in S : v \in Good => Append(v, x) \in Good, Zenon
  <2> QED BY <2>1, <2>3
<1>4. \A k \in 0..Len(s) : k \in Numbers
  <2> HIDE DEF Numbers
  <2> QED BY <1>1, <1>2, <1>3, UpTo
<1>5. SubSeq(s, 1, Len(s)) = s
  BY SubSeqFull
<1>6. Len(s) \in Numbers
  BY <1>1, <1>4
<1> QED BY <1>5, <1>6

\* ... also where the sequences follow other ones.
LEMMA ConcatAppend ==
    ASSUME NEW S, NEW s \in Seq(Seq(S)), NEW u \in Seq(Seq(S)), NEW x \in Seq(S),
           FlattenSeq(s \o u) = FlattenSeq(s) \o FlattenSeq(u)
    PROVE  FlattenSeq(s \o Append(u, x)) = FlattenSeq(s) \o FlattenSeq(Append(u, x))
<1>1. s \o Append(u, x) = Append(s \o u, x) /\ s \o u \in Seq(Seq(S))
  OBVIOUS
<1>2. FlattenSeq(Append(s \o u, x)) = FlattenSeq(s \o u) \o x
  BY <1>1, FlattenAppend
<1>3. FlattenSeq(Append(u, x)) = FlattenSeq(u) \o x
      /\ FlattenSeq(u) \in Seq(S) /\ FlattenSeq(s) \in Seq(S)
  BY FlattenAppend
<1>4. (FlattenSeq(s) \o FlattenSeq(u)) \o x = FlattenSeq(s) \o (FlattenSeq(u) \o x)
  BY <1>3
<1> QED BY <1>1, <1>2, <1>3, <1>4

\* Concatenation distributes over concatenation.
LEMMA FlattenConcat ==
    ASSUME NEW S, NEW s \in Seq(Seq(S)), NEW t \in Seq(Seq(S))
    PROVE  FlattenSeq(s \o t) = FlattenSeq(s) \o FlattenSeq(t)
<1> DEFINE P(u) == FlattenSeq(s \o u) = FlattenSeq(s) \o FlattenSeq(u)
           Good == {u \in Seq(Seq(S)) : P(u)}
<1>1. <<>> \in Good
  <2>1. FlattenSeq(s) \in Seq(S)
    BY FlattenType
  <2>2. s \o <<>> = s /\ FlattenSeq(s) \o <<>> = FlattenSeq(s)
    BY <2>1, ConcatEmptySeq
  <2>3. P(<<>>)
    BY <2>2, FlattenEmpty
  <2>4. <<>> \in Seq(Seq(S))
    OBVIOUS
  <2> HIDE DEF P
  <2> QED BY <2>3, <2>4
<1>2. ASSUME NEW u \in Seq(Seq(S)), NEW x \in Seq(S), u \in Good PROVE Append(u, x) \in Good
  <2>1. P(u)
    BY <1>2
  <2>2. P(Append(u, x))
    BY ONLY <2>1, ConcatAppend
  <2>3. Append(u, x) \in Seq(Seq(S))
    OBVIOUS
  <2> HIDE DEF P
  <2> QED BY <2>2, <2>3
<1>3. \A u \in Seq(Seq(S)) : u \in Good
  <2> HIDE DEF Good
  <2> QED BY <1>1, <1>2, Appending
<1> QED BY <1>3

\* The elements of a sequence.
LEMMA ToSetIs ==
    ASSUME NEW S, NEW s \in Seq(S)
    PROVE  ToSet(s) = {s[i] : i \in 1..Len(s)} /\ ToSet(s) \in SUBSET S
BY DEF ToSet

\* The elements of two sequences one after the other.
LEMMA ToSetConcat ==
    ASSUME NEW S, NEW s \in Seq(S), NEW t \in Seq(S)
    PROVE  ToSet(s \o t) = ToSet(s) \cup ToSet(t)
<1>1. Range(s \o t) = Range(s) \cup Range(t)
  BY RangeConcatenation
<1> QED BY <1>1 DEF Range, ToSet

\* An element more at the end.
LEMMA AppendIs ==
    ASSUME NEW S, NEW s \in Seq(S), NEW x \in S
    PROVE  /\ Append(s, x) \in Seq(S) /\ Len(Append(s, x)) = Len(s) + 1 /\ Len(s) \in Nat
           /\ 1..(Len(s) + 1) = (1..Len(s)) \cup {Len(s) + 1}
           /\ \A i \in 1..Len(s) : Append(s, x)[i] = s[i]
           /\ Append(s, x)[Len(s) + 1] = x
<1>1. 1..(Len(s) + 1) = (1..Len(s)) \cup {Len(s) + 1}
  OBVIOUS
<1> QED BY <1>1, AppendProperties

\* What a concatenation contains.
LEMMA FlattenHas ==
    ASSUME NEW S, NEW s \in Seq(Seq(S))
    PROVE  ToSet(FlattenSeq(s)) = UNION {ToSet(s[i]) : i \in 1..Len(s)}
<1> DEFINE P(u) == ToSet(FlattenSeq(u)) = UNION {ToSet(u[i]) : i \in 1..Len(u)}
           Good == {u \in Seq(Seq(S)) : P(u)}
<1>1. <<>> \in Good
  <2>1. ToSet(<<>>) = {}
    BY DEF ToSet
  <2>2. UNION {ToSet(<<>>[i]) : i \in 1..Len(<<>>)} = {}
    OBVIOUS
  <2> QED BY <2>1, <2>2, FlattenEmpty
<1>2. ASSUME NEW u \in Seq(Seq(S)), NEW x \in Seq(S), u \in Good PROVE Append(u, x) \in Good
  <2>1. PICK w \in Seq(Seq(S)) :
            /\ w = Append(u, x) /\ Len(w) = Len(u) + 1
            /\ 1..(Len(u) + 1) = (1..Len(u)) \cup {Len(u) + 1}
            /\ \A i \in 1..Len(u) : w[i] = u[i]
            /\ w[Len(u) + 1] = x
    BY AppendIs
  <2>2. UNION {ToSet(w[i]) : i \in 1..Len(w)} = (UNION {ToSet(u[i]) : i \in 1..Len(u)}) \cup ToSet(x)
    BY <2>1
  <2>3. FlattenSeq(w) = FlattenSeq(u) \o x /\ FlattenSeq(u) \in Seq(S)
    BY <2>1, FlattenAppend
  <2>4. ToSet(FlattenSeq(u) \o x) = ToSet(FlattenSeq(u)) \cup ToSet(x)
    BY <2>3, ToSetConcat
  <2>5. P(w)
    BY <1>2, <2>2, <2>3, <2>4
  <2> HIDE DEF P
  <2> QED BY <2>1, <2>5
<1>3. \A u \in Seq(Seq(S)) : u \in Good
  <2> HIDE DEF Good
  <2> QED BY <1>1, <1>2, Appending
<1> QED BY <1>3

-----------------------------------------------------------------------------
(* Least elements *)

LinearOn(R, T) ==
    /\ \A a, b, c \in T : <<a, b>> \in R /\ <<b, c>> \in R => <<a, c>> \in R
    /\ \A a, b \in T : a = b \/ <<a, b>> \in R \/ <<b, a>> \in R
HasLeast(R, T) == \E s \in T : \A t \in T \ {s} : <<s, t>> \in R

\* A finite set with a linear order has a least element, and so have its parts.
LEMMA LeastExists ==
    ASSUME NEW T, IsFiniteSet(T), T # {}, NEW R, LinearOn(R, T)
    PROVE  HasLeast(R, T)
<1> USE DEF LinearOn
<1> DEFINE has(U) == \E s \in U : \A t \in U \ {s} : <<s, t>> \in R
           Good == {k \in Nat : \A U \in SUBSET T : Cardinality(U) = k /\ U # {} => has(U)}
<1>1. Cardinality(T) \in Nat /\ \A U \in SUBSET T : IsFiniteSet(U)
  BY FS_CardinalityType, FS_Subset
<1>2. 0 \in Good
  <2>1. \A U \in SUBSET T : Cardinality(U) = 0 => U = {}
    BY <1>1, FS_EmptySet
  <2> HIDE DEF has
  <2> QED BY <2>1
<1>3. ASSUME NEW k \in 0..(Cardinality(T) - 1), k \in Good PROVE k + 1 \in Good
  <2>1. ASSUME NEW U \in SUBSET T, Cardinality(U) = k + 1, U # {} PROVE has(U)
    <3>1. PICK x \in U : TRUE
      BY <2>1
    <3> DEFINE V == U \ {x}
    <3>2. V \in SUBSET T /\ Cardinality(V) = k
      <4>1. Cardinality(V) = Cardinality(U) - 1
        BY <1>1, <3>1, FS_RemoveElement
      <4> QED BY <1>1, <2>1, <4>1
    <3>3. CASE V = {}
      <4>1. \A t \in U \ {x} : <<x, t>> \in R
        BY <3>3
      <4> QED BY <3>1, <4>1
    <3>4. CASE V # {}
      <4>1. has(V)
        <5> HIDE DEF has, V
        <5> QED BY <1>3, <3>2, <3>4
      <4>2. PICK s \in V : \A t \in V \ {s} : <<s, t>> \in R
        BY <4>1
      <4>3. s \in T /\ x \in T /\ s # x /\ s \in U
        BY <3>1
      <4>4. CASE <<s, x>> \in R
        <5>1. \A t \in U \ {s} : <<s, t>> \in R
          BY <4>2, <4>4
        <5> QED BY <4>3, <5>1
      <4>5. CASE <<x, s>> \in R
        <5>1. \A t \in U \ {x} : <<x, t>> \in R
          <6> TAKE t \in U \ {x}
          <6>1. t \in V /\ t \in T
            OBVIOUS
          <6>2. CASE t = s
            BY <4>5, <6>2
          <6>3. CASE t # s
            <7>1. <<s, t>> \in R
              BY <4>2, <6>1, <6>3
            <7> QED BY <4>3, <4>5, <6>1, <7>1
          <6> QED BY <6>2, <6>3
        <5> QED BY <3>1, <5>1
      <4> QED BY <4>3, <4>4, <4>5
    <3> QED BY <3>3, <3>4
  <2>2. k + 1 \in Nat
    OBVIOUS
  <2> HIDE DEF has
  <2> QED BY <2>1, <2>2
<1>4. Cardinality(T) \in Good
  <2> HIDE DEF Good
  <2>1. \A k \in 0..Cardinality(T) : k \in Good
    BY <1>1, <1>2, <1>3, UpTo
  <2> QED BY <1>1, <2>1
<1>5. has(T)
  <2> HIDE DEF has
  <2> QED BY <1>4
<1> QED BY <1>5 DEF HasLeast

\* The least and the greatest of a finite set of numbers.
LEMMA MinIs ==
    ASSUME NEW T \in SUBSET Int, IsFiniteSet(T), T # {}
    PROVE  Min(T) \in T /\ \A n \in T : Min(T) <= n
<1> DEFINE R == {p \in Int \X Int : p[1] < p[2]}
<1>1. \A a, b \in Int : <<a, b>> \in R <=> a < b
  OBVIOUS
<1>2. \E s \in T : \A t \in T \ {s} : <<s, t>> \in R
  <2> HIDE DEF R
  <2>1. ASSUME NEW a \in T, NEW b \in T PROVE a = b \/ <<a, b>> \in R \/ <<b, a>> \in R
    <3>1. a \in Int /\ b \in Int
      OBVIOUS
    <3> QED BY <1>1, <3>1
  <2>2. ASSUME NEW a \in T, NEW b \in T, NEW c \in T, <<a, b>> \in R, <<b, c>> \in R
        PROVE  <<a, c>> \in R
    <3>1. a \in Int /\ b \in Int /\ c \in Int
      OBVIOUS
    <3> QED BY <1>1, <2>2, <3>1
  <2>3. LinearOn(R, T)
    BY <2>1, <2>2 DEF LinearOn
  <2>4. HasLeast(R, T)
    BY Zenon, <2>3, LeastExists
  <2> QED BY <2>4 DEF HasLeast
<1>3. \E s \in T : \A t \in T : s <= t
  <2> HIDE DEF R
  <2>1. PICK s \in T : \A t \in T \ {s} : <<s, t>> \in R
    BY <1>2
  <2>2. ASSUME NEW t \in T PROVE s <= t
    <3>1. s \in Int /\ t \in Int
      BY <2>1
    <3>2. t # s => <<s, t>> \in R
      BY <2>1, <2>2
    <3> QED BY <1>1, <3>1, <3>2
  <2> QED BY <2>2
<1> QED BY <1>3 DEF Min

\* The greatest of a finite set of numbers is in it and above all others.
LEMMA MaxIs ==
    ASSUME NEW T \in SUBSET Int, IsFiniteSet(T), T # {}
    PROVE  Max(T) \in T /\ \A n \in T : n <= Max(T)
<1> DEFINE R == {p \in Int \X Int : p[2] < p[1]}
<1>1. \A a, b \in Int : <<a, b>> \in R <=> b < a
  OBVIOUS
<1>2. \E s \in T : \A t \in T \ {s} : <<s, t>> \in R
  <2> HIDE DEF R
  <2>1. ASSUME NEW a \in T, NEW b \in T PROVE a = b \/ <<a, b>> \in R \/ <<b, a>> \in R
    <3>1. a \in Int /\ b \in Int
      OBVIOUS
    <3> QED BY <1>1, <3>1
  <2>2. ASSUME NEW a \in T, NEW b \in T, NEW c \in T, <<a, b>> \in R, <<b, c>> \in R
        PROVE  <<a, c>> \in R
    <3>1. a \in Int /\ b \in Int /\ c \in Int
      OBVIOUS
    <3> QED BY <1>1, <2>2, <3>1
  <2>3. LinearOn(R, T)
    BY <2>1, <2>2 DEF LinearOn
  <2>4. HasLeast(R, T)
    BY Zenon, <2>3, LeastExists
  <2> QED BY <2>4 DEF HasLeast
<1>3. \E s \in T : \A t \in T : s >= t
  <2> HIDE DEF R
  <2>1. PICK s \in T : \A t \in T \ {s} : <<s, t>> \in R
    BY <1>2
  <2>2. ASSUME NEW t \in T PROVE s >= t
    <3>1. s \in Int /\ t \in Int
      BY <2>1
    <3>2. t # s => <<s, t>> \in R
      BY <2>1, <2>2
    <3> QED BY <1>1, <3>1, <3>2
  <2> QED BY <2>2
<1> QED BY <1>3 DEF Max

\* The first position where two tuples differ.
LEMMA FirstDifference ==
    ASSUME NEW n \in Nat, NEW s \in [1..n -> Int], NEW t \in [1..n -> Int], s # t
    PROVE  \E i \in 1..n : s[i] # t[i] /\ \A j \in 1..(i - 1) : s[j] = t[j]
<1> DEFINE D == {i \in 1..n : s[i] # t[i]}
<1>0. \E i \in 1..n : s[i] # t[i]
  OBVIOUS
<1>1. D \in SUBSET Int /\ D # {} /\ IsFiniteSet(D)
  <2>1. IsFiniteSet(1..n)
    BY FS_Interval
  <2> QED BY <1>0, <2>1, FS_Subset
<1>2. Min(D) \in D /\ \A i \in D : Min(D) <= i
  BY <1>1, MinIs
<1>3. ASSUME NEW j \in 1..(Min(D) - 1) PROVE s[j] = t[j]
  <2>1. Min(D) \in 1..n
    BY <1>2
  <2>2. j \in 1..n /\ ~(Min(D) <= j)
    BY <2>1
  <2>3. j \notin D
    <3> HIDE DEF D
    <3> QED BY <1>2, <2>2
  <2> QED BY <2>2, <2>3
<1> QED BY <1>2, <1>3

\* Before is a linear order on tuples of one length.
LEMMA BeforeTransitive ==
    ASSUME NEW n \in Nat, NEW s \in [1..n -> Int], NEW t \in [1..n -> Int],
           NEW u \in [1..n -> Int], Before(s, t), Before(t, u)
    PROVE  Before(s, u)
<1>1. DOMAIN s = 1..n /\ DOMAIN t = 1..n
  OBVIOUS
<1>2. PICK i \in 1..n : s[i] < t[i] /\ \A j \in 1..(i - 1) : s[j] = t[j]
  BY <1>1 DEF Before
<1>3. PICK k \in 1..n : t[k] < u[k] /\ \A j \in 1..(k - 1) : t[j] = u[j]
  BY <1>1 DEF Before
<1>4. CASE i < k
  <2>1. s[i] < u[i] /\ \A j \in 1..(i - 1) : s[j] = u[j]
    BY <1>2, <1>3, <1>4
  <2> QED BY <1>1, <2>1 DEF Before
<1>5. CASE i = k
  <2>1. s[i] < u[i] /\ \A j \in 1..(i - 1) : s[j] = u[j]
    BY <1>2, <1>3, <1>5
  <2> QED BY <1>1, <2>1 DEF Before
<1>6. CASE k < i
  <2>1. s[k] < u[k] /\ \A j \in 1..(k - 1) : s[j] = u[j]
    BY <1>2, <1>3, <1>6
  <2> QED BY <1>1, <2>1 DEF Before
<1> QED BY <1>4, <1>5, <1>6

\* Of two different tuples one is before the other.
LEMMA BeforeTotal ==
    ASSUME NEW n \in Nat, NEW s \in [1..n -> Int], NEW t \in [1..n -> Int]
    PROVE  s = t \/ Before(s, t) \/ Before(t, s)
<1>1. SUFFICES ASSUME s # t PROVE Before(s, t) \/ Before(t, s)
  OBVIOUS
<1>3. PICK i \in 1..n : s[i] # t[i] /\ \A j \in 1..(i - 1) : s[j] = t[j]
  BY <1>1, FirstDifference
<1>4. DOMAIN s = 1..n /\ DOMAIN t = 1..n /\ s[i] \in Int /\ t[i] \in Int
  OBVIOUS
<1>5. CASE s[i] < t[i]
  BY <1>3, <1>4, <1>5 DEF Before
<1>6. CASE t[i] < s[i]
  BY <1>3, <1>4, <1>6 DEF Before
<1> QED BY <1>3, <1>4, <1>5, <1>6

\* The least of a finite set of tuples is one of them.
LEMMA LeastIs ==
    ASSUME NEW n \in Nat, NEW T \in SUBSET [1..n -> Int], IsFiniteSet(T), T # {}
    PROVE  Least(T) \in T
<1> DEFINE R == {p \in T \X T : Before(p[1], p[2])}
<1>1. \A a, b \in T : <<a, b>> \in R <=> Before(a, b)
  OBVIOUS
<1>2. \E s \in T : \A t \in T \ {s} : <<s, t>> \in R
  <2> HIDE DEF R
  <2>1. \A a, b, c \in T : <<a, b>> \in R /\ <<b, c>> \in R => <<a, c>> \in R
    BY <1>1, BeforeTransitive
  <2>2. \A a, b \in T : a = b \/ <<a, b>> \in R \/ <<b, a>> \in R
    BY <1>1, BeforeTotal
  <2>3. LinearOn(R, T)
    BY <2>1, <2>2 DEF LinearOn
  <2>4. HasLeast(R, T)
    BY Zenon, <2>3, LeastExists
  <2> QED BY <2>4 DEF HasLeast
<1>3. \E s \in T : \A t \in T \ {s} : Before(s, t)
  <2> HIDE DEF R
  <2> QED BY <1>1, <1>2
<1> QED BY <1>3, Zenon DEF Least

-----------------------------------------------------------------------------
(* Ascending order *)

\* How many of a set's numbers are smaller.
Below(S, n) == Cardinality({m \in S : m < n})

\* The numbers of a finite set below a member are fewer than the set.
LEMMA BelowIs ==
    ASSUME NEW S \in SUBSET Int, IsFiniteSet(S), NEW n \in S
    PROVE  /\ Below(S, n) \in 0..(Cardinality(S) - 1)
           /\ \A k \in S : n < k => Below(S, n) < Below(S, k)
<1> DEFINE B(k) == {m \in S : m < k}
<1>1. \A k \in S : IsFiniteSet(B(k)) /\ Cardinality(B(k)) \in Nat
  BY FS_Subset, FS_CardinalityType
<1>2. n \notin B(n) /\ B(n) \in SUBSET (S \ {n})
  OBVIOUS
<1>3. Cardinality(B(n)) <= Cardinality(S) - 1 /\ Cardinality(S) \in Nat
  <2>1. IsFiniteSet(S \ {n}) /\ Cardinality(S \ {n}) = Cardinality(S) - 1
    BY FS_RemoveElement
  <2> HIDE DEF B
  <2> QED BY <1>2, <2>1, FS_Subset, FS_CardinalityType
<1>4. ASSUME NEW k \in S, n < k PROVE Cardinality(B(n)) < Cardinality(B(k))
  <2>1. (B(n) \cup {n}) \in SUBSET B(k)
    <3>1. ASSUME NEW m \in B(n) \cup {n} PROVE m \in B(k)
      <4>1. m \in Int /\ n \in Int /\ k \in Int /\ m \in S /\ m <= n
        OBVIOUS
      <4> QED BY <1>4, <4>1
    <3> HIDE DEF B
    <3> QED BY <3>1
  <2> HIDE DEF B
  <2>2. IsFiniteSet(B(n) \cup {n}) /\ Cardinality(B(n) \cup {n}) = Cardinality(B(n)) + 1
    BY <1>1, <1>2, FS_AddElement
  <2>3. Cardinality(B(n) \cup {n}) <= Cardinality(B(k))
    BY <1>1, <2>1, FS_Subset
  <2> QED BY <1>1, <2>2, <2>3
<1>5. \A k \in S : Below(S, k) = Cardinality(B(k))
  BY DEF Below
<1> HIDE DEF B
<1> QED BY <1>1, <1>3, <1>4, <1>5

\* Every number below the cardinality counts the smaller ones of some member.
LEMMA BelowOnto ==
    ASSUME NEW S \in SUBSET Int, IsFiniteSet(S), NEW i \in 1..Cardinality(S)
    PROVE  \E n \in S : Below(S, n) = i - 1
<1> DEFINE C == Cardinality(S)
           r == [n \in S |-> Below(S, n)]
<1>1. C \in Nat
  BY FS_CardinalityType
<1>2. \A n \in S : Below(S, n) \in 0..(C - 1) /\ \A k \in S : n < k => Below(S, n) < Below(S, k)
  BY BelowIs
<1>3. r \in Injection(S, 0..(C - 1))
  <2>1. r \in [S -> 0..(C - 1)]
    BY <1>2
  <2>2. ASSUME NEW a \in S, NEW b \in S, r[a] = r[b] PROVE a = b
    <3>1. a \in Int /\ b \in Int /\ Below(S, a) \in Int /\ Below(S, b) \in Int
      BY <1>2
    <3>2. Below(S, a) = Below(S, b)
      BY <2>2
    <3>3. ~(a < b) /\ ~(b < a)
      BY <1>2, <3>1, <3>2
    <3> QED BY <3>1, <3>3
  <2> HIDE DEF r, C
  <2> QED BY <2>1, <2>2 DEF Injection, IsInjective
<1>4. IsFiniteSet(0..(C - 1)) /\ Cardinality(0..(C - 1)) = C
  <2> HIDE DEF C
  <2>1. 0 \in Int /\ C - 1 \in Int /\ C - 1 - 0 + 1 = C /\ (0 > C - 1 => C = 0)
    BY <1>1
  <2> QED BY <2>1, FS_Interval
<1>5. r \in Surjection(S, 0..(C - 1))
  <2> HIDE DEF r
  <2> QED BY <1>3, <1>4, FS_Injection
<1>6. i - 1 \in 0..(C - 1)
  BY <1>1
<1>7. \E n \in S : r[n] = i - 1
  <2> HIDE DEF r, C
  <2> QED BY <1>5, <1>6 DEF Surjection
<1> QED BY <1>7

\* Ascending lists a finite set of numbers, each once, in rising order.
LEMMA AscendingIs ==
    ASSUME NEW S \in SUBSET Int, IsFiniteSet(S)
    PROVE  /\ Cardinality(S) \in Nat
           /\ Ascending(S) \in Seq(S)
           /\ Len(Ascending(S)) = Cardinality(S)
           /\ \A i, j \in 1..Cardinality(S) : i < j => Ascending(S)[i] < Ascending(S)[j]
           /\ \A n \in S : \E i \in 1..Cardinality(S) : Ascending(S)[i] = n
<1> DEFINE C == Cardinality(S)
           at(i) == CHOOSE n \in S : Below(S, n) = i - 1
<1>1. C \in Nat
  BY FS_CardinalityType
<1>2. \A i \in 1..C : at(i) \in S /\ Below(S, at(i)) = i - 1
  BY BelowOnto
<1>3. \A n \in S : Below(S, n) \in 0..(C - 1) /\ \A k \in S : n < k => Below(S, n) < Below(S, k)
  BY BelowIs
<1>4. Ascending(S) = [i \in 1..C |-> at(i)]
  BY DEF Ascending, Below
<1> DEFINE A == Ascending(S)
<1>5. A \in [1..C -> S] /\ \A i \in 1..C : A[i] \in S /\ Below(S, A[i]) = i - 1
  <2> HIDE DEF at, C
  <2> QED BY <1>2, <1>4
<1> HIDE DEF C, A
<1>6. A \in Seq(S) /\ Len(A) = C
  BY <1>1, <1>5
<1>7. ASSUME NEW i \in 1..C, NEW j \in 1..C, i < j PROVE A[i] < A[j]
  <2>0. A[i] \in S /\ A[j] \in S /\ Below(S, A[i]) = i - 1 /\ Below(S, A[j]) = j - 1
    BY <1>5
  <2>1. A[i] \in Int /\ A[j] \in Int
    BY <2>0
  <2>4. i - 1 < j - 1 /\ i \in Int /\ j \in Int
    BY <1>1, <1>7
  <2>2. ~(Below(S, A[j]) < Below(S, A[i])) /\ Below(S, A[j]) # Below(S, A[i])
    BY <2>0, <2>4
  <2>3. ~(A[j] < A[i]) /\ A[i] # A[j]
    BY <1>3, <2>0, <2>2
  <2> QED BY <2>1, <2>3
<1>8. ASSUME NEW n \in S PROVE \E i \in 1..C : A[i] = n
  <2>1. PICK i \in Int : i = Below(S, n) + 1 /\ i \in 1..C /\ i - 1 = Below(S, n)
    BY <1>1, <1>3
  <2>2. A[i] \in S /\ Below(S, A[i]) = Below(S, n) /\ Below(S, n) \in Int
    BY <1>3, <1>5, <2>1
  <2>5. /\ A[i] < n => Below(S, A[i]) < Below(S, n)
        /\ n < A[i] => Below(S, n) < Below(S, A[i])
    BY <1>3, <2>2
  <2>3. ~(A[i] < n) /\ ~(n < A[i])
    BY <2>2, <2>5
  <2>4. A[i] \in Int /\ n \in Int
    BY <2>2
  <2> QED BY <2>1, <2>3, <2>4
<1> QED BY <1>1, <1>5, <1>6, <1>7, <1>8 DEF C, A

-----------------------------------------------------------------------------
(* The length of a concatenation *)

\* A sequence without repetitions.
Counts(s) == IsFiniteSet(ToSet(s)) /\ Len(s) = Cardinality(ToSet(s))

\* Two sequences without repetitions and common elements make one without.
LEMMA CountsConcat ==
    ASSUME NEW S, NEW s \in Seq(S), NEW t \in Seq(S), Counts(s), Counts(t),
           ToSet(s) \cap ToSet(t) = {}
    PROVE  Counts(s \o t)
<1>1. ToSet(s \o t) = ToSet(s) \cup ToSet(t)
  BY ToSetConcat
<1>2. Len(s \o t) = Len(s) + Len(t) /\ Len(s) \in Nat /\ Len(t) \in Nat
  OBVIOUS
<1>3. /\ IsFiniteSet(ToSet(s) \cup ToSet(t))
      /\ Cardinality(ToSet(s) \cup ToSet(t))
         = Cardinality(ToSet(s)) + Cardinality(ToSet(t)) - Cardinality(ToSet(s) \cap ToSet(t))
  BY FS_Union DEF Counts
<1>4. Cardinality(ToSet(s) \cap ToSet(t)) = 0
  BY FS_EmptySet
<1> QED BY <1>1, <1>2, <1>3, <1>4 DEF Counts

\* Sequences without repetitions, and without common elements.
Separate(s) ==
    /\ \A i \in 1..Len(s) : Counts(s[i])
    /\ \A i, j \in 1..Len(s) : i # j => ToSet(s[i]) \cap ToSet(s[j]) = {}

\* ... are concatenated to one without repetitions.
LEMMA FlattenCounts ==
    ASSUME NEW S, NEW s \in Seq(Seq(S)), Separate(s)
    PROVE  Counts(FlattenSeq(s))
<1> DEFINE P(u) == Separate(u) => Counts(FlattenSeq(u))
           Good == {u \in Seq(Seq(S)) : P(u)}
<1>1. <<>> \in Good
  <2>1. ToSet(<<>>) = {} /\ Len(<<>>) = 0
    BY DEF ToSet
  <2>2. Counts(<<>>)
    BY <2>1, FS_EmptySet DEF Counts
  <2>3. P(<<>>)
    BY <2>2, FlattenEmpty
  <2>4. <<>> \in Seq(Seq(S))
    OBVIOUS
  <2> HIDE DEF P
  <2> QED BY <2>3, <2>4
<1>2. ASSUME NEW u \in Seq(Seq(S)), NEW x \in Seq(S), u \in Good PROVE Append(u, x) \in Good
  <2>1. PICK w \in Seq(Seq(S)) :
            /\ w = Append(u, x) /\ Len(w) = Len(u) + 1 /\ Len(u) \in Nat
            /\ \A i \in 1..Len(u) : w[i] = u[i]
            /\ w[Len(u) + 1] = x
    BY AppendIs
  <2>2. ASSUME Separate(w) PROVE Counts(FlattenSeq(w))
    <3>1. /\ Len(u) + 1 \in 1..Len(w)
          /\ \A i \in 1..Len(u) : i \in 1..Len(w) /\ i # Len(u) + 1
      BY <2>1
    <3>2. Counts(x) /\ \A i \in 1..Len(u) : ToSet(u[i]) \cap ToSet(x) = {}
      BY <2>1, <2>2, <3>1 DEF Separate
    <3>3. Separate(u)
      BY <2>1, <2>2, <3>1 DEF Separate
    <3>4. Counts(FlattenSeq(u))
      BY <1>2, <3>3
    <3>5. FlattenSeq(w) = FlattenSeq(u) \o x /\ FlattenSeq(u) \in Seq(S)
      BY <2>1, FlattenAppend
    <3>6. ToSet(FlattenSeq(u)) \cap ToSet(x) = {}
      BY <3>2, FlattenHas
    <3>7. Counts(FlattenSeq(u) \o x)
      BY <3>2, <3>4, <3>5, <3>6, CountsConcat
    <3> QED BY <3>5, <3>7
  <2>3. P(w)
    BY <2>2
  <2> HIDE DEF P
  <2> QED BY <2>1, <2>3
<1>3. \A u \in Seq(Seq(S)) : u \in Good
  <2> HIDE DEF Good
  <2> QED BY <1>1, <1>2, Appending
<1> QED BY <1>3

\* All sequences have elements; all have one.
Filled(s) == \A i \in 1..Len(s) : s[i] # <<>>
Singles(s) == \A i \in 1..Len(s) : Len(s[i]) = 1

\* Pieces are at most as many as their elements, and as many only if each has one.
LEMMA FlattenLong ==
    ASSUME NEW S, NEW s \in Seq(Seq(S)), Filled(s)
    PROVE  /\ Len(FlattenSeq(s)) \in Nat /\ Len(s) <= Len(FlattenSeq(s))
           /\ Len(s) = Len(FlattenSeq(s)) <=> Singles(s)
<1> DEFINE P(u) == Filled(u) => /\ Len(FlattenSeq(u)) \in Nat /\ Len(u) <= Len(FlattenSeq(u))
                                /\ Len(u) = Len(FlattenSeq(u)) <=> Singles(u)
           Good == {u \in Seq(Seq(S)) : P(u)}
<1>1. <<>> \in Good
  <2>1. Len(<<>>) = 0 /\ Singles(<<>>)
    BY DEF Singles
  <2>2. P(<<>>)
    BY <2>1, FlattenEmpty
  <2>3. <<>> \in Seq(Seq(S))
    OBVIOUS
  <2> HIDE DEF P
  <2> QED BY <2>2, <2>3
<1>2. ASSUME NEW u \in Seq(Seq(S)), NEW x \in Seq(S), u \in Good PROVE Append(u, x) \in Good
  <2>1. PICK w \in Seq(Seq(S)) :
            /\ w = Append(u, x) /\ Len(w) = Len(u) + 1 /\ Len(u) \in Nat
            /\ 1..(Len(u) + 1) = (1..Len(u)) \cup {Len(u) + 1}
            /\ \A i \in 1..Len(u) : w[i] = u[i]
            /\ w[Len(u) + 1] = x
    BY AppendIs
  <2>2. FlattenSeq(w) = FlattenSeq(u) \o x /\ FlattenSeq(u) \in Seq(S)
    BY <2>1, FlattenAppend
  <2>3. Len(FlattenSeq(w)) = Len(FlattenSeq(u)) + Len(x)
    BY <2>2
  <2>4. Singles(w) <=> Singles(u) /\ Len(x) = 1
    BY <2>1 DEF Singles
  <2>5. Filled(w) => Filled(u) /\ x # <<>>
    BY <2>1 DEF Filled
  <2>6. x # <<>> => Len(x) \in Nat /\ Len(x) >= 1
    BY EmptySeq
  <2>7. P(u)
    BY <1>2
  <2>8. ASSUME Filled(w), NEW n, n = Len(FlattenSeq(u)), NEW m, m = Len(FlattenSeq(w))
        PROVE  /\ m \in Nat /\ Len(w) <= m
               /\ Len(w) = m <=> Singles(w)
    <3>1. n \in Nat /\ Len(u) <= n /\ (Len(u) = n <=> Singles(u))
      BY <2>5, <2>7, <2>8
    <3>2. Len(x) \in Nat /\ Len(x) >= 1
      BY <2>5, <2>6, <2>8
    <3>3. m = n + Len(x)
      BY <2>3, <2>8
    <3>4. Len(w) = Len(u) + 1 /\ Len(u) \in Nat
      BY <2>1
    <3>5. PICK a \in Nat, b \in Nat : a = Len(u) /\ b = Len(x)
      BY <3>2, <3>4
    <3>6. n \in Nat /\ a <= n /\ b >= 1
      BY <3>1, <3>2, <3>5
    <3>7. n + b \in Nat /\ a + 1 <= n + b /\ (a + 1 = n + b <=> a = n /\ b = 1)
      BY ONLY <3>6, a \in Nat, b \in Nat
    <3>8. m = n + b /\ Len(w) = a + 1
      BY <3>3, <3>4, <3>5
    <3>9. m \in Nat /\ Len(w) <= m
      BY <3>7, <3>8
    <3>10. Len(w) = m <=> a = n /\ b = 1
      BY <3>7, <3>8
    <3> QED BY <2>4, <3>1, <3>5, <3>9, <3>10
  <2>9. P(w)
    BY <2>8
  <2> HIDE DEF P
  <2> QED BY <2>1, <2>9
<1>3. \A u \in Seq(Seq(S)) : u \in Good
  <2> HIDE DEF Good
  <2> QED BY <1>1, <1>2, Appending
<1> QED BY <1>3

\* Pieces of one element each are the elements of the concatenation.
LEMMA FlattenSingles ==
    ASSUME NEW S, NEW s \in Seq(Seq(S)), Singles(s)
    PROVE  \A i \in 1..Len(s) : s[i] = <<FlattenSeq(s)[i]>>
<1> DEFINE P(u) == Singles(u) => /\ Len(FlattenSeq(u)) = Len(u)
                                 /\ \A i \in 1..Len(u) : u[i] = <<FlattenSeq(u)[i]>>
           Good == {u \in Seq(Seq(S)) : P(u)}
<1>1. <<>> \in Good
  <2>1. P(<<>>)
    BY FlattenEmpty
  <2>2. <<>> \in Seq(Seq(S))
    OBVIOUS
  <2> HIDE DEF P
  <2> QED BY <2>1, <2>2
<1>2. ASSUME NEW u \in Seq(Seq(S)), NEW x \in Seq(S), u \in Good PROVE Append(u, x) \in Good
  <2>1. PICK w \in Seq(Seq(S)) :
            /\ w = Append(u, x) /\ Len(w) = Len(u) + 1 /\ Len(u) \in Nat
            /\ 1..(Len(u) + 1) = (1..Len(u)) \cup {Len(u) + 1}
            /\ \A i \in 1..Len(u) : w[i] = u[i]
            /\ w[Len(u) + 1] = x
    BY AppendIs
  <2>2. PICK f \in Seq(S) : f = FlattenSeq(u) /\ FlattenSeq(w) = f \o x
    BY <2>1, FlattenAppend
  <2>3. ASSUME Singles(w)
        PROVE  Len(f \o x) = Len(w) /\ \A i \in 1..Len(w) : w[i] = <<(f \o x)[i]>>
    <3>1. Singles(u) /\ Len(x) = 1
      BY <2>1, <2>3 DEF Singles
    <3>2. Len(f) = Len(u) /\ \A i \in 1..Len(u) : u[i] = <<f[i]>>
      BY <1>2, <2>2, <3>1
    <3>6. /\ Len(f \o x) = Len(f) + Len(x)
          /\ \A i \in 1..(Len(f) + Len(x)) :
                 (f \o x)[i] = IF i <= Len(f) THEN f[i] ELSE x[i - Len(f)]
      BY ConcatProperties
    <3>7. Len(f) \in Nat /\ Len(u) \in Nat
      OBVIOUS
    <3>3. Len(f \o x) = Len(u) + 1
      BY <3>1, <3>2, <3>6
    <3>4. \A i \in 1..Len(u) : (f \o x)[i] = f[i]
      BY <3>1, <3>2, <3>6, <3>7
    <3>5. x = <<(f \o x)[Len(u) + 1]>>
      <4>1. x = <<x[1]>>
        BY <3>1
      <4>2. (f \o x)[Len(u) + 1] = x[1]
        BY <3>1, <3>2, <3>6, <3>7
      <4> QED BY <4>1, <4>2
    <3> QED BY <2>1, <3>2, <3>3, <3>4, <3>5
  <2>4. P(w)
    BY <2>2, <2>3
  <2> HIDE DEF P
  <2> QED BY <2>1, <2>4
<1>3. \A u \in Seq(Seq(S)) : u \in Good
  <2> HIDE DEF Good
  <2> QED BY <1>1, <1>2, Appending
<1> QED BY <1>3

-----------------------------------------------------------------------------
(* The groups of rows by document *)

\* What Ascending lists is the set.
LEMMA AscendingHas ==
    ASSUME NEW S \in SUBSET Int, IsFiniteSet(S)
    PROVE  ToSet(Ascending(S)) = S /\ Counts(Ascending(S))
<1>1. PICK A \in Seq(S) :
          /\ A = Ascending(S) /\ Len(A) = Cardinality(S)
          /\ \A n \in S : \E i \in 1..Cardinality(S) : A[i] = n
  BY AscendingIs
<1>2. ToSet(A) = S
  <2>1. ToSet(A) = {A[i] : i \in 1..Len(A)} /\ ToSet(A) \in SUBSET S
    BY ToSetIs
  <2> QED BY <1>1, <2>1
<1> QED BY <1>1, <1>2 DEF Counts

FirstRows == {row \in 1..Total : \A i \in 1..(row - 1) : documentOf[i] # documentOf[row]}
RowsOf(first) == {row \in 1..Total : documentOf[row] = documentOf[first]}

\* Sets of rows are finite sets of numbers.
LEMMA RowSetsFinite ==
    ASSUME Total \in Nat
    PROVE  \A S \in SUBSET (1..Total) : IsFiniteSet(S) /\ S \in SUBSET Int
<1>1. IsFiniteSet(1..Total)
  BY FS_Interval
<1>2. 1..Total \subseteq Int
  OBVIOUS
<1> QED BY <1>1, <1>2, FS_Subset

\* Every document has a first row, and different first rows different documents.
LEMMA FirstRowsAre ==
    ASSUME Total \in Nat
    PROVE  /\ FirstRows \in SUBSET (1..Total)
           /\ \A row \in 1..Total : \E first \in FirstRows : documentOf[first] = documentOf[row]
           /\ \A a, b \in FirstRows : a # b => documentOf[a] # documentOf[b]
<1>1. FirstRows \in SUBSET (1..Total)
  BY DEF FirstRows
<1>2. ASSUME NEW row \in 1..Total
      PROVE  \E first \in FirstRows : documentOf[first] = documentOf[row]
  <2> DEFINE R == RowsOf(row)
  <2>1. R \in SUBSET (1..Total) /\ row \in R
    BY DEF RowsOf
  <2>2. IsFiniteSet(R) /\ R \in SUBSET Int /\ R # {}
    BY <2>1, RowSetsFinite
  <2> HIDE DEF R
  <2>3. PICK first \in R : \A n \in R : first <= n
    BY <2>2, MinIs
  <2>4. first \in 1..Total /\ documentOf[first] = documentOf[row]
    BY <2>3 DEF R, RowsOf
  <2>5. ASSUME NEW i \in 1..(first - 1) PROVE documentOf[i] # documentOf[first]
    <3>1. i \in 1..Total /\ ~(first <= i)
      BY <2>4
    <3>2. i \notin R
      BY <2>3, <3>1
    <3> QED BY <2>4, <3>1, <3>2 DEF R, RowsOf
  <2> QED BY <2>4, <2>5 DEF FirstRows
<1>3. ASSUME NEW a \in FirstRows, NEW b \in FirstRows, a < b PROVE documentOf[a] # documentOf[b]
  <2>1. a \in 1..Total /\ b \in 1..Total
    BY <1>1
  <2>2. a \in 1..(b - 1)
    BY <1>3, <2>1
  <2> QED BY <2>2 DEF FirstRows
<1>4. ASSUME NEW a \in FirstRows, NEW b \in FirstRows, a # b PROVE documentOf[a] # documentOf[b]
  <2>1. a \in Int /\ b \in Int
    BY <1>1
  <2>2. a < b \/ b < a
    BY <1>4, <2>1
  <2> QED BY <1>3, <2>2
<1> QED BY <1>1, <1>2, <1>4

\* No two groups have a document in common.
OwnDocuments ==
    \A i, j \in 1..Len(DocumentGroups) :
        \A a \in ToSet(DocumentGroups[i]), b \in ToSet(DocumentGroups[j]) :
            i # j => documentOf[a] # documentOf[b]

\* A group has the rows of its document, and every row is in one group.
LEMMA GroupsAre ==
    ASSUME Total \in Nat
    PROVE  /\ DocumentGroups \in Seq(Seq(1..Total))
           /\ Filled(DocumentGroups) /\ Separate(DocumentGroups)
           /\ UNION {ToSet(DocumentGroups[i]) : i \in 1..Len(DocumentGroups)} = 1..Total
           /\ OwnDocuments
<1>1. PICK C \in Nat, F \in Seq(FirstRows) :
          /\ C = Cardinality(FirstRows) /\ F = Ascending(FirstRows) /\ Len(F) = C
          /\ \A i, j \in 1..C : i < j => F[i] < F[j]
          /\ \A n \in FirstRows : \E i \in 1..C : F[i] = n
  <2>1. FirstRows \in SUBSET Int /\ IsFiniteSet(FirstRows)
    BY FirstRowsAre, RowSetsFinite
  <2> QED BY <2>1, AscendingIs
<1> DEFINE G == DocumentGroups
<1>2. G = [i \in 1..C |-> Ascending(RowsOf(F[i]))]
  BY <1>1 DEF DocumentGroups, FirstRows, RowsOf
<1>3. ASSUME NEW i \in 1..C
      PROVE  /\ G[i] = Ascending(RowsOf(F[i])) /\ G[i] \in Seq(1..Total)
             /\ ToSet(G[i]) = RowsOf(F[i]) /\ Counts(G[i]) /\ G[i] # <<>>
             /\ F[i] \in FirstRows
  <2>8. F[i] \in FirstRows
    BY <1>1, ElementOfSeq
  <2>1. F[i] \in FirstRows /\ F[i] \in 1..Total
    BY <2>8 DEF FirstRows
  <2>2. PICK R \in SUBSET (1..Total) : R = RowsOf(F[i])
    BY DEF RowsOf
  <2>3. IsFiniteSet(R) /\ R \in SUBSET Int /\ F[i] \in R
    BY <2>1, <2>2, RowSetsFinite DEF RowsOf
  <2>4. Ascending(R) \in Seq(R) /\ ToSet(Ascending(R)) = R /\ Counts(Ascending(R))
    BY <2>3, AscendingIs, AscendingHas
  <2>5. Ascending(R) \in Seq(1..Total)
    BY <2>4, SeqMonotonic
  <2>6. Ascending(R) # <<>>
    <3>1. ToSet(<<>>) = {}
      BY DEF ToSet
    <3> QED BY <2>3, <2>4, <3>1
  <2>7. G[i] = Ascending(RowsOf(F[i]))
    BY <1>2
  <2> HIDE DEF G
  <2> QED BY <2>1, <2>2, <2>4, <2>5, <2>6, <2>7
<1>4. G \in Seq(Seq(1..Total)) /\ Len(G) = C
  <2>1. G \in [1..C -> Seq(1..Total)]
    <3>1. \A i \in 1..C : G[i] \in Seq(1..Total)
      BY <1>3
    <3>2. DOMAIN G = 1..C /\ G = [i \in 1..C |-> G[i]]
      BY <1>2
    <3> HIDE DEF G
    <3> QED BY <3>1, <3>2
  <2> HIDE DEF G
  <2> QED BY <2>1
<1>5. Filled(G)
  BY <1>3, <1>4 DEF Filled
<1>6. ASSUME NEW i \in 1..C, NEW j \in 1..C, NEW a \in ToSet(G[i]), NEW b \in ToSet(G[j]), i # j
      PROVE  documentOf[a] # documentOf[b]
  <2>1. documentOf[a] = documentOf[F[i]] /\ documentOf[b] = documentOf[F[j]]
    BY <1>3 DEF RowsOf
  <2>2. F[i] # F[j]
    <3>1. i < j \/ j < i
      BY <1>6
    <3>2. F[i] < F[j] \/ F[j] < F[i]
      BY <1>1, <3>1
    <3>3. F[i] \in Int /\ F[j] \in Int
      BY <1>3, FirstRowsAre
    <3> QED BY <3>2, <3>3
  <2>3. documentOf[F[i]] # documentOf[F[j]]
    BY <1>3, <2>2, FirstRowsAre
  <2> QED BY <2>1, <2>3
<1>7. Separate(G)
  <2>1. \A i, j \in 1..C : i # j => ToSet(G[i]) \cap ToSet(G[j]) = {}
    <3> HIDE DEF G
    <3> QED BY <1>6
  <2> QED BY <1>3, <1>4, <2>1 DEF Separate
<1>8. UNION {ToSet(G[i]) : i \in 1..C} = 1..Total
  <2>1. ASSUME NEW row \in 1..Total PROVE \E i \in 1..C : row \in ToSet(G[i])
    <3>1. PICK first \in FirstRows : documentOf[first] = documentOf[row]
      BY FirstRowsAre
    <3>2. PICK i \in 1..C : F[i] = first
      BY <1>1
    <3>3. row \in RowsOf(F[i])
      BY <3>1, <3>2 DEF RowsOf
    <3> QED BY <1>3, <3>3
  <2>2. ASSUME NEW i \in 1..C PROVE ToSet(G[i]) \subseteq 1..Total
    BY <1>3 DEF RowsOf
  <2> HIDE DEF G
  <2> QED BY <2>1, <2>2
<1> HIDE DEF G
<1>9. G \in Seq(Seq(1..Total)) /\ Filled(G) /\ Separate(G)
      /\ UNION {ToSet(G[i]) : i \in 1..Len(G)} = 1..Total
  BY <1>4, <1>5, <1>7, <1>8
<1>10. \A i, j \in 1..Len(G) : \A a \in ToSet(G[i]) :
         \A b \in ToSet(G[j]) : i # j => documentOf[a] # documentOf[b]
  BY <1>4, <1>6
<1> QED BY <1>9, <1>10 DEF G, OwnDocuments

\* The order of the groups has every row once.
LEMMA GroupOrder ==
    ASSUME Total \in Nat
    PROVE  /\ FlattenSeq(DocumentGroups) \in Seq(1..Total)
           /\ ToSet(FlattenSeq(DocumentGroups)) = 1..Total
           /\ Len(FlattenSeq(DocumentGroups)) = Total
<1>1. PICK G \in Seq(Seq(1..Total)) : G = DocumentGroups /\ Separate(G)
      /\ UNION {ToSet(G[i]) : i \in 1..Len(G)} = 1..Total
  BY GroupsAre
<1>2. ToSet(FlattenSeq(G)) = 1..Total
  <2>1. ToSet(FlattenSeq(G)) = UNION {ToSet(G[i]) : i \in 1..Len(G)}
    BY FlattenHas
  <2> QED BY <1>1, <2>1
<1>3. Counts(FlattenSeq(G)) /\ FlattenSeq(G) \in Seq(1..Total)
  BY <1>1, FlattenCounts, FlattenType
<1>4. Cardinality(1..Total) = Total
  BY FS_Interval
<1> QED BY <1>1, <1>2, <1>3, <1>4 DEF Counts

-----------------------------------------------------------------------------
(* Batches *)

Ends(pieces, cuts) == Ascending(cuts \cup {0, Len(pieces)})

Rising(E, C, L) ==
    /\ \A i \in 1..(C + 2) : E[i] \in 0..L
    /\ \A i, j \in 1..(C + 2) : i < j => E[i] < E[j]
    /\ E[1] = 0 /\ E[C + 2] = L

\* A function on the first n numbers is a sequence of length n.
LEMMA SequenceOf ==
    ASSUME NEW n \in Nat, NEW T, NEW f \in [1..n -> T]
    PROVE  f \in Seq(T) /\ Len(f) = n
OBVIOUS

\* The ends of the batches rise from 0 to the number of pieces.
LEMMA EndsAre ==
    ASSUME NEW L \in Nat \ {0}, NEW cuts \in SUBSET (1..(L - 1)),
           NEW E, E = Ascending(cuts \cup {0, L})
    PROVE  /\ IsFiniteSet(cuts) /\ Cardinality(cuts) \in Nat
           /\ Rising(E, Cardinality(cuts), L)
<1> DEFINE S == cuts \cup {0, L}
<1>1. IsFiniteSet(cuts)
  <2>1. IsFiniteSet(1..(L - 1))
    BY FS_Interval
  <2> QED BY <2>1, FS_Subset
<1>2. PICK C \in Nat : C = Cardinality(cuts)
  BY <1>1, FS_CardinalityType
<1>3. IsFiniteSet(S) /\ Cardinality(S) = C + 2
  <2>1. IsFiniteSet(cuts \cup {0}) /\ Cardinality(cuts \cup {0}) = C + 1
    <3>1. 0 \notin cuts
      OBVIOUS
    <3> QED BY <1>1, <1>2, <3>1, FS_AddElement
  <2>2. IsFiniteSet((cuts \cup {0}) \cup {L}) /\ Cardinality((cuts \cup {0}) \cup {L}) = C + 2
    <3>1. L \notin cuts \cup {0}
      OBVIOUS
    <3> QED BY <1>2, <2>1, <3>1, FS_AddElement
  <2>3. S = (cuts \cup {0}) \cup {L}
    OBVIOUS
  <2> HIDE DEF S
  <2> QED BY <2>2, <2>3
<1>4. S \in SUBSET Int /\ S \in SUBSET (0..L) /\ 0 \in S /\ L \in S
  OBVIOUS
<1> HIDE DEF S
<1>5. /\ E \in Seq(S) /\ Len(E) = C + 2
      /\ \A i, j \in 1..(C + 2) : i < j => E[i] < E[j]
      /\ \A n \in S : \E i \in 1..(C + 2) : E[i] = n
  BY <1>3, <1>4, AscendingIs DEF S
<1>6. \A i \in 1..(C + 2) : E[i] \in 0..L
  <2>1. \A i \in 1..(C + 2) : E[i] \in S
    BY <1>5, ElementOfSeq
  <2> QED BY <1>4, <2>1
<1>7. E[1] = 0
  <2>1. PICK i \in 1..(C + 2) : E[i] = 0
    BY <1>4, <1>5
  <2>2. 1 \in 1..(C + 2) /\ (i # 1 => 1 < i)
    OBVIOUS
  <2>3. E[1] \in 0..L /\ ~(E[1] < E[i])
    BY <1>6, <2>1, <2>2
  <2> QED BY <1>5, <2>1, <2>2, <2>3
<1>8. E[C + 2] = L
  <2>1. PICK i \in 1..(C + 2) : E[i] = L
    BY <1>4, <1>5
  <2>2. C + 2 \in 1..(C + 2) /\ (i # C + 2 => i < C + 2)
    OBVIOUS
  <2>3. E[C + 2] \in 0..L /\ ~(E[i] < E[C + 2])
    BY <1>6, <2>1, <2>2
  <2> QED BY <1>5, <2>1, <2>2, <2>3
<1>9. Rising(E, C, L)
  BY <1>5, <1>6, <1>7, <1>8 DEF Rising
<1> QED BY <1>1, <1>2, <1>9

\* Neighbouring parts of a sequence are concatenated one after the other.
LEMMA FlattenAdjacent ==
    ASSUME NEW S, NEW s \in Seq(Seq(S)), NEW m \in 1..(Len(s) + 1),
           NEW k \in (m - 1)..Len(s), NEW n \in k..Len(s)
    PROVE  /\ FlattenSeq(SubSeq(s, m, k)) \in Seq(S)
           /\ FlattenSeq(SubSeq(s, k + 1, n)) \in Seq(S)
           /\ FlattenSeq(SubSeq(s, m, n)) = FlattenSeq(SubSeq(s, m, k)) \o FlattenSeq(SubSeq(s, k + 1, n))
<1>1. Len(s) \in Nat /\ m \in Int /\ k \in Int /\ n \in Int /\ k + 1 \in Int
  OBVIOUS
<1>2. \A i \in m..k : s[i] \in Seq(S)
  BY <1>1
<1>3. \A i \in (k + 1)..n : s[i] \in Seq(S)
  BY <1>1
<1>4. SubSeq(s, m, k) \in Seq(Seq(S)) /\ SubSeq(s, k + 1, n) \in Seq(Seq(S))
  BY <1>1, <1>2, <1>3, SubSeqProperties
<1>5. SubSeq(s, m, n) = SubSeq(s, m, k) \o SubSeq(s, k + 1, n)
  BY ConcatAdjacentSubSeq
<1> QED BY <1>4, <1>5, FlattenType, FlattenConcat

\* The same for the first sequences.
LEMMA FlattenFirst ==
    ASSUME NEW S, NEW s \in Seq(Seq(S)), NEW n \in 0..Len(s), NEW k \in 0..n
    PROVE  FlattenSeq(SubSeq(s, 1, n)) = FlattenSeq(SubSeq(s, 1, k)) \o FlattenSeq(SubSeq(s, k + 1, n))
<1>1. PICK m \in 1..(Len(s) + 1) : m = 1
  OBVIOUS
<1>2. k \in (m - 1)..Len(s) /\ n \in k..Len(s)
  BY <1>1
<1>3. FlattenSeq(SubSeq(s, m, n)) = FlattenSeq(SubSeq(s, m, k)) \o FlattenSeq(SubSeq(s, k + 1, n))
  BY <1>2, FlattenAdjacent
<1> QED BY <1>1, <1>3

Parts(found, pieces, E, C) ==
    \A b \in 1..(C + 1) : found[b] = FlattenSeq(SubSeq(pieces, E[b] + 1, E[b + 1]))

\* There is a batch more than cuts, and each is the pieces between two ends.
LEMMA BatchesAre ==
    ASSUME NEW S, NEW pieces \in Seq(Seq(S)), pieces # <<>>,
           NEW cuts \in SUBSET (1..(Len(pieces) - 1)),
           NEW E, E = Ends(pieces, cuts), NEW C \in Nat, C = Cardinality(cuts)
    PROVE  /\ BatchesOf(pieces, cuts) \in Seq(Seq(S))
           /\ Len(BatchesOf(pieces, cuts)) = C + 1
           /\ Parts(BatchesOf(pieces, cuts), pieces, E, C)
<1>1. Len(pieces) \in Nat \ {0}
  BY EmptySeq
<1>2. \A i \in 1..(C + 2) : E[i] \in 0..Len(pieces)
  <2>1. Rising(E, C, Len(pieces))
    BY <1>1, EndsAre DEF Ends
  <2> QED BY <2>1 DEF Rising
<1> DEFINE part(b) == FlattenSeq(SubSeq(pieces, E[b] + 1, E[b + 1]))
<1>3. BatchesOf(pieces, cuts) = [b \in 1..(C + 1) |-> part(b)]
  BY DEF BatchesOf, Ends
<1>4. ASSUME NEW b \in 1..(C + 1) PROVE part(b) \in Seq(S)
  <2>1. b \in 1..(C + 2) /\ b + 1 \in 1..(C + 2)
    OBVIOUS
  <2>2. E[b] + 1 \in Int /\ E[b + 1] \in Int
        /\ \A i \in (E[b] + 1)..E[b + 1] : i \in 1..Len(pieces)
    BY <1>1, <1>2, <2>1
  <2>3. SubSeq(pieces, E[b] + 1, E[b + 1]) \in Seq(Seq(S))
    <3>1. \A i \in (E[b] + 1)..E[b + 1] : pieces[i] \in Seq(S)
      BY <2>2
    <3> QED BY <2>2, <3>1, SubSeqProperties
  <2> QED BY <2>3, FlattenType
<1> DEFINE B == [b \in 1..(C + 1) |-> part(b)]
<1>5. DOMAIN B = 1..(C + 1) /\ B = [b \in 1..(C + 1) |-> B[b]]
      /\ \A b \in 1..(C + 1) : B[b] = part(b)
  <2> HIDE DEF part
  <2> QED OBVIOUS
<1>6. B \in Seq(Seq(S)) /\ Len(B) = C + 1
  <2>1. \A b \in 1..(C + 1) : B[b] \in Seq(S)
    <3> HIDE DEF B
    <3> QED BY <1>4, <1>5
  <2> HIDE DEF B
  <2>2. B \in [1..(C + 1) -> Seq(S)] /\ C + 1 \in Nat
    BY <1>5, <2>1
  <2> QED BY Zenon, <2>2, SequenceOf
<1> QED BY <1>3, <1>5, <1>6 DEF Parts

\* The batches have the pieces one after the other.
LEMMA BatchesFlatten ==
    ASSUME NEW S, NEW pieces \in Seq(Seq(S)), pieces # <<>>,
           NEW cuts \in SUBSET (1..(Len(pieces) - 1))
    PROVE  FlattenSeq(BatchesOf(pieces, cuts)) = FlattenSeq(pieces)
<1>1. PICK L \in Nat \ {0} : L = Len(pieces)
  BY EmptySeq
<1>2. PICK E : E = Ends(pieces, cuts)
  OBVIOUS
<1>3. PICK C \in Nat :
          /\ C = Cardinality(cuts)
          /\ \A i \in 1..(C + 2) : E[i] \in 0..L
          /\ \A i, j \in 1..(C + 2) : i < j => E[i] < E[j]
          /\ E[1] = 0 /\ E[C + 2] = L
  <2>1. cuts \in SUBSET (1..(L - 1)) /\ E = Ascending(cuts \cup {0, L})
    BY <1>1, <1>2 DEF Ends
  <2>2. Cardinality(cuts) \in Nat /\ Rising(E, Cardinality(cuts), L)
    BY <2>1, EndsAre
  <2> QED BY <2>2 DEF Rising
<1>4. PICK B \in Seq(Seq(S)) :
          /\ B = BatchesOf(pieces, cuts) /\ Len(B) = C + 1
          /\ \A b \in 1..(C + 1) : B[b] = FlattenSeq(SubSeq(pieces, E[b] + 1, E[b + 1]))
  <2>1. /\ BatchesOf(pieces, cuts) \in Seq(Seq(S)) /\ Len(BatchesOf(pieces, cuts)) = C + 1
        /\ Parts(BatchesOf(pieces, cuts), pieces, E, C)
    BY <1>2, <1>3, BatchesAre
  <2> QED BY <2>1 DEF Parts
<1> DEFINE P(k) == FlattenSeq(SubSeq(B, 1, k)) = FlattenSeq(SubSeq(pieces, 1, E[k + 1]))
           Good == {k \in Nat : P(k)}
<1>5. 0 \in Good
  <2>1. SubSeq(B, 1, 0) = <<>> /\ SubSeq(pieces, 1, 0) = <<>>
    BY SubSeqEmpty
  <2>2. P(0)
    <3>1. E[0 + 1] = 0
      BY <1>3
    <3> QED BY <2>1, <3>1
  <2> HIDE DEF P
  <2> QED BY <2>2
<1>6. ASSUME NEW k \in 0..C, k \in Good PROVE k + 1 \in Good
  <2>1. /\ SubSeq(B, 1, k) \in Seq(Seq(S)) /\ B[k + 1] \in Seq(S)
        /\ SubSeq(B, 1, k + 1) = Append(SubSeq(B, 1, k), B[k + 1])
    <3>1. k \in 0..Len(B) /\ k < Len(B)
      BY <1>4
    <3> QED BY <3>1, Firsts
  <2>2. FlattenSeq(SubSeq(B, 1, k + 1)) = FlattenSeq(SubSeq(B, 1, k)) \o B[k + 1]
    BY <2>1, FlattenAppend
  <2>3. k + 1 \in 1..(C + 1) /\ k + 1 \in 1..(C + 2) /\ k + 2 \in 1..(C + 2)
        /\ k + 1 + 1 = k + 2 /\ k + 1 < k + 2
    OBVIOUS
  <2>4. E[k + 1] \in 0..L /\ E[k + 2] \in 0..L /\ E[k + 1] < E[k + 2]
    BY <1>3, <2>3
  <2>5. PICK e \in 0..L, d \in 0..L : e = E[k + 1] /\ d = E[k + 2] /\ e < d
    BY <2>4
  <2>6. FlattenSeq(SubSeq(pieces, 1, d))
        = FlattenSeq(SubSeq(pieces, 1, e)) \o FlattenSeq(SubSeq(pieces, e + 1, d))
    <3>1. d \in 0..Len(pieces) /\ e \in 0..d
      BY <1>1, <2>5
    <3> QED BY <3>1, FlattenFirst
  <2>7. B[k + 1] = FlattenSeq(SubSeq(pieces, e + 1, d))
    BY <1>4, <2>3, <2>5
  <2>8. FlattenSeq(SubSeq(B, 1, k)) = FlattenSeq(SubSeq(pieces, 1, e))
    BY <1>6, <2>5
  <2>9. P(k + 1)
    BY <2>2, <2>3, <2>5, <2>6, <2>7, <2>8
  <2>10. k + 1 \in Nat
    OBVIOUS
  <2> HIDE DEF P
  <2> QED BY <2>9, <2>10
<1>7. P(C + 1)
  <2>1. \A k \in 0..(C + 1) : k \in Good
    <3>1. PICK N \in Nat : N = C + 1 /\ 0..(N - 1) = 0..C
      OBVIOUS
    <3> HIDE DEF Good
    <3>2. \A k \in 0..(N - 1) : k \in Good => k + 1 \in Good
      BY <1>6, <3>1
    <3>3. \A k \in 0..N : k \in Good
      BY <1>5, <3>2, UpTo
    <3> QED BY <3>1, <3>3
  <2> HIDE DEF P
  <2> QED BY <2>1
<1>8. C + 1 + 1 = C + 2
  OBVIOUS
<1>9. SubSeq(B, 1, Len(B)) = B /\ SubSeq(pieces, 1, Len(pieces)) = pieces
  BY SubSeqFull
<1> QED BY <1>1, <1>3, <1>4, <1>7, <1>8, <1>9

-----------------------------------------------------------------------------
(* The best boundaries *)

\* The image of a finite set is finite and not larger.
LEMMA ImageFinite ==
    ASSUME NEW S, IsFiniteSet(S), NEW f
    PROVE  IsFiniteSet({f[x] : x \in S}) /\ Cardinality({f[x] : x \in S}) <= Cardinality(S)
<1> DEFINE T == {f[x] : x \in S}
           g == [x \in S |-> f[x]]
<1>1. g \in Surjection(S, T)
  BY DEF Surjection
<1> HIDE DEF g, T
<1>2. IsFiniteSet(T) /\ Cardinality(T) <= Cardinality(S)
  BY <1>1, FS_Surjection
<1> QED BY <1>2 DEF T

\* Rows have at most as many documents.
LEMMA DocumentsFinite ==
    ASSUME NEW R, IsFiniteSet(R)
    PROVE  /\ IsFiniteSet(Documents(R)) /\ Cardinality(Documents(R)) \in Nat
           /\ Cardinality(Documents(R)) <= Cardinality(R)
<1>1. Documents(R) = {documentOf[row] : row \in R}
  BY DEF Documents
<1>2. IsFiniteSet(Documents(R)) /\ Cardinality(Documents(R)) <= Cardinality(R)
  BY <1>1, ImageFinite
<1> QED BY <1>2, FS_CardinalityType

\* A rank is a tuple of numbers with one more than the batches.
LEMMA RankType ==
    ASSUME Total \in Nat, NEW pieces \in Seq(Seq(1..Total)), Filled(pieces), pieces # <<>>,
           NEW count \in Nat \ {0}, NEW cuts \in SUBSET (1..(Len(pieces) - 1)),
           Cardinality(cuts) = count - 1
    PROVE  Rank(pieces, count, cuts) \in [1..(count + 1) -> Int]
<1> DEFINE found == BatchesOf(pieces, cuts)
           distance(b) == LET d == Len(found[b]) * count - Total IN IF d < 0 THEN -d ELSE d
           documents(b) == Cardinality(Documents(ToSet(found[b])))
           D == {distance(b) : b \in 1..count}
           N == {documents(b) : b \in 1..count}
           ends == Ascending(cuts)
           lasts == [i \in 1..(count - 1) |-> Last(pieces[ends[i]])]
<1>1. Rank(pieces, count, cuts) = <<Max(D), Max(N) - Min(N)>> \o lasts
  BY DEF Rank
<1>2. found \in Seq(Seq(1..Total)) /\ Len(found) = count
  <2>1. PICK C \in Nat : C = Cardinality(cuts) /\ C + 1 = count
    OBVIOUS
  <2>2. PICK E : E = Ends(pieces, cuts)
    OBVIOUS
  <2> QED BY <2>1, <2>2, BatchesAre
<1>3. IsFiniteSet(1..count) /\ 1 \in 1..count
  BY FS_Interval
<1>4. ASSUME NEW b \in 1..count PROVE distance(b) \in Int /\ documents(b) \in Int
  <2> HIDE DEF found
  <2>1. found[b] \in Seq(1..Total)
    BY <1>2
  <2>2. Len(found[b]) \in Int
    BY <2>1
  <2>3. Len(found[b]) * count - Total \in Int
    BY <2>2
  <2>4. ToSet(found[b]) \in SUBSET (1..Total)
    BY <2>1, ToSetIs
  <2>5. documents(b) \in Int
    BY <2>4, RowSetsFinite, DocumentsFinite
  <2> QED BY <2>3, <2>5
<1>5. D \in SUBSET Int /\ IsFiniteSet(D) /\ D # {}
  <2> HIDE DEF distance
  <2> DEFINE f == [b \in 1..count |-> distance(b)]
  <2>1. D = {f[b] : b \in 1..count}
    OBVIOUS
  <2> HIDE DEF f
  <2>2. IsFiniteSet(D)
    BY <1>3, <2>1, ImageFinite
  <2> QED BY <1>3, <1>4, <2>2
<1>6. N \in SUBSET Int /\ IsFiniteSet(N) /\ N # {}
  <2> HIDE DEF documents
  <2> DEFINE f == [b \in 1..count |-> documents(b)]
  <2>1. N = {f[b] : b \in 1..count}
    OBVIOUS
  <2> HIDE DEF f
  <2>2. IsFiniteSet(N)
    BY <1>3, <2>1, ImageFinite
  <2> QED BY <1>3, <1>4, <2>2
<1>7. lasts \in Seq(Int) /\ Len(lasts) = count - 1
  <2>1. count - 1 \in Nat
    OBVIOUS
  <2>2. IsFiniteSet(cuts) /\ cuts \in SUBSET Int
    <3>1. IsFiniteSet(1..(Len(pieces) - 1)) /\ Len(pieces) \in Nat
      BY FS_Interval
    <3>2. cuts \in SUBSET Int
      OBVIOUS
    <3> QED BY <3>1, <3>2, FS_Subset
  <2>3. ends \in Seq(cuts) /\ Len(ends) = count - 1
    BY <2>2, AscendingIs
  <2> HIDE DEF ends
  <2>4. ASSUME NEW i \in 1..(count - 1) PROVE Last(pieces[ends[i]]) \in Int
    <3>1. ends[i] \in cuts
      BY <2>1, <2>3, ElementOfSeq
    <3>2. ends[i] \in 1..Len(pieces)
      <4>1. ends[i] \in 1..(Len(pieces) - 1)
        BY <3>1
      <4>2. Len(pieces) \in Nat
        OBVIOUS
      <4> QED BY <4>1, <4>2
    <3>3. pieces[ends[i]] \in Seq(1..Total) /\ pieces[ends[i]] # <<>>
      BY <3>2 DEF Filled
    <3>4. PICK x \in Seq(1..Total) : x = pieces[ends[i]] /\ x # <<>>
      BY <3>3
    <3>5. x[Len(x)] \in 1..Total
      BY <3>4
    <3> QED BY <3>4, <3>5 DEF Last
  <2>5. lasts \in [1..(count - 1) -> Int]
    BY <2>4
  <2> HIDE DEF lasts
  <2> QED BY Zenon, <2>1, <2>5, SequenceOf
<1>8. Max(D) \in Int /\ Max(N) \in Int /\ Min(N) \in Int
  <2> HIDE DEF D, N
  <2>1. Max(D) \in D /\ Max(N) \in N /\ Min(N) \in N
    BY <1>5, <1>6, MaxIs, MinIs
  <2> QED BY <1>5, <1>6, <2>1
<1> HIDE DEF D, N, lasts
<1>9. PICK head \in Seq(Int) : head = <<Max(D), Max(N) - Min(N)>> /\ Len(head) = 2
  <2>1. PICK a \in Int, b \in Int : a = Max(D) /\ b = Max(N) - Min(N)
    BY <1>8
  <2>2. <<a, b>> \in Seq(Int) /\ Len(<<a, b>>) = 2
    OBVIOUS
  <2> QED BY <2>1, <2>2
<1>10. head \o lasts \in Seq(Int) /\ Len(head \o lasts) = count + 1
  BY <1>7, <1>9, ConcatProperties
<1>11. head \o lasts \in [1..(count + 1) -> Int]
  BY <1>10, LenProperties
<1> QED BY <1>1, <1>9, <1>11

\* The best boundaries are legal ones.
LEMMA BestIs ==
    ASSUME Total \in Nat, NEW pieces \in Seq(Seq(1..Total)), Filled(pieces), pieces # <<>>,
           NEW count \in Nat \ {0}, LegalCuts(pieces, count) # {}
    PROVE  \E cuts \in LegalCuts(pieces, count) : BestBoundaries(pieces, count) = BatchesOf(pieces, cuts)
<1> DEFINE legal == LegalCuts(pieces, count)
           rank == [cuts \in legal |-> Rank(pieces, count, cuts)]
           T == {Rank(pieces, count, cuts) : cuts \in legal}
<1>1. legal \in SUBSET (SUBSET (1..(Len(pieces) - 1))) /\ \A cuts \in legal : Cardinality(cuts) = count - 1
  BY DEF LegalCuts, kSubset
<1>2. IsFiniteSet(legal)
  <2>1. IsFiniteSet(1..(Len(pieces) - 1))
    <3>1. Len(pieces) - 1 \in Int
      OBVIOUS
    <3> QED BY <3>1, FS_Interval
  <2>2. IsFiniteSet(SUBSET (1..(Len(pieces) - 1)))
    BY <2>1, FS_SUBSET
  <2> HIDE DEF legal
  <2> QED BY <1>1, <2>2, FS_Subset
<1>3. T = {rank[cuts] : cuts \in legal}
  OBVIOUS
<1>4. IsFiniteSet(T) /\ T # {}
  <2> HIDE DEF rank, T, legal
  <2>1. legal # {}
    BY DEF legal
  <2> QED BY <1>2, <1>3, <2>1, ImageFinite
<1>5. T \in SUBSET [1..(count + 1) -> Int]
  <2>1. \A cuts \in legal : Rank(pieces, count, cuts) \in [1..(count + 1) -> Int]
    <3> HIDE DEF legal
    <3> QED BY <1>1, RankType
  <2> HIDE DEF legal
  <2> QED BY <2>1
<1>6. Least(T) \in T
  <2> HIDE DEF T
  <2>1. PICK n \in Nat : n = count + 1
    OBVIOUS
  <2> QED BY <1>4, <1>5, <2>1, LeastIs
<1> DEFINE best == CHOOSE cuts \in legal : Rank(pieces, count, cuts) = Least(T)
<1>7. best \in legal
  <2>1. \E cuts \in legal : Rank(pieces, count, cuts) = Least(T)
    <3> HIDE DEF legal
    <3> QED BY <1>6
  <2> HIDE DEF legal, T
  <2> QED BY <2>1
<1>8. BestBoundaries(pieces, count) = BatchesOf(pieces, best)
  BY DEF BestBoundaries
<1> HIDE DEF best
<1> QED BY <1>7, <1>8

-----------------------------------------------------------------------------
(* Batch counts for which there always are legal boundaries *)

\* A rounded-up quotient is a natural number and not above the dividend.
LEMMA CeilingBounds ==
    ASSUME NEW a \in Nat, NEW b \in Nat \ {0}
    PROVE  Ceiling(a, b) \in Nat /\ Ceiling(a, b) <= a
<1>1. PICK q \in Int : q = (a + b - 1) \div b
  OBVIOUS
<1>2. q * b <= a + b - 1 /\ a + b - 1 < q * b + b
  BY <1>1, SMT
<1>3. q >= 0
  <2>1. SUFFICES ASSUME q <= -1 PROVE FALSE
    OBVIOUS
  <2>2. q * b <= -b
    BY <2>1, SMT
  <2> QED BY <1>2, <2>2
<1>4. q <= a
  <2>1. SUFFICES ASSUME q >= a + 1 PROVE FALSE
    OBVIOUS
  <2>2. q * b >= (a + 1) * b
    BY <2>1, SMT
  <2>3. (a + 1) * b = a * b + b /\ a * b >= a
    BY SMT
  <2> QED BY <1>2, <2>2, <2>3
<1> QED BY <1>1, <1>3, <1>4 DEF Ceiling

\* Counts of the equal targets of one batch and of one row.
LEMMA TargetBounds ==
    ASSUME NEW n \in Nat \ {0}
    PROVE  /\ Ceiling(n, 2 * 1) <= n /\ n <= (3 * n) \div (2 * 1)
           /\ Ceiling(n, 2 * n) = 1 /\ (3 * n) \div (2 * n) = 1
<1>1. (n + 2 * 1 - 1) \div (2 * 1) <= n /\ n <= (3 * n) \div (2 * 1)
  BY SMT
<1>2. PICK d \in Nat \ {0} : d = 2 * n
  OBVIOUS
<1>3. \A a \in Int : d <= a /\ a < 2 * d => a \div d = 1
  BY <1>2, SMT
<1>4. n + 2 * n - 1 \in Int /\ d <= n + 2 * n - 1 /\ n + 2 * n - 1 < 2 * d
  BY <1>2
<1>5. 3 * n \in Int /\ d <= 3 * n /\ 3 * n < 2 * d
  BY <1>2
<1>6. (n + 2 * n - 1) \div (2 * n) = 1 /\ (3 * n) \div (2 * n) = 1
  BY <1>2, <1>3, <1>4, <1>5
<1> QED BY <1>1, <1>6 DEF Ceiling

\* The input has at most as many documents as rows.
LEMMA AllDocuments ==
    ASSUME Total \in Nat
    PROVE  /\ IsFiniteSet(1..Total) /\ Cardinality(1..Total) = Total
           /\ Cardinality(Documents(1..Total)) \in Nat
           /\ Cardinality(Documents(1..Total)) <= Total
<1>1. IsFiniteSet(1..Total) /\ Cardinality(1..Total) = Total
  BY FS_Interval
<1> QED BY <1>1, DocumentsFinite

\* The search starts with 1 to Total batches, with one only below both limits.
LEMMA MinimumIs ==
    ASSUME Total \in Nat \ {0}
    PROVE  /\ Minimum \in 1..Total
           /\ Minimum = 1 => Cardinality(Documents(1..Total)) < MaxDocuments /\ Total < MaxEvidenceRows
<1>1. PICK d \in Nat : d = Cardinality(Documents(1..Total)) /\ d <= Total
  BY AllDocuments
<1>2. MaxDocuments \in Nat \ {0, 1} /\ MaxEvidenceRows \in Nat \ {0, 1}
  BY PartitionAssumption
<1>3. PICK x \in 1..2 : x = IF d >= MaxDocuments \/ Total >= MaxEvidenceRows THEN 2 ELSE 1
  OBVIOUS
<1>4. PICK y \in 0..Total : y = Ceiling(d, MaxDocuments)
  BY <1>1, <1>2, CeilingBounds
<1>5. PICK z \in 0..Total : z = Ceiling(Total, MaxEvidenceRows)
  BY <1>2, CeilingBounds
<1>6. Minimum = Max({x, y, z})
  BY <1>1, <1>3, <1>4, <1>5 DEF Minimum
<1>7. x <= Total
  BY <1>1, <1>2, <1>3
<1>8. {x, y, z} \in SUBSET Int /\ IsFiniteSet({x, y, z}) /\ {x, y, z} # {}
  <2>1. IsFiniteSet(0..(Total + 2)) /\ {x, y, z} \in SUBSET (0..(Total + 2))
    BY FS_Interval
  <2>2. {x, y, z} \in SUBSET Int /\ {x, y, z} # {}
    OBVIOUS
  <2> QED BY <2>1, <2>2, FS_Subset
<1>9. Minimum \in {x, y, z} /\ x <= Minimum
  BY <1>6, <1>8, MaxIs
<1>10. Minimum \in 1..Total
  BY <1>7, <1>9
<1>11. ASSUME Minimum = 1 PROVE d < MaxDocuments /\ Total < MaxEvidenceRows
  BY <1>1, <1>2, <1>3, <1>9, <1>11
<1> QED BY <1>1, <1>10, <1>11

\* One batch of everything is legal when the search may start with it.
LEMMA LegalAtOne ==
    ASSUME Total \in Nat \ {0}, Minimum = 1,
           NEW pieces \in Seq(Seq(1..Total)), pieces # <<>>,
           FlattenSeq(pieces) = FlattenSeq(DocumentGroups)
    PROVE  LegalCuts(pieces, 1) # {}
<1>1. PICK order \in Seq(1..Total) :
          order = FlattenSeq(pieces) /\ ToSet(order) = 1..Total /\ Len(order) = Total
  BY GroupOrder
<1>2. PICK L \in Nat \ {0} : L = Len(pieces)
  BY EmptySeq
<1>3. PICK E : E = Ends(pieces, {})
  OBVIOUS
<1>4. Cardinality({}) = 0 /\ {} \in SUBSET (1..(L - 1))
  BY FS_EmptySet
<1>5. E[1] = 0 /\ E[2] = L
  <2>1. E = Ascending({} \cup {0, L})
    BY <1>2, <1>3 DEF Ends
  <2>2. Rising(E, 0, L)
    BY <1>4, <2>1, EndsAre
  <2> QED BY <2>2 DEF Rising
<1>6. BatchesOf(pieces, {})[1] = order
  <2>1. PICK C \in Nat : C = 0 /\ C = Cardinality({})
    BY <1>4
  <2>2. BatchesOf(pieces, {})[1] = FlattenSeq(SubSeq(pieces, E[1] + 1, E[1 + 1]))
    <3>1. {} \in SUBSET (1..(Len(pieces) - 1)) /\ 1 \in 1..(C + 1)
      BY <2>1
    <3>2. Parts(BatchesOf(pieces, {}), pieces, E, C)
      BY <1>3, <2>1, <3>1, BatchesAre
    <3> QED BY <3>1, <3>2 DEF Parts
  <2>3. SubSeq(pieces, E[1] + 1, E[1 + 1]) = pieces
    <3>1. E[1] + 1 = 1 /\ E[1 + 1] = Len(pieces)
      BY <1>2, <1>5
    <3> QED BY <3>1, SubSeqFull
  <2> QED BY <1>1, <2>2, <2>3
<1>7. Legal(order, 1)
  <2>1. /\ Cardinality(Documents(1..Total)) < MaxDocuments /\ Total < MaxEvidenceRows
        /\ Cardinality(Documents(1..Total)) \in Nat
        /\ MaxDocuments \in Nat /\ MaxEvidenceRows \in Nat
    BY MinimumIs, AllDocuments, PartitionAssumption
  <2>2. Ceiling(Total, 2 * 1) <= Total /\ Total <= (3 * Total) \div (2 * 1)
        /\ Ceiling(Total, 2 * 1) \in Nat /\ (3 * Total) \div (2 * 1) \in Int
    BY TargetBounds, CeilingBounds
  <2>3. Total \in Ceiling(Total, 2 * 1)..((3 * Total) \div (2 * 1))
    BY <2>2
  <2> QED BY <1>1, <2>1, <2>3 DEF Legal
<1>8. {} \in kSubset(1 - 1, 1..(L - 1))
  BY <1>4 DEF kSubset
<1>9. \A b \in 1..1 : Legal(BatchesOf(pieces, {})[b], 1)
  BY <1>6, <1>7
<1>10. {} \in LegalCuts(pieces, 1)
  BY <1>2, <1>8, <1>9 DEF LegalCuts
<1> QED BY <1>10

\* The ascending order of an interval.
LEMMA AscendingInterval ==
    ASSUME NEW n \in Nat, NEW i \in 1..(n + 1)
    PROVE  Ascending(0..n)[i] = i - 1
<1>1. IsFiniteSet(0..n) /\ Cardinality(0..n) = n + 1
  BY FS_Interval
<1>2. ASSUME NEW k \in 0..n PROVE Cardinality({m \in 0..n : m < k}) = k
  <2>1. {m \in 0..n : m < k} = 0..(k - 1)
    OBVIOUS
  <2>2. Cardinality(0..(k - 1)) = k
    BY FS_Interval
  <2> QED BY <2>1, <2>2
<1>3. Ascending(0..n)[i] = CHOOSE k \in 0..n : Cardinality({m \in 0..n : m < k}) = i - 1
  BY <1>1 DEF Ascending
<1>4. i - 1 \in 0..n
  OBVIOUS
<1>5. \A k \in 0..n : Cardinality({m \in 0..n : m < k}) = i - 1 <=> k = i - 1
  BY <1>2
<1> QED BY <1>3, <1>4, <1>5

\* The single rows are sequences of one row each.
LEMMA SingleRowsAre ==
    ASSUME Total \in Nat
    PROVE  /\ SingleRows \in Seq(Seq(1..Total)) /\ Len(SingleRows) = Total
           /\ \A i \in 1..Total : SingleRows[i] = <<FlattenSeq(DocumentGroups)[i]>>
                                  /\ FlattenSeq(DocumentGroups)[i] \in 1..Total
<1>1. PICK order \in Seq(1..Total) : order = FlattenSeq(DocumentGroups) /\ Len(order) = Total
  BY GroupOrder
<1>2. SingleRows = [i \in 1..Total |-> <<order[i]>>]
  BY <1>1 DEF SingleRows
<1>3. \A i \in 1..Total : order[i] \in 1..Total /\ <<order[i]>> \in Seq(1..Total)
  BY <1>1
<1>4. SingleRows \in [1..Total -> Seq(1..Total)] /\ \A i \in 1..Total : SingleRows[i] = <<order[i]>>
  BY <1>2, <1>3
<1>5. SingleRows \in Seq(Seq(1..Total)) /\ Len(SingleRows) = Total
  BY <1>4, SequenceOf
<1> QED BY <1>1, <1>3, <1>4, <1>5

\* A sequence of length one is its first element.
LEMMA OneElement ==
    ASSUME NEW T, NEW x \in Seq(T), Len(x) = 1
    PROVE  x = <<x[1]>>
OBVIOUS

\* One row in each batch is always legal.
LEMMA LegalAtTotal ==
    ASSUME Total \in Nat \ {0}
    PROVE  LegalCuts(SingleRows, Total) # {}
<1>1. PICK L \in Nat \ {0} : L = Total
  OBVIOUS
<1>2. PICK rows \in Seq(Seq(1..L)) :
          /\ rows = SingleRows /\ Len(rows) = L
          /\ \A i \in 1..L : \E row \in 1..L : rows[i] = <<row>>
  BY <1>1, SingleRowsAre
<1>3. PICK cuts : cuts = 1..(L - 1)
  OBVIOUS
<1>4. cuts \in SUBSET (1..(L - 1)) /\ Cardinality(cuts) = L - 1
  BY <1>3, FS_Interval
<1>5. ASSUME NEW b \in 1..L PROVE Legal(BatchesOf(rows, cuts)[b], L)
  <2>1. cuts \cup {0, L} = 0..L
    BY <1>3
  <2>2. PICK E : E = Ends(rows, cuts)
    OBVIOUS
  <2>3. E[b] = b - 1 /\ E[b + 1] = b
    <3>1. b \in 1..(L + 1) /\ b + 1 \in 1..(L + 1) /\ b + 1 - 1 = b
      OBVIOUS
    <3>2. E = Ascending(0..L)
      BY <1>2, <2>1, <2>2 DEF Ends
    <3> QED BY <3>1, <3>2, AscendingInterval
  <2>4. BatchesOf(rows, cuts)[b] = FlattenSeq(SubSeq(rows, E[b] + 1, E[b + 1]))
    <3>1. PICK C \in Nat : C = Cardinality(cuts) /\ b \in 1..(C + 1)
      BY <1>4
    <3>2. cuts \in SUBSET (1..(Len(rows) - 1)) /\ rows # <<>>
      BY <1>2, <1>4
    <3>3. Parts(BatchesOf(rows, cuts), rows, E, C)
      BY <2>2, <3>1, <3>2, BatchesAre
    <3> QED BY <3>1, <3>3 DEF Parts
  <2>5. E[b] + 1 = b
    BY <2>3
  <2>6. PICK row \in 1..L : rows[b] = <<row>>
    BY <1>2
  <2>7. SubSeq(rows, b, b) = <<rows[b]>>
    <3>1. /\ SubSeq(rows, b, b) \in Seq(Seq(1..L)) /\ Len(SubSeq(rows, b, b)) = 1
          /\ SubSeq(rows, b, b)[1] = rows[b]
      <4>1. \A i \in b..b : rows[i] \in Seq(1..L)
        BY <1>2
      <4>2. b \in Int /\ b - b + 1 = 1 /\ b + 1 - 1 = b
        OBVIOUS
      <4> QED BY <4>1, <4>2, SubSeqProperties
    <3>2. PICK x \in Seq(Seq(1..L)) : x = SubSeq(rows, b, b) /\ Len(x) = 1 /\ x[1] = rows[b]
      BY <3>1
    <3>3. x = <<x[1]>>
      BY <3>2, OneElement
    <3> QED BY <3>2, <3>3
  <2>8. FlattenSeq(<<rows[b]>>) = <<row>>
    <3>1. <<row>> \in Seq(1..L)
      OBVIOUS
    <3> QED BY <2>6, <3>1, FlattenOne
  <2>9. BatchesOf(rows, cuts)[b] = <<row>>
    BY <2>3, <2>4, <2>5, <2>7, <2>8
  <2>10. Cardinality(Documents(ToSet(<<row>>))) <= 1 /\ Cardinality(Documents(ToSet(<<row>>))) \in Nat
    <3>1. ToSet(<<row>>) = {row}
      BY DEF ToSet
    <3>2. IsFiniteSet({row}) /\ Cardinality({row}) = 1
      BY FS_Singleton
    <3>3. Cardinality(Documents({row})) <= Cardinality({row}) /\ Cardinality(Documents({row})) \in Nat
      BY <3>2, DocumentsFinite
    <3> QED BY <3>1, <3>2, <3>3
  <2>11. 1 <= MaxEvidenceRows /\ 1 <= MaxDocuments /\ MaxDocuments \in Nat
    BY PartitionAssumption
  <2>12. Len(<<row>>) = 1
    OBVIOUS
  <2>13. 1 \in Ceiling(Total, 2 * L)..((3 * Total) \div (2 * L))
    <3>1. Ceiling(Total, 2 * L) = 1 /\ (3 * Total) \div (2 * L) = 1
      BY <1>1, TargetBounds
    <3> QED BY <3>1
  <2>14. Legal(<<row>>, L)
    BY <2>10, <2>11, <2>12, <2>13 DEF Legal
  <2> QED BY <2>9, <2>14
<1>6. cuts \in LegalCuts(rows, L)
  BY <1>2, <1>4, <1>5 DEF LegalCuts, kSubset
<1> QED BY <1>1, <1>2, <1>6

-----------------------------------------------------------------------------
(* A split *)

\* Filled sequences one after the other are filled.
LEMMA FilledConcat ==
    ASSUME NEW S, NEW s \in Seq(Seq(S)), NEW t \in Seq(Seq(S)), Filled(s), Filled(t)
    PROVE  Filled(s \o t)
<1>1. /\ Len(s \o t) = Len(s) + Len(t) /\ Len(s) \in Nat /\ Len(t) \in Nat
      /\ \A i \in 1..(Len(s) + Len(t)) : (s \o t)[i] = IF i <= Len(s) THEN s[i] ELSE t[i - Len(s)]
  BY ConcatProperties
<1>2. ASSUME NEW i \in 1..(Len(s) + Len(t)) PROVE (s \o t)[i] # <<>>
  <2>1. CASE i <= Len(s)
    <3>1. i \in 1..Len(s)
      BY <1>1, <2>1
    <3>2. (s \o t)[i] = s[i]
      BY <1>1, <2>1
    <3> QED BY <3>1, <3>2 DEF Filled
  <2>2. CASE ~(i <= Len(s))
    <3>1. i - Len(s) \in 1..Len(t)
      BY <1>1, <2>2
    <3> QED BY <1>1, <2>2, <3>1 DEF Filled
  <2> QED BY <2>1, <2>2
<1> QED BY <1>1, <1>2 DEF Filled

PartOf(t, s, m, n) == \A i \in 1..(n - m + 1) : t[i] = s[m + i - 1]

\* The elements of a part.
LEMMA PartIs ==
    ASSUME NEW S, NEW s \in Seq(S), NEW m \in 1..(Len(s) + 1), NEW n \in 0..Len(s)
    PROVE  /\ SubSeq(s, m, n) \in Seq(S)
           /\ Len(SubSeq(s, m, n)) = IF m <= n THEN n - m + 1 ELSE 0
           /\ PartOf(SubSeq(s, m, n), s, m, n)
<1>1. Len(s) \in Nat /\ m \in Int /\ n \in Int
  OBVIOUS
<1>2. \A i \in m..n : s[i] \in S
  BY <1>1
<1> QED BY <1>1, <1>2, SubSeqProperties DEF PartOf

\* A part of a filled sequence is filled.
LEMMA FilledPart ==
    ASSUME NEW S, NEW s \in Seq(Seq(S)), Filled(s), NEW m \in 1..(Len(s) + 1), NEW n \in 0..Len(s)
    PROVE  SubSeq(s, m, n) \in Seq(Seq(S)) /\ Filled(SubSeq(s, m, n))
<1>1. Len(s) \in Nat /\ m \in Int /\ n \in Int
  OBVIOUS
<1>2. /\ SubSeq(s, m, n) \in Seq(Seq(S))
      /\ Len(SubSeq(s, m, n)) = IF m <= n THEN n - m + 1 ELSE 0
      /\ PartOf(SubSeq(s, m, n), s, m, n)
  BY PartIs
<1>3. \A i \in 1..(n - m + 1) : SubSeq(s, m, n)[i] = s[m + i - 1]
  BY <1>2 DEF PartOf
<1>4. ASSUME NEW i \in 1..Len(SubSeq(s, m, n)) PROVE SubSeq(s, m, n)[i] # <<>>
  <2>1. m <= n /\ i \in 1..(n - m + 1) /\ m + i - 1 \in 1..Len(s)
    BY <1>1, <1>2
  <2> QED BY <1>3, <2>1 DEF Filled
<1> QED BY <1>2, <1>4 DEF Filled

\* The first pieces and the others, concatenated, are all.
LEMMA FlattenHalves ==
    ASSUME NEW S, NEW s \in Seq(Seq(S)), NEW k \in 0..Len(s)
    PROVE  FlattenSeq(s) = FlattenSeq(SubSeq(s, 1, k)) \o FlattenSeq(SubSeq(s, k + 1, Len(s)))
<1>1. PICK n \in 0..Len(s) : n = Len(s) /\ k \in 0..n
  OBVIOUS
<1>2. FlattenSeq(SubSeq(s, 1, n)) = FlattenSeq(SubSeq(s, 1, k)) \o FlattenSeq(SubSeq(s, k + 1, n))
  BY <1>1, FlattenFirst
<1>3. SubSeq(s, 1, Len(s)) = s
  BY SubSeqFull
<1> QED BY <1>1, <1>2, <1>3

\* A split keeps the rows and their order.
LEMMA SplitIs ==
    ASSUME NEW S, NEW pieces \in Seq(Seq(S)), Filled(pieces),
           NEW i \in 1..Len(pieces), NEW cut \in 1..(Len(pieces[i]) - 1)
    PROVE  /\ SplitAt(pieces, i, cut) \in Seq(Seq(S)) /\ Filled(SplitAt(pieces, i, cut))
           /\ FlattenSeq(SplitAt(pieces, i, cut)) = FlattenSeq(pieces)
<1>1. PICK L \in Nat : L = Len(pieces) /\ i \in 1..L
  OBVIOUS
<1>2. PICK x \in Seq(S) : x = pieces[i]
  OBVIOUS
<1>3. PICK M \in Nat : M = Len(x) /\ cut \in 1..(M - 1)
  BY <1>2
<1>4. PICK before \in Seq(Seq(S)) :
          before = SubSeq(pieces, 1, i - 1) /\ Filled(before) /\ SubSeq(pieces, 1, i) = Append(before, x)
  <2>1. PICK k \in 0..Len(pieces) : k = i - 1 /\ k + 1 = i /\ k < Len(pieces)
    BY <1>1
  <2>2. 1 \in 1..(Len(pieces) + 1)
    BY <1>1
  <2>3. SubSeq(pieces, 1, k) \in Seq(Seq(S)) /\ Filled(SubSeq(pieces, 1, k))
    BY <2>2, FilledPart
  <2>4. SubSeq(pieces, 1, k + 1) = Append(SubSeq(pieces, 1, k), pieces[k + 1])
    BY <2>1, Firsts
  <2> QED BY <1>2, <2>1, <2>3, <2>4
<1>5. PICK after \in Seq(Seq(S)) : after = SubSeq(pieces, i + 1, L) /\ Filled(after)
  <2>1. i + 1 \in 1..(Len(pieces) + 1) /\ L \in 0..Len(pieces)
    BY <1>1
  <2> QED BY <2>1, FilledPart
<1>6. PICK y \in Seq(S), z \in Seq(S) :
          /\ y = SubSeq(x, 1, cut) /\ z = SubSeq(x, cut + 1, M)
          /\ y # <<>> /\ z # <<>> /\ y \o z = x
  <2>1. 1 \in Int /\ cut \in Int /\ M \in Int /\ cut + 1 \in Int
        /\ (\A j \in 1..cut : x[j] \in S) /\ (\A j \in (cut + 1)..M : x[j] \in S)
    BY <1>3
  <2>2. SubSeq(x, 1, cut) \in Seq(S) /\ Len(SubSeq(x, 1, cut)) = IF 1 <= cut THEN cut - 1 + 1 ELSE 0
    BY <2>1, SubSeqProperties
  <2>3. SubSeq(x, cut + 1, M) \in Seq(S)
        /\ Len(SubSeq(x, cut + 1, M)) = IF cut + 1 <= M THEN M - (cut + 1) + 1 ELSE 0
    BY <2>1, SubSeqProperties
  <2>4. Len(SubSeq(x, 1, cut)) # 0 /\ Len(SubSeq(x, cut + 1, M)) # 0
    BY <1>3, <2>2, <2>3
  <2>5. Len(<<>>) = 0
    OBVIOUS
  <2>6. SubSeq(x, 1, cut) # <<>> /\ SubSeq(x, cut + 1, M) # <<>>
    BY <2>4, <2>5
  <2>7. SubSeq(x, 1, cut) \o SubSeq(x, cut + 1, M) = SubSeq(x, 1, M)
    <3>1. 1 \in 1..(Len(x) + 1) /\ cut \in (1 - 1)..Len(x) /\ M \in cut..Len(x)
      BY <1>3
    <3> QED BY <3>1, ConcatAdjacentSubSeq
  <2>8. SubSeq(x, 1, M) = x
    BY <1>3, SubSeqFull
  <2> QED BY <2>2, <2>3, <2>6, <2>7, <2>8
<1>7. SplitAt(pieces, i, cut) = before \o <<y, z>> \o after
  BY <1>1, <1>2, <1>3, <1>4, <1>5, <1>6 DEF SplitAt
<1>8. PICK two \in Seq(Seq(S)) : two = <<y, z>> /\ Filled(two) /\ FlattenSeq(two) = x
  <2>1. <<y, z>> \in Seq(Seq(S)) /\ <<y>> \in Seq(Seq(S)) /\ <<y, z>> = Append(<<y>>, z)
    OBVIOUS
  <2>2. FlattenSeq(Append(<<y>>, z)) = FlattenSeq(<<y>>) \o z
    BY <2>1, FlattenAppend
  <2>3. FlattenSeq(<<y>>) = y
    BY FlattenOne
  <2>4. Filled(<<y, z>>)
    <3>1. Len(<<y, z>>) = 2 /\ <<y, z>>[1] = y /\ <<y, z>>[2] = z
      OBVIOUS
    <3>2. \A j \in 1..2 : j = 1 \/ j = 2
      OBVIOUS
    <3>3. \A j \in 1..2 : <<y, z>>[j] # <<>>
      BY <1>6, <3>1, <3>2
    <3> QED BY <3>1, <3>3 DEF Filled
  <2> QED BY <1>6, <2>1, <2>2, <2>3, <2>4
<1>9. before \o two \in Seq(Seq(S)) /\ Filled(before \o two)
      /\ FlattenSeq(before \o two) = FlattenSeq(before) \o x
  BY <1>4, <1>8, FilledConcat, FlattenConcat, ConcatProperties
<1>10. (before \o two) \o after \in Seq(Seq(S)) /\ Filled((before \o two) \o after)
       /\ FlattenSeq((before \o two) \o after) = FlattenSeq(before \o two) \o FlattenSeq(after)
  BY <1>5, <1>9, FilledConcat, FlattenConcat, ConcatProperties
<1>11. FlattenSeq(pieces) = FlattenSeq(Append(before, x)) \o FlattenSeq(after)
  <2>1. PICK e \in 0..Len(pieces) : e = i
    BY <1>1
  <2>2. FlattenSeq(pieces) = FlattenSeq(SubSeq(pieces, 1, e)) \o FlattenSeq(SubSeq(pieces, e + 1, Len(pieces)))
    BY FlattenHalves
  <2> QED BY <1>1, <1>4, <1>5, <2>1, <2>2
<1>12. FlattenSeq(Append(before, x)) = FlattenSeq(before) \o x
  BY FlattenAppend
<1> QED BY <1>7, <1>8, <1>9, <1>10, <1>11, <1>12

\* The distance of a position to the nearest multiple of the target.
Distance(position, count) ==
    Min({LET d == position * count - Total * k IN IF d < 0 THEN -d ELSE d : k \in 1..(count - 1)})

\* The distance of a position is a number: there is a multiple to be near to.
LEMMA NearestDistance ==
    ASSUME Total \in Nat, NEW position \in Int, NEW count \in Nat, count >= 2
    PROVE  Distance(position, count) \in Int
<1> DEFINE f == [k \in 1..(count - 1) |-> LET d == position * count - Total * k IN IF d < 0 THEN -d ELSE d]
           T == {f[k] : k \in 1..(count - 1)}
<1>1. ASSUME NEW k \in 1..(count - 1) PROVE f[k] \in Int
  <2>1. position * count \in Int
    OBVIOUS
  <2>2. Total * k \in Int
    OBVIOUS
  <2>3. position * count - Total * k \in Int
    BY <2>1, <2>2
  <2> QED BY <2>3
<1>2. T = {LET d == position * count - Total * k IN IF d < 0 THEN -d ELSE d : k \in 1..(count - 1)}
  OBVIOUS
<1>3. IsFiniteSet(1..(count - 1)) /\ 1 \in 1..(count - 1)
  <2>1. count - 1 \in Int
    OBVIOUS
  <2> QED BY <2>1, FS_Interval
<1>4. T \in SUBSET Int /\ IsFiniteSet(T) /\ T # {}
  <2> HIDE DEF f
  <2> QED BY <1>1, <1>3, ImageFinite
<1>5. Min(T) \in T
  <2> HIDE DEF T
  <2> QED BY <1>4, MinIs
<1>6. Min(T) \in Int
  <2> HIDE DEF T
  <2> QED BY <1>4, <1>5
<1> QED BY <1>2, <1>6 DEF Distance

Keys(key, L, n) == \A i \in 1..L : \A cut \in 1..(n[i] - 1) : key[i][cut] \in [1..4 -> Int]
KeySet(key, n, i) == {key[i][cut] : cut \in 1..(n[i] - 1)}

IsKey(t, key, L, n) == \E i \in 1..L : \E cut \in 1..(n[i] - 1) : t = key[i][cut]

\* The least of the tuples of all positions is that of a position.
LEMMA LeastPosition ==
    ASSUME NEW L \in Nat, NEW n \in [1..L -> Nat], NEW key, Keys(key, L, n), NEW j \in 1..L, n[j] >= 2
    PROVE  IsKey(Least(UNION {KeySet(key, n, u) : u \in 1..L}), key, L, n)
<1>1. ASSUME NEW i \in 1..L PROVE IsFiniteSet(KeySet(key, n, i)) /\ KeySet(key, n, i) \in SUBSET [1..4 -> Int]
  <2>1. PICK m \in Int : m = n[i] - 1
    OBVIOUS
  <2>2. PICK f : f = key[i]
    OBVIOUS
  <2>3. IsFiniteSet(1..m)
    BY FS_Interval
  <2>4. IsFiniteSet({f[cut] : cut \in 1..m})
    BY <2>3, ImageFinite
  <2>5. KeySet(key, n, i) = {f[cut] : cut \in 1..m}
    BY <2>1, <2>2 DEF KeySet
  <2>6. \A cut \in 1..m : f[cut] \in [1..4 -> Int]
    BY <2>1, <2>2 DEF Keys
  <2> QED BY <2>4, <2>5, <2>6
<1>2. KeySet(key, n, j) # {}
  <2>1. 1 \in 1..(n[j] - 1)
    OBVIOUS
  <2> QED BY <2>1 DEF KeySet
<1> DEFINE g == [u \in 1..L |-> KeySet(key, n, u)]
           U == {g[u] : u \in 1..L}
           T == UNION {KeySet(key, n, u) : u \in 1..L}
<1>3. T = UNION U
  OBVIOUS
<1>4. IsFiniteSet(U)
  <2>1. IsFiniteSet(1..L)
    BY FS_Interval
  <2> HIDE DEF g
  <2> QED BY <2>1, ImageFinite
<1>5. \A u \in U : IsFiniteSet(u) /\ u \in SUBSET [1..4 -> Int]
  BY <1>1
<1>6. T # {}
  BY <1>2
<1>7. \A t \in T : \E i \in 1..L : t \in KeySet(key, n, i)
  OBVIOUS
<1> HIDE DEF U, T
<1>8. IsFiniteSet(UNION U)
  BY <1>4, <1>5, FS_UNION
<1>9. T \in SUBSET [1..4 -> Int] /\ IsFiniteSet(T)
  BY <1>3, <1>5, <1>8
<1>10. Least(T) \in T
  <2>1. PICK k \in Nat : k = 4
    OBVIOUS
  <2> QED BY <1>6, <1>9, <2>1, LeastIs
<1>11. PICK i \in 1..L : Least(T) \in KeySet(key, n, i)
  BY <1>7, <1>10
<1>12. \E cut \in 1..(n[i] - 1) : Least(T) = key[i][cut]
  BY <1>11 DEF KeySet
<1> QED BY <1>12 DEF T, IsKey

CutKey(pieces, count, i, cut) == <<Distance(Offset(pieces, i) + cut, count), -Len(pieces[i]), i, cut>>
CutKeys(pieces, count, i) == {CutKey(pieces, count, i, cut) : cut \in 1..(Len(pieces[i]) - 1)}

\* The tuple of a cut has four numbers, the last two its position.
LEMMA CutKeyType ==
    ASSUME Total \in Nat, NEW pieces \in Seq(Seq(1..Total)), NEW count \in Nat, count >= 2,
           NEW i \in 1..Len(pieces), NEW cut \in 1..(Len(pieces[i]) - 1)
    PROVE  /\ CutKey(pieces, count, i, cut) \in [1..4 -> Int]
           /\ CutKey(pieces, count, i, cut)[3] = i /\ CutKey(pieces, count, i, cut)[4] = cut
<1>1. Offset(pieces, i) \in Nat
  <2>1. PICK k \in 0..Len(pieces) : k = i - 1
    OBVIOUS
  <2>2. SubSeq(pieces, 1, k) \in Seq(Seq(1..Total))
    BY Firsts
  <2>3. FlattenSeq(SubSeq(pieces, 1, k)) \in Seq(1..Total)
    BY <2>2, FlattenType
  <2>4. Len(FlattenSeq(SubSeq(pieces, 1, k))) \in Nat
    BY <2>3
  <2> QED BY <2>1, <2>4 DEF Offset
<1>2. Offset(pieces, i) + cut \in Int
  BY <1>1
<1>3. PICK a \in Int, b \in Int : a = Distance(Offset(pieces, i) + cut, count) /\ b = -Len(pieces[i])
  <2>1. PICK p \in Int : p = Offset(pieces, i) + cut
    BY <1>2
  <2>2. Distance(p, count) \in Int
    BY NearestDistance
  <2>3. -Len(pieces[i]) \in Int
    OBVIOUS
  <2> QED BY <2>1, <2>2, <2>3
<1>4. <<a, b, i, cut>> \in Seq(Int) /\ Len(<<a, b, i, cut>>) = 4
      /\ <<a, b, i, cut>>[3] = i /\ <<a, b, i, cut>>[4] = cut
  OBVIOUS
<1>5. <<a, b, i, cut>> \in [1..4 -> Int]
  BY <1>4, LenProperties
<1> QED BY <1>3, <1>4, <1>5 DEF CutKey

\* The nearest cut is inside one of the pieces, when some piece can be cut.
LEMMA NearestCutIs ==
    ASSUME Total \in Nat, NEW pieces \in Seq(Seq(1..Total)), NEW count \in Nat, count >= 2,
           NEW j \in 1..Len(pieces), Len(pieces[j]) >= 2
    PROVE  \E i \in 1..Len(pieces) : \E cut \in 1..(Len(pieces[i]) - 1) :
               NearestCut(pieces, count)[3] = i /\ NearestCut(pieces, count)[4] = cut
<1>1. PICK L \in Nat : L = Len(pieces) /\ DOMAIN pieces = 1..L
  OBVIOUS
<1>2. PICK n \in [1..L -> Nat] : \A i \in 1..L : n[i] = Len(pieces[i])
  <2> DEFINE f == [i \in 1..L |-> Len(pieces[i])]
  <2>1. \A i \in 1..L : Len(pieces[i]) \in Nat
    BY <1>1
  <2>2. f \in [1..L -> Nat] /\ \A i \in 1..L : f[i] = Len(pieces[i])
    BY <2>1
  <2> HIDE DEF f
  <2> QED BY <2>2
<1>3. PICK key : \A i \in 1..L : \A cut \in 1..(n[i] - 1) : key[i][cut] = CutKey(pieces, count, i, cut)
  <2> DEFINE f == [i \in 1..L |-> [cut \in 1..(n[i] - 1) |-> CutKey(pieces, count, i, cut)]]
  <2>1. \A i \in 1..L : \A cut \in 1..(n[i] - 1) : f[i][cut] = CutKey(pieces, count, i, cut)
    OBVIOUS
  <2> HIDE DEF f
  <2> QED BY <2>1
<1>4. NearestCut(pieces, count) = Least(UNION {CutKeys(pieces, count, i) : i \in DOMAIN pieces})
  BY DEF NearestCut, Distance, CutKeys, CutKey
<1>5. ASSUME NEW i \in 1..L PROVE KeySet(key, n, i) = CutKeys(pieces, count, i)
  BY <1>2, <1>3 DEF KeySet, CutKeys
<1>6. Keys(key, L, n)
  <2>1. ASSUME NEW i \in 1..L, NEW cut \in 1..(n[i] - 1) PROVE key[i][cut] \in [1..4 -> Int]
    <3>1. i \in 1..Len(pieces) /\ cut \in 1..(Len(pieces[i]) - 1)
      BY <1>1, <1>2
    <3>2. CutKey(pieces, count, i, cut) \in [1..4 -> Int]
      BY <3>1, CutKeyType
    <3> QED BY <1>3, <3>2
  <2> QED BY <2>1 DEF Keys
<1>7. {KeySet(key, n, u) : u \in 1..L} = {CutKeys(pieces, count, i) : i \in DOMAIN pieces}
  BY <1>1, <1>5
<1>8. j \in 1..L /\ n[j] >= 2
  BY <1>1, <1>2
<1>9. PICK i \in 1..L : \E cut \in 1..(n[i] - 1) :
           Least(UNION {KeySet(key, n, u) : u \in 1..L}) = key[i][cut]
  <2>1. IsKey(Least(UNION {KeySet(key, n, u) : u \in 1..L}), key, L, n)
    BY <1>6, <1>8, LeastPosition
  <2> QED BY <2>1 DEF IsKey
<1>10. PICK cut \in 1..(n[i] - 1) : Least(UNION {KeySet(key, n, u) : u \in 1..L}) = key[i][cut]
  BY <1>9
<1>11. NearestCut(pieces, count) = CutKey(pieces, count, i, cut)
  BY <1>3, <1>4, <1>7, <1>10
<1>12. i \in 1..Len(pieces) /\ cut \in 1..(Len(pieces[i]) - 1)
  BY <1>1, <1>2
<1>13. NearestCut(pieces, count)[3] = i /\ NearestCut(pieces, count)[4] = cut
  BY <1>11, <1>12, CutKeyType
<1> QED BY <1>12, <1>13

-----------------------------------------------------------------------------
(* The inductive invariant *)

\* Pieces that have the rows in the order of the groups.
Complete(pieces) ==
    /\ pieces \in Seq(Seq(1..Total)) /\ Filled(pieces)
    /\ FlattenSeq(pieces) = FlattenSeq(DocumentGroups)

\* The segments are complete and the count is one that may be tried; every smaller one
\* was tried with single rows in vain, and this one with whole documents if they are
\* split; the result is what _best_boundaries returns for the segments.
PartInv ==
    /\ documentOf \in Inputs
    /\ Complete(segments)
    /\ batchCount \in Minimum..Total
    /\ \A count \in Minimum..(batchCount - 1) : LegalCuts(SingleRows, count) = {}
    /\ segments # DocumentGroups => LegalCuts(DocumentGroups, batchCount) = {}
    /\ batches # <<>> =>
        LegalCuts(segments, batchCount) # {} /\ batches = BestBoundaries(segments, batchCount)

\* The input has a row.
LEMMA InputTotal ==
    ASSUME documentOf \in Inputs
    PROVE  Total \in Nat \ {0}
BY PartitionAssumption DEF Total

\* Complete pieces are at most as many as rows; as many only if each is one row, and
\* with fewer there is one that can be cut.
LEMMA CompleteIs ==
    ASSUME Total \in Nat \ {0}, NEW pieces, Complete(pieces)
    PROVE  /\ pieces # <<>> /\ Len(pieces) \in Nat /\ Len(pieces) <= Total
           /\ Len(pieces) = Total => pieces = SingleRows
           /\ Len(pieces) < Total => \E j \in 1..Len(pieces) : Len(pieces[j]) >= 2
<1>1. pieces \in Seq(Seq(1..Total)) /\ Filled(pieces) /\ FlattenSeq(pieces) = FlattenSeq(DocumentGroups)
  BY DEF Complete
<1>2. PICK order \in Seq(1..Total) : order = FlattenSeq(DocumentGroups) /\ Len(order) = Total
  BY GroupOrder
<1>3. Len(pieces) <= Total /\ (Len(pieces) = Total <=> Singles(pieces))
  BY <1>1, <1>2, FlattenLong
<1>4. pieces # <<>>
  <2>1. Len(<<>>) = 0
    OBVIOUS
  <2>2. order # <<>>
    BY <1>2, <2>1
  <2> QED BY <1>1, <1>2, <2>2, FlattenEmpty
<1>5. ASSUME Len(pieces) = Total PROVE pieces = SingleRows
  <2>1. Singles(pieces)
    BY <1>3, <1>5
  <2>2. \A i \in 1..Len(pieces) : pieces[i] = <<order[i]>>
    BY <1>1, <1>2, <2>1, FlattenSingles
  <2>3. SingleRows \in Seq(Seq(1..Total)) /\ Len(SingleRows) = Total
        /\ \A i \in 1..Total : SingleRows[i] = <<order[i]>>
    BY <1>2, SingleRowsAre
  <2> QED BY <1>1, <1>5, <2>2, <2>3, SeqEqual
<1>6. ASSUME Len(pieces) < Total PROVE \E j \in 1..Len(pieces) : Len(pieces[j]) >= 2
  <2>1. ~ Singles(pieces)
    BY <1>1, <1>3, <1>6
  <2>2. PICK j \in 1..Len(pieces) : Len(pieces[j]) # 1
    BY <2>1 DEF Singles
  <2>3. pieces[j] \in Seq(1..Total) /\ pieces[j] # <<>>
    BY <1>1 DEF Filled
  <2>4. Len(pieces[j]) \in Nat /\ Len(pieces[j]) # 0
    BY <2>3, EmptySeq
  <2>5. PICK n \in Nat : n = Len(pieces[j])
    BY <2>4
  <2>6. n # 0 /\ n # 1
    BY <2>2, <2>4, <2>5
  <2>7. n >= 2
    BY <2>6
  <2> QED BY <2>5, <2>7
<1> QED BY <1>1, <1>3, <1>4, <1>5, <1>6

\* The groups by document are complete.
LEMMA GroupsComplete ==
    ASSUME Total \in Nat
    PROVE  Complete(DocumentGroups)
BY GroupsAre DEF Complete

\* Pieces stay complete when one is split at the nearest cut.
LEMMA SplitComplete ==
    ASSUME Total \in Nat \ {0}, NEW pieces, Complete(pieces), NEW count \in Nat, count >= 2,
           Len(pieces) < Total
    PROVE  Complete(SplitAt(pieces, NearestCut(pieces, count)[3], NearestCut(pieces, count)[4]))
<1>1. pieces \in Seq(Seq(1..Total)) /\ Filled(pieces) /\ FlattenSeq(pieces) = FlattenSeq(DocumentGroups)
  BY DEF Complete
<1>2. PICK j \in 1..Len(pieces) : Len(pieces[j]) >= 2
  BY CompleteIs
<1>3. PICK i \in 1..Len(pieces) : \E cut \in 1..(Len(pieces[i]) - 1) :
          NearestCut(pieces, count)[3] = i /\ NearestCut(pieces, count)[4] = cut
  BY <1>1, <1>2, NearestCutIs
<1>4. PICK cut \in 1..(Len(pieces[i]) - 1) :
          NearestCut(pieces, count)[3] = i /\ NearestCut(pieces, count)[4] = cut
  BY <1>3
<1>5. /\ SplitAt(pieces, i, cut) \in Seq(Seq(1..Total)) /\ Filled(SplitAt(pieces, i, cut))
      /\ FlattenSeq(SplitAt(pieces, i, cut)) = FlattenSeq(pieces)
  BY <1>1, SplitIs
<1> QED BY <1>1, <1>4, <1>5 DEF Complete

-----------------------------------------------------------------------------
(* The rows do not change, and nothing that is computed from them alone *)

\* The rows decide the groups, the first count and the single rows.
LEMMA SameRows ==
    ASSUME documentOf' = documentOf
    PROVE  /\ Total' = Total /\ DocumentGroups' = DocumentGroups /\ Minimum' = Minimum
           /\ SingleRows' = SingleRows
<1>1. Total' = Total
  BY DEF Total
<1>2. DocumentGroups' = DocumentGroups
  BY <1>1 DEF DocumentGroups
<1>3. Minimum' = Minimum
  BY <1>1 DEF Minimum, Documents
<1>4. SingleRows' = SingleRows
  BY <1>1, <1>2 DEF SingleRows
<1> QED BY <1>1, <1>2, <1>3, <1>4

\* Which cuts are legal and best depends on the rows, the pieces and the count alone.
LEMMA SameCuts ==
    ASSUME documentOf' = documentOf
    PROVE  /\ LegalCuts(segments, batchCount)' = LegalCuts(segments', batchCount')
           /\ LegalCuts(DocumentGroups, batchCount)' = LegalCuts(DocumentGroups, batchCount')
           /\ BestBoundaries(segments, batchCount)' = BestBoundaries(segments', batchCount')
<1>1. Total' = Total /\ DocumentGroups' = DocumentGroups
  BY SameRows
<1>2. LegalCuts(segments, batchCount)' = LegalCuts(segments', batchCount')
  BY <1>1 DEF LegalCuts, Legal, Documents
<1>3. LegalCuts(DocumentGroups, batchCount)' = LegalCuts(DocumentGroups, batchCount')
  BY <1>1 DEF LegalCuts, Legal, Documents
<1>4. BestBoundaries(segments, batchCount)' = BestBoundaries(segments', batchCount')
  BY <1>1, <1>2 DEF BestBoundaries, Rank, Documents
<1> QED BY <1>2, <1>3, <1>4

\* Which cuts of single rows are legal depends on the rows alone.
LEMMA SameBelow ==
    ASSUME documentOf' = documentOf, NEW count
    PROVE  LegalCuts(SingleRows, count)' = LegalCuts(SingleRows, count)
BY SameRows DEF LegalCuts, Legal, Documents

\* Whether pieces are complete depends on the rows alone.
LEMMA SameComplete ==
    ASSUME documentOf' = documentOf
    PROVE  Complete(segments)' <=> Complete(segments')
BY SameRows DEF Complete

-----------------------------------------------------------------------------
(* The invariant is inductive *)

\* The search starts with the invariant.
LEMMA PartInit == Init => PartInv
<1> SUFFICES ASSUME Init PROVE PartInv
  OBVIOUS
<1>1. documentOf \in Inputs /\ segments = DocumentGroups /\ batchCount = Minimum /\ batches = <<>>
  BY DEF Init
<1>2. Total \in Nat \ {0}
  BY <1>1, InputTotal
<1>3. Complete(DocumentGroups)
  BY <1>2, GroupsComplete
<1>4. Minimum \in 1..Total
  BY <1>2, MinimumIs
<1>5. batchCount \in Minimum..Total /\ Minimum..(batchCount - 1) = {}
  BY <1>1, <1>2, <1>4
<1> QED BY <1>1, <1>3, <1>5 DEF PartInv

\* Every step of the search keeps the invariant.
LEMMA PartNext == PartInv /\ [Next]_vars => PartInv'
<1> SUFFICES ASSUME PartInv, [Next]_vars PROVE PartInv'
  OBVIOUS
<1>1. /\ documentOf \in Inputs /\ Complete(segments) /\ batchCount \in Minimum..Total
      /\ \A count \in Minimum..(batchCount - 1) : LegalCuts(SingleRows, count) = {}
      /\ segments # DocumentGroups => LegalCuts(DocumentGroups, batchCount) = {}
  BY DEF PartInv
<1>2. PICK T \in Nat \ {0}, M \in Nat : T = Total /\ M = Minimum /\ M \in 1..T
  BY <1>1, InputTotal, MinimumIs
<1>3. batchCount \in M..T /\ batchCount \in Nat \ {0}
  BY <1>1, <1>2
<1>4. documentOf' = documentOf
  BY DEF Next, Found, Split, NextCount, Finished, vars
<1>5. documentOf' \in Inputs
  BY <1>1, <1>4
<1>6. Total' = T /\ DocumentGroups' = DocumentGroups /\ Minimum' = M /\ SingleRows' = SingleRows
  BY <1>2, <1>4, SameRows
<1>7. \A count : LegalCuts(SingleRows, count)' = LegalCuts(SingleRows, count)
  BY <1>4, SameBelow
<1>8. /\ LegalCuts(segments, batchCount)' = LegalCuts(segments', batchCount')
      /\ LegalCuts(DocumentGroups, batchCount)' = LegalCuts(DocumentGroups, batchCount')
      /\ BestBoundaries(segments, batchCount)' = BestBoundaries(segments', batchCount')
      /\ Complete(segments)' <=> Complete(segments')
  BY <1>4, SameCuts, SameComplete
<1>9. SUFFICES /\ Complete(segments')
               /\ batchCount' \in M..T
               /\ \A count \in M..(batchCount' - 1) : LegalCuts(SingleRows, count) = {}
               /\ segments' # DocumentGroups => LegalCuts(DocumentGroups, batchCount') = {}
               /\ batches' # <<>> => /\ LegalCuts(segments', batchCount') # {}
                                     /\ batches' = BestBoundaries(segments', batchCount')
  BY <1>5, <1>6, <1>7, <1>8 DEF PartInv
<1>10. CASE Found
  <2>1. /\ segments' = segments /\ batchCount' = batchCount
        /\ LegalCuts(segments, batchCount) # {} /\ batches' = BestBoundaries(segments, batchCount)
    BY <1>10 DEF Found
  <2> QED BY <1>1, <1>2, <2>1
<1>11. CASE Split
  <2>1. /\ batches = <<>> /\ batches' = batches /\ batchCount' = batchCount
        /\ LegalCuts(segments, batchCount) = {} /\ Len(segments) < Total
        /\ segments' = SplitAt(segments, NearestCut(segments, batchCount)[3], NearestCut(segments, batchCount)[4])
    BY <1>11 DEF Split, Searching
  <2>2. batchCount # 1
    <3>1. SUFFICES ASSUME batchCount = 1 PROVE FALSE
      OBVIOUS
    <3>2. Minimum = 1
      BY <1>2, <1>3, <3>1
    <3>3. segments \in Seq(Seq(1..Total)) /\ FlattenSeq(segments) = FlattenSeq(DocumentGroups)
      BY <1>1 DEF Complete
    <3>4. segments # <<>>
      BY <1>1, <1>2, CompleteIs
    <3> QED BY <1>2, <2>1, <3>1, <3>2, <3>3, <3>4, LegalAtOne
  <2>3. Complete(segments')
    <3>1. batchCount \in Nat /\ batchCount >= 2
      BY <1>3, <2>2
    <3> QED BY <1>1, <1>2, <2>1, <3>1, SplitComplete
  <2>4. LegalCuts(DocumentGroups, batchCount) = {}
    BY <1>1, <2>1
  <2> QED BY <1>1, <1>2, <2>1, <2>3, <2>4
<1>12. CASE NextCount
  <2>1. /\ batches = <<>> /\ batches' = batches /\ batchCount' = batchCount + 1
        /\ LegalCuts(segments, batchCount) = {} /\ Len(segments) = Total
        /\ segments' = DocumentGroups
    BY <1>12 DEF NextCount, Searching, WholeAgain
  <2>2. LegalCuts(SingleRows, batchCount) = {}
    <3>1. segments = SingleRows
      BY <1>1, <1>2, <2>1, CompleteIs
    <3> QED BY <2>1, <3>1
  <2>3. batchCount # T
    BY <1>2, <2>2, LegalAtTotal
  <2>4. batchCount' \in M..T
    BY <1>3, <2>1, <2>3
  <2>5. ASSUME NEW count \in M..(batchCount' - 1) PROVE LegalCuts(SingleRows, count) = {}
    <3>1. count \in M..(batchCount - 1) \/ count = batchCount
      BY <1>3, <2>1
    <3> QED BY <1>1, <1>2, <2>2, <3>1
  <2>6. Complete(segments')
    BY <1>2, <2>1, GroupsComplete
  <2> QED BY <2>1, <2>4, <2>5, <2>6
<1>13. CASE Finished \/ UNCHANGED vars
  <2>1. segments' = segments /\ batchCount' = batchCount /\ batches' = batches
    BY <1>13 DEF Finished, vars
  <2> QED BY <1>1, <1>2, <2>1 DEF PartInv
<1> QED BY <1>10, <1>11, <1>12, <1>13 DEF Next

\* Every state of a search keeps the invariant.
THEOREM SearchIsComplete == Spec => []PartInv
BY PartInit, PartNext, PTL DEF Spec

-----------------------------------------------------------------------------
(* What the invariant implies *)

\* The result is made of the segments by legal cuts.
LEMMA ResultIs ==
    ASSUME PartInv, batches # <<>>
    PROVE  /\ Total \in Nat \ {0} /\ batchCount \in Nat \ {0}
           /\ segments \in Seq(Seq(1..Total)) /\ segments # <<>>
           /\ FlattenSeq(segments) = FlattenSeq(DocumentGroups)
           /\ \E cuts \in LegalCuts(segments, batchCount) :
                  /\ cuts \in SUBSET (1..(Len(segments) - 1)) /\ Cardinality(cuts) = batchCount - 1
                  /\ batches = BatchesOf(segments, cuts)
           /\ Len(batches) = batchCount /\ DOMAIN batches = 1..batchCount
<1>1. documentOf \in Inputs /\ Complete(segments) /\ batchCount \in Minimum..Total
      /\ LegalCuts(segments, batchCount) # {} /\ batches = BestBoundaries(segments, batchCount)
  BY DEF PartInv
<1>2. Total \in Nat \ {0}
  BY <1>1, InputTotal
<1>3. batchCount \in Nat \ {0}
  BY <1>1, <1>2, MinimumIs
<1>4. segments \in Seq(Seq(1..Total)) /\ Filled(segments) /\ segments # <<>>
      /\ FlattenSeq(segments) = FlattenSeq(DocumentGroups)
  BY <1>1, <1>2, CompleteIs DEF Complete
<1>5. PICK cuts \in LegalCuts(segments, batchCount) : batches = BatchesOf(segments, cuts)
  BY <1>1, <1>2, <1>3, <1>4, BestIs
<1>6. cuts \in SUBSET (1..(Len(segments) - 1)) /\ Cardinality(cuts) = batchCount - 1
  BY <1>5 DEF LegalCuts, kSubset
<1>7. PICK C \in Nat : C = Cardinality(cuts) /\ C + 1 = batchCount
  BY <1>3, <1>6
<1>8. PICK E : E = Ends(segments, cuts)
  OBVIOUS
<1>9. batches \in Seq(Seq(1..Total)) /\ Len(batches) = batchCount
  BY <1>4, <1>5, <1>6, <1>7, <1>8, BatchesAre
<1>10. DOMAIN batches = 1..batchCount
  BY <1>9
<1> QED BY <1>2, <1>3, <1>4, <1>5, <1>6, <1>9, <1>10

\* The invariant makes the result legal.
LEMMA InvLegal == PartInv => PartitionIsLegal
<1> SUFFICES ASSUME PartInv PROVE PartitionIsLegal
  OBVIOUS
<1>1. batchCount <= Total
  <2>1. documentOf \in Inputs /\ batchCount \in Minimum..Total
    BY DEF PartInv
  <2> QED BY <2>1
<1>2. ASSUME batches # <<>>
      PROVE  /\ FlattenSeq(batches) = FlattenSeq(DocumentGroups)
             /\ ToSet(FlattenSeq(batches)) = 1..Total
             /\ \A b \in DOMAIN batches : Legal(batches[b], Len(batches))
             /\ Len(batches) = 1 => Cardinality(Documents(1..Total)) < MaxDocuments /\ Total < MaxEvidenceRows
             /\ \A count \in Minimum..(Len(batches) - 1) : LegalCuts(SingleRows, count) = {}
  <2>1. /\ Total \in Nat \ {0} /\ batchCount \in Nat \ {0}
        /\ segments \in Seq(Seq(1..Total)) /\ segments # <<>>
        /\ FlattenSeq(segments) = FlattenSeq(DocumentGroups)
        /\ Len(batches) = batchCount /\ DOMAIN batches = 1..batchCount
    BY <1>2, ResultIs
  <2>2. PICK cuts \in LegalCuts(segments, batchCount) :
            cuts \in SUBSET (1..(Len(segments) - 1)) /\ batches = BatchesOf(segments, cuts)
    BY <1>2, ResultIs
  <2>3. FlattenSeq(batches) = FlattenSeq(DocumentGroups)
    BY <2>1, <2>2, BatchesFlatten
  <2>4. ToSet(FlattenSeq(batches)) = 1..Total
    BY <2>1, <2>3, GroupOrder
  <2>5. \A b \in 1..batchCount : Legal(batches[b], batchCount)
    BY <2>2 DEF LegalCuts
  <2>6. \A count \in Minimum..(batchCount - 1) : LegalCuts(SingleRows, count) = {}
    BY DEF PartInv
  <2>7. ASSUME batchCount = 1
        PROVE  Cardinality(Documents(1..Total)) < MaxDocuments /\ Total < MaxEvidenceRows
    <3>1. batchCount \in Minimum..Total /\ Minimum \in 1..Total
      BY <2>1, MinimumIs DEF PartInv
    <3>2. Minimum = 1
      BY <2>1, <2>7, <3>1
    <3> QED BY <2>1, <3>2, MinimumIs
  <2> QED BY <2>1, <2>3, <2>4, <2>5, <2>6, <2>7
<1> QED BY <1>1, <1>2 DEF PartitionIsLegal

\* What a part of the pieces has is in a piece of the part.
LEMMA PartHas ==
    ASSUME NEW S, NEW s \in Seq(Seq(S)), NEW m \in 1..(Len(s) + 1), NEW n \in 0..Len(s),
           NEW r \in ToSet(FlattenSeq(SubSeq(s, m, n)))
    PROVE  \E k \in 1..Len(s) : m <= k /\ k <= n /\ r \in ToSet(s[k])
<1>1. Len(s) \in Nat /\ m \in Int /\ n \in Int
  OBVIOUS
<1>2. /\ SubSeq(s, m, n) \in Seq(Seq(S))
      /\ Len(SubSeq(s, m, n)) = IF m <= n THEN n - m + 1 ELSE 0
      /\ PartOf(SubSeq(s, m, n), s, m, n)
  BY PartIs
<1>3. PICK t \in Seq(Seq(S)) :
          /\ t = SubSeq(s, m, n) /\ Len(t) = IF m <= n THEN n - m + 1 ELSE 0
          /\ \A i \in 1..(n - m + 1) : t[i] = s[m + i - 1]
  BY <1>2 DEF PartOf
<1>4. PICK i \in 1..Len(t) : r \in ToSet(t[i])
  <2>1. ToSet(FlattenSeq(t)) = UNION {ToSet(t[i]) : i \in 1..Len(t)}
    BY FlattenHas
  <2>2. r \in ToSet(FlattenSeq(t))
    BY <1>3
  <2> QED BY <2>1, <2>2
<1>5. m <= n /\ i \in 1..(n - m + 1) /\ m + i - 1 \in 1..Len(s) /\ m <= m + i - 1 /\ m + i - 1 <= n
  BY <1>1, <1>3
<1> QED BY <1>3, <1>4, <1>5

\* The invariant keeps the documents whole.
LEMMA InvWhole == PartInv => WholeDocuments
<1> SUFFICES ASSUME PartInv, batches # <<>>, LegalCuts(DocumentGroups, Len(batches)) # {},
                    NEW a \in DOMAIN batches, NEW b \in DOMAIN batches, a # b
             PROVE  Documents(ToSet(batches[a])) \cap Documents(ToSet(batches[b])) = {}
  BY DEF WholeDocuments
<1>1. /\ Total \in Nat \ {0} /\ batchCount \in Nat \ {0}
      /\ segments \in Seq(Seq(1..Total)) /\ segments # <<>>
      /\ Len(batches) = batchCount /\ DOMAIN batches = 1..batchCount
  BY ResultIs
<1>2. PICK cuts \in LegalCuts(segments, batchCount) :
          /\ cuts \in SUBSET (1..(Len(segments) - 1)) /\ Cardinality(cuts) = batchCount - 1
          /\ batches = BatchesOf(segments, cuts)
  BY ResultIs
<1>3. segments = DocumentGroups
  BY <1>1 DEF PartInv
<1>4. PICK L \in Nat \ {0} : L = Len(segments)
  BY <1>1, EmptySeq
<1>5. PICK E : E = Ends(segments, cuts)
  OBVIOUS
<1>6. PICK C \in Nat : C = Cardinality(cuts) /\ C + 1 = batchCount
  BY <1>1, <1>2
<1>7. /\ \A i \in 1..(C + 2) : E[i] \in 0..L
      /\ \A i, j \in 1..(C + 2) : i < j => E[i] < E[j]
  <2>1. cuts \in SUBSET (1..(L - 1)) /\ E = Ascending(cuts \cup {0, L})
    BY <1>2, <1>4, <1>5 DEF Ends
  <2>2. Rising(E, C, L)
    BY <1>6, <2>1, EndsAre
  <2> QED BY <2>2 DEF Rising
<1>8. \A i \in 1..(C + 1) : batches[i] = FlattenSeq(SubSeq(segments, E[i] + 1, E[i + 1]))
  <2>1. Parts(BatchesOf(segments, cuts), segments, E, C)
    BY <1>1, <1>2, <1>5, <1>6, BatchesAre
  <2> QED BY <1>2, <2>1 DEF Parts
<1>9. ASSUME NEW i \in 1..(C + 1), NEW r \in ToSet(batches[i])
      PROVE  \E k \in 1..L : E[i] + 1 <= k /\ k <= E[i + 1] /\ r \in ToSet(segments[k])
  <2>1. i \in 1..(C + 2) /\ i + 1 \in 1..(C + 2) /\ i < i + 1
    OBVIOUS
  <2>2. PICK e \in 0..L, d \in 0..L : e = E[i] /\ d = E[i + 1] /\ e < d
    BY <1>7, <2>1
  <2>3. PICK m \in 1..(Len(segments) + 1), n \in 0..Len(segments) : m = e + 1 /\ n = d
    BY <1>4, <2>2
  <2>4. r \in ToSet(FlattenSeq(SubSeq(segments, m, n)))
    BY <1>8, <2>2, <2>3
  <2>5. \E k \in 1..Len(segments) : m <= k /\ k <= n /\ r \in ToSet(segments[k])
    BY <1>1, <2>4, PartHas
  <2> QED BY <1>4, <2>2, <2>3, <2>5
<1>10. ASSUME NEW i \in 1..(C + 1), NEW j \in 1..(C + 1), i < j,
              NEW r \in ToSet(batches[i]), NEW q \in ToSet(batches[j])
       PROVE  documentOf[r] # documentOf[q]
  <2>1. PICK k \in 1..L : k <= E[i + 1] /\ r \in ToSet(segments[k])
    BY <1>9
  <2>2. PICK l \in 1..L : E[j] + 1 <= l /\ q \in ToSet(segments[l])
    BY <1>9
  <2>3. i + 1 \in 1..(C + 2) /\ j \in 1..(C + 2) /\ (i + 1 = j \/ i + 1 < j)
    BY <1>10
  <2>4. E[i + 1] \in 0..L /\ E[j] \in 0..L /\ (E[i + 1] = E[j] \/ E[i + 1] < E[j])
    BY <1>7, <2>3
  <2>5. k # l
    BY <2>1, <2>2, <2>4
  <2>6. OwnDocuments
    BY <1>1, GroupsAre
  <2> QED BY <1>3, <1>4, <2>1, <2>2, <2>5, <2>6 DEF OwnDocuments
<1>11. \A r \in ToSet(batches[a]), q \in ToSet(batches[b]) : documentOf[r] # documentOf[q]
  <2>1. a \in 1..(C + 1) /\ b \in 1..(C + 1) /\ (a < b \/ b < a)
    BY <1>1, <1>6
  <2> QED BY <1>10, <2>1
<1> QED BY <1>11 DEF Documents

\* The search of partition_evidence never ends without a result, and its result is legal:
\* every row once, in the order of the groups, within both limits and the balance of the
\* row target, for the smallest batch count that has legal boundaries (RUN-19, RUN-20).
THEOREM PartitionsAreLegal == Spec => []PartitionIsLegal
BY SearchIsComplete, InvLegal, PTL

\* Where whole documents have legal boundaries for the number of batches that is
\* returned, no document is in two of them (RUN-21).
THEOREM DocumentsStayWhole == Spec => []WholeDocuments
BY SearchIsComplete, InvWhole, PTL
=============================================================================
