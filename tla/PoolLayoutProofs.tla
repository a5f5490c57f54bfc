--------------------------- MODULE PoolLayoutProofs ---------------------------
(***************************************************************************)
(* Facts about slices, ranks and packing, for every vector and every set   *)
(* of offsets.                                                             *)
(***************************************************************************)
EXTENDS PoolLayout, FiniteSetTheorems, SequenceTheorems, TLAPS

\* Reading a slice that lies inside the vector.
LEMMA SliceProperties ==
    ASSUME NEW S, NEW mem \in Seq(S), NEW start \in Nat, NEW length \in Nat,
           start + length <= Len(mem)
    PROVE  /\ Slice(mem, start, length) \in Seq(S)
           /\ Len(Slice(mem, start, length)) = length
           /\ \A i \in 1 .. length : Slice(mem, start, length)[i] = mem[start + i]
<1>1. \A i \in start + 1 .. start + length : mem[i] \in S
  BY ElementOfSeq, LenProperties
<1>2. /\ SubSeq(mem, start + 1, start + length) \in Seq(S)
      /\ Len(SubSeq(mem, start + 1, start + length))
            = IF start + 1 <= start + length THEN start + length - (start + 1) + 1 ELSE 0
      /\ \A i \in 1 .. start + length - (start + 1) + 1 :
            SubSeq(mem, start + 1, start + length)[i] = mem[start + 1 + i - 1]
  <2>1. start + 1 \in Int /\ start + length \in Int
    OBVIOUS
  <2> QED BY ONLY <1>1, <2>1, SubSeqProperties
<1> QED BY <1>2 DEF Slice

\* Two words with the same symbols are the same word.
LEMMA SliceIs ==
    ASSUME NEW S, NEW mem \in Seq(S), NEW start \in Nat, NEW w \in Seq(S),
           start + Len(w) <= Len(mem),
           \A i \in 1 .. Len(w) : mem[start + i] = w[i]
    PROVE  Slice(mem, start, Len(w)) = w
<1>1. Len(w) \in Nat
  BY LenProperties
<1>2. /\ Slice(mem, start, Len(w)) \in Seq(S)
      /\ Len(Slice(mem, start, Len(w))) = Len(w)
      /\ \A i \in 1 .. Len(w) : Slice(mem, start, Len(w))[i] = w[i]
  BY <1>1, SliceProperties
<1> QED BY <1>2, SeqEqual

\* A slice does not see what is appended to the vector.
LEMMA SliceOfExtension ==
    ASSUME NEW S, NEW mem \in Seq(S), NEW ext \in Seq(S), NEW start \in Nat, NEW length \in Nat,
           start + length <= Len(mem)
    PROVE  Slice(mem \o ext, start, length) = Slice(mem, start, length)
<1> DEFINE w == Slice(mem, start, length)
<1>1. /\ w \in Seq(S) /\ Len(w) = length
      /\ \A i \in 1 .. length : w[i] = mem[start + i]
  BY SliceProperties
<1>2. /\ mem \o ext \in Seq(S)
      /\ Len(mem \o ext) = Len(mem) + Len(ext)
      /\ \A i \in 1 .. Len(mem) : (mem \o ext)[i] = mem[i]
  BY ConcatProperties, LenProperties
<1>3. /\ Len(ext) \in Nat /\ Len(mem) \in Nat
  BY LenProperties
<1>4. \A i \in 1 .. Len(w) : (mem \o ext)[start + i] = w[i]
  BY <1>1, <1>2, <1>3
<1>5. start + Len(w) <= Len(mem \o ext)
  BY <1>1, <1>2, <1>3
<1> HIDE DEF w
<1>6. Slice(mem \o ext, start, Len(w)) = w
  BY <1>1, <1>2, <1>4, <1>5, SliceIs
<1> QED BY <1>1, <1>6 DEF w

\* What is appended can be read back.
LEMMA SliceOfAppended ==
    ASSUME NEW S, NEW mem \in Seq(S), NEW ext \in Seq(S)
    PROVE  Slice(mem \o ext, Len(mem), Len(ext)) = ext
<1>1. /\ mem \o ext \in Seq(S)
      /\ Len(mem \o ext) = Len(mem) + Len(ext)
      /\ \A i \in 1 .. Len(mem) + Len(ext) :
            (mem \o ext)[i] = IF i <= Len(mem) THEN mem[i] ELSE ext[i - Len(mem)]
  BY ConcatProperties
<1>2. Len(ext) \in Nat /\ Len(mem) \in Nat
  BY LenProperties
<1>3. \A i \in 1 .. Len(ext) : (mem \o ext)[Len(mem) + i] = ext[i]
  BY <1>1, <1>2
<1> DEFINE longer == mem \o ext
<1>4. longer \in Seq(S) /\ Len(mem) + Len(ext) <= Len(longer)
  BY <1>1, <1>2
<1>5. \A i \in 1 .. Len(ext) : longer[Len(mem) + i] = ext[i]
  BY <1>3
<1> HIDE DEF longer
<1>6. Slice(longer, Len(mem), Len(ext)) = ext
  BY <1>2, <1>4, <1>5, SliceIs
<1> QED BY <1>6 DEF longer

\* A slice of a slice is a slice: how invMul() and sub() find their result.
LEMMA SliceOfSlice ==
    ASSUME NEW S, NEW mem \in Seq(S), NEW start \in Nat, NEW length \in Nat,
           start + length <= Len(mem),
           NEW from \in Nat, NEW count \in Nat, from + count <= length
    PROVE  Slice(mem, start + from, count) = Slice(Slice(mem, start, length), from, count)
<1> DEFINE outer == Slice(mem, start, length)
           inner == Slice(outer, from, count)
<1>1. /\ outer \in Seq(S) /\ Len(outer) = length
      /\ \A i \in 1 .. length : outer[i] = mem[start + i]
  BY SliceProperties
<1> HIDE DEF outer
<1> HIDE DEF inner
<1>2. /\ inner \in Seq(S) /\ Len(inner) = count
      /\ \A i \in 1 .. count : inner[i] = outer[from + i]
  <2>1. outer \in Seq(S) /\ from + count <= Len(outer)
    BY <1>1
  <2> QED BY <2>1, SliceProperties DEF inner
<1>3. ASSUME NEW i \in 1 .. count
      PROVE  inner[i] = mem[start + (from + i)]
  <2>1. from + i \in 1 .. length
    OBVIOUS
  <2> QED BY <1>1, <1>2, <2>1
<1>4. \A i \in 1 .. Len(inner) : mem[(start + from) + i] = inner[i]
  BY <1>2, <1>3
<1>5. start + from \in Nat /\ start + from + Len(inner) <= Len(mem)
  BY <1>2, LenProperties
<1>6. Slice(mem, start + from, Len(inner)) = inner
  BY <1>2, <1>4, <1>5, SliceIs
<1> QED BY <1>2, <1>6 DEF inner, outer
--------------------------------------------------------------------------------
(* Ranks.                                                                    *)

\* A rank is a number of members.
LEMMA RankType ==
    ASSUME NEW S \in SUBSET Nat, IsFiniteSet(S), NEW n \in Int
    PROVE  Rank(S, n) \in 0 .. Cardinality(S)
<1>1. {m \in S : m < n} \in SUBSET S
  OBVIOUS
<1>2. /\ IsFiniteSet({m \in S : m < n})
      /\ Cardinality({m \in S : m < n}) <= Cardinality(S)
  BY <1>1, FS_Subset
<1>3. Cardinality({m \in S : m < n}) \in Nat /\ Cardinality(S) \in Nat
  BY <1>2, FS_CardinalityType
<1> QED BY <1>2, <1>3 DEF Rank

\* Ranks grow, and strictly so past a member.
LEMMA RankMonotone ==
    ASSUME NEW S \in SUBSET Nat, IsFiniteSet(S), NEW m \in Nat, NEW n \in Nat, m <= n
    PROVE  /\ Rank(S, m) <= Rank(S, n)
           /\ m \in S /\ m < n => Rank(S, m) < Rank(S, n)
<1> DEFINE A == {k \in S : k < m}
           B == {k \in S : k < n}
<1>1. A \in SUBSET B /\ B \in SUBSET S
  <2>1. ASSUME NEW k \in S, k < m
        PROVE  k < n
    <3>1. k \in Nat
      OBVIOUS
    <3> QED BY <2>1, <3>1
  <2> QED BY <2>1
<1>2. IsFiniteSet(B) /\ IsFiniteSet(A)
  BY <1>1, FS_Subset
<1>3. Cardinality(A) <= Cardinality(B) /\ (Cardinality(B) = Cardinality(A) => B = A)
  BY <1>1, <1>2, FS_Subset
<1>4. m \in S /\ m < n => A # B
  OBVIOUS
<1>5. Cardinality(A) \in Nat /\ Cardinality(B) \in Nat
  BY <1>2, FS_CardinalityType
<1>6. Rank(S, m) = Cardinality(A) /\ Rank(S, n) = Cardinality(B)
  BY DEF Rank
<1> QED BY <1>3, <1>4, <1>5, <1>6

\* Members have different ranks, below the number of members.
LEMMA RankOfMember ==
    ASSUME NEW S \in SUBSET Nat, IsFiniteSet(S), NEW m \in S
    PROVE  /\ Rank(S, m) \in 0 .. Cardinality(S) - 1
           /\ \A n \in S : Rank(S, n) = Rank(S, m) => n = m
           /\ Nth(S, Rank(S, m)) = m
<1> DEFINE A == {k \in S : k < m}
<1>1. A \in SUBSET S /\ m \in S \ A
  OBVIOUS
<1>2. /\ IsFiniteSet(A) /\ Cardinality(A) <= Cardinality(S)
      /\ Cardinality(S) = Cardinality(A) => S = A
  BY <1>1, FS_Subset
<1>3. Cardinality(A) \in Nat /\ Cardinality(S) \in Nat
  BY <1>2, FS_CardinalityType
<1>4. Rank(S, m) \in 0 .. Cardinality(S) - 1
  BY <1>1, <1>2, <1>3 DEF Rank
<1>5. ASSUME NEW n \in S, Rank(S, n) = Rank(S, m)
      PROVE  n = m
  <2>1. m \in Nat /\ n \in Nat /\ Rank(S, n) \in Int /\ Rank(S, m) \in Int
    BY RankType
  <2>2. ~(n < m) /\ ~(m < n)
    BY <1>5, <2>1, RankMonotone
  <2> QED BY <2>1, <2>2
<1>6. Nth(S, Rank(S, m)) = m
  BY <1>5 DEF Nth
<1> QED BY <1>4, <1>5, <1>6

\* Every number below the number of members is a rank.
LEMMA NthProperties ==
    ASSUME NEW S \in SUBSET Nat, IsFiniteSet(S), NEW n \in 0 .. Cardinality(S) - 1
    PROVE  Nth(S, n) \in S /\ Rank(S, Nth(S, n)) = n
<1> DEFINE T == 0 .. Cardinality(S) - 1
           f == [m \in S |-> Rank(S, m)]
<1>1. Cardinality(S) \in Nat
  BY FS_CardinalityType
<1>2. IsFiniteSet(T) /\ Cardinality(T) = Cardinality(S)
  BY <1>1, FS_Interval
<1>3. f \in [S -> T] /\ \A a, b \in S : f[a] = f[b] => a = b
  BY RankOfMember
<1>4. f \in Injection(S, T)
  BY <1>3 DEF Injection, IsInjective
<1>5. f \in Surjection(S, T)
  BY <1>2, <1>4, FS_Injection
<1>6. \E m \in S : Rank(S, m) = n
  BY <1>5 DEF Surjection
<1> QED BY <1>6 DEF Nth

\* A finite set of naturals has a largest member: the one with the last rank.
LEMMA LargestMember ==
    ASSUME NEW S \in SUBSET Nat, IsFiniteSet(S), S # {}
    PROVE  \E m \in S : \A n \in S : n <= m
<1>1. Cardinality(S) \in Nat /\ Cardinality(S) # 0
  BY FS_CardinalityType, FS_EmptySet
<1>2. Cardinality(S) - 1 \in 0 .. Cardinality(S) - 1
  BY <1>1
<1> DEFINE m == Nth(S, Cardinality(S) - 1)
<1>3. m \in S /\ Rank(S, m) = Cardinality(S) - 1
  BY <1>2, NthProperties
<1> HIDE DEF m
<1>4. ASSUME NEW n \in S, m < n
      PROVE  FALSE
  <2>1. Rank(S, m) < Rank(S, n)
    BY <1>3, <1>4, RankMonotone
  <2>2. Rank(S, n) \in 0 .. Cardinality(S) - 1
    BY RankOfMember
  <2> QED BY <1>1, <1>3, <2>1, <2>2
<1>5. \A n \in S : n <= m
  <2>1. m \in Nat
    BY <1>3
  <2> QED BY <1>4, <2>1
<1> QED BY <1>3, <1>5

\* A set of numbers that has 0, and with a number the next, has all.
LEMMA Counting ==
    ASSUME NEW n \in Nat, NEW S \in SUBSET (0 .. n), 0 \in S, \A i \in 0 .. n - 1 : i \in S => i + 1 \in S
    PROVE  S = 0 .. n
<1> SUFFICES ASSUME S # 0 .. n PROVE FALSE
  OBVIOUS
<1> DEFINE T == {n - i : i \in (0 .. n) \ S}
<1>1. T \in SUBSET Nat /\ T # {} /\ T \subseteq 0 .. n
  <2>1. \A i \in 0 .. n : n - i \in 0 .. n /\ n - i \in Nat
    OBVIOUS
  <2>2. \E i : i \in (0 .. n) \ S
    OBVIOUS
  <2> QED BY <2>1, <2>2
<1>2. IsFiniteSet(T)
  <2> HIDE DEF T
  <2>1. IsFiniteSet(0 .. n) /\ T \subseteq 0 .. n
    BY <1>1, FS_Interval
  <2> QED BY ONLY <2>1, FS_Subset
<1>3. PICK m \in T : \A k \in T : k <= m
  BY <1>1, <1>2, LargestMember
<1>4. PICK i \in (0 .. n) \ S : m = n - i
  BY <1>3
<1>5. i # 0 /\ i - 1 \in 0 .. n - 1 /\ (i - 1) + 1 = i
  BY <1>4
<1>6. i - 1 \notin S
  BY <1>4, <1>5
<1>7. n - (i - 1) \in T
  BY <1>5, <1>6
<1>8. n - (i - 1) <= n - i
  BY <1>3, <1>4, <1>7
<1> QED BY ONLY <1>8, <1>4, n \in Nat

\* Within a run of members the rank advances one by one.
LEMMA RankInRun ==
    ASSUME NEW S \in SUBSET Nat, IsFiniteSet(S), NEW start \in Nat, NEW length \in Nat,
           start .. start + length - 1 \subseteq S
    PROVE  Rank(S, start + length) = Rank(S, start) + length
<1> DEFINE A == {k \in S : k < start}
           B == start .. start + length - 1
           C == {k \in S : k < start + length}
<1>1. A \cup B = C /\ A \cap B = {}
  <2>1. \A k \in S : k \in Nat
    OBVIOUS
  <2>2. \A k \in B : k \in S /\ k \in Nat /\ start <= k /\ k < start + length
    OBVIOUS
  <2>3. \A k \in S : start <= k /\ k < start + length => k \in B
    BY <2>1
  <2>4. \A k \in A : k \in S /\ k < start
    OBVIOUS
  <2>5. C \subseteq A \cup B
    <3>1. ASSUME NEW k \in C
          PROVE  k \in A \cup B
      <4>1. k \in S /\ k \in Nat /\ k < start + length
        BY <2>1
      <4>2. CASE k < start
        BY <4>1, <4>2
      <4>3. CASE start <= k
        BY <2>3, <4>1, <4>3
      <4> QED BY <4>1, <4>2, <4>3
    <3> QED BY <3>1
  <2>6. A \subseteq C
    <3>1. ASSUME NEW k \in A
          PROVE  k \in C
      <4>1. k \in Nat /\ k < start + length
        BY <2>1, <2>4
      <4> QED BY <2>4, <4>1
    <3> QED BY <3>1
  <2>7. B \subseteq C
    BY <2>2
  <2>8. A \cap B = {}
    <3>1. ASSUME NEW k \in A, k \in B
          PROVE  FALSE
      <4>1. k \in Nat /\ k < start /\ start <= k
        BY <2>2, <2>4, <3>1
      <4> QED BY <4>1
    <3> QED BY <3>1
  <2> HIDE DEF A, B, C
  <2> QED BY <2>5, <2>6, <2>7, <2>8
<1>2. IsFiniteSet(A)
  BY FS_Subset
<1>3. IsFiniteSet(B) /\ Cardinality(B) = length
  BY FS_Interval
<1>4. Cardinality(C) = Cardinality(A) + Cardinality(B) - Cardinality(A \cap B)
  BY <1>1, <1>2, <1>3, FS_Union
<1>5. Cardinality(A \cap B) = 0
  BY <1>1, FS_EmptySet
<1>6. Cardinality(A) \in Nat
  BY <1>2, FS_CardinalityType
<1> QED BY <1>3, <1>4, <1>5, <1>6 DEF Rank
--------------------------------------------------------------------------------
(* Packing.                                                                  *)

\* The packed vector holds each kept symbol at its rank.
LEMMA PackProperties ==
    ASSUME NEW S, NEW mem \in Seq(S), NEW kept \in SUBSET (0 .. Len(mem) - 1)
    PROVE  /\ IsFiniteSet(kept) /\ kept \in SUBSET Nat
           /\ Pack(mem, kept) \in Seq(S)
           /\ Len(Pack(mem, kept)) = Cardinality(kept)
           /\ \A p \in kept : /\ Rank(kept, p) + 1 \in 1 .. Cardinality(kept)
                              /\ Pack(mem, kept)[Rank(kept, p) + 1] = mem[p + 1]
<1>1. Len(mem) \in Nat /\ kept \in SUBSET Nat
  BY LenProperties
<1>2. IsFiniteSet(kept)
  <2>1. IsFiniteSet(0 .. Len(mem) - 1)
    BY <1>1, FS_Interval
  <2> QED BY <2>1, FS_Subset
<1>3. Cardinality(kept) \in Nat
  BY <1>2, FS_CardinalityType
<1>4. \A i \in 1 .. Cardinality(kept) : Nth(kept, i - 1) \in kept
  BY <1>1, <1>2, <1>3, NthProperties
<1>5. \A i \in 1 .. Cardinality(kept) : mem[Nth(kept, i - 1) + 1] \in S
  <2>1. \A p \in kept : p + 1 \in 1 .. Len(mem)
    BY <1>1
  <2> QED BY <1>4, <2>1, ElementOfSeq
<1>6. /\ Pack(mem, kept) \in Seq(S)
      /\ Len(Pack(mem, kept)) = Cardinality(kept)
  <2>1. Pack(mem, kept) \in [1 .. Cardinality(kept) -> S]
    BY <1>5 DEF Pack
  <2> QED BY <1>3, <2>1, SeqDef
<1>7. ASSUME NEW p \in kept
      PROVE  /\ Rank(kept, p) + 1 \in 1 .. Cardinality(kept)
             /\ Pack(mem, kept)[Rank(kept, p) + 1] = mem[p + 1]
  <2>1. Rank(kept, p) \in 0 .. Cardinality(kept) - 1 /\ Nth(kept, Rank(kept, p)) = p
    BY <1>1, <1>2, RankOfMember
  <2>2. Rank(kept, p) + 1 \in 1 .. Cardinality(kept)
    BY <1>3, <2>1
  <2>3. (Rank(kept, p) + 1) - 1 = Rank(kept, p)
    BY <2>1
  <2> QED BY <2>1, <2>2, <2>3 DEF Pack
<1> QED BY <1>1, <1>2, <1>6, <1>7

\* A slice whose symbols are all kept reads the same word at the rank of its
\* offset: why compact() loses no live word.
THEOREM PackKeepsSlices ==
    ASSUME NEW S, NEW mem \in Seq(S), NEW kept \in SUBSET (0 .. Len(mem) - 1),
           NEW start \in Nat, NEW length \in Nat, start + length <= Len(mem),
           start .. start + length - 1 \subseteq kept
    PROVE  /\ Rank(kept, start) \in Nat
           /\ Rank(kept, start) + length <= Len(Pack(mem, kept))
           /\ Slice(Pack(mem, kept), Rank(kept, start), length) = Slice(mem, start, length)
<1> DEFINE packed == Pack(mem, kept)
           w == Slice(mem, start, length)
<1>1. /\ IsFiniteSet(kept) /\ kept \in SUBSET Nat
      /\ packed \in Seq(S) /\ Len(packed) = Cardinality(kept)
      /\ \A p \in kept : packed[Rank(kept, p) + 1] = mem[p + 1]
  BY PackProperties
<1>2. /\ w \in Seq(S) /\ Len(w) = length
      /\ \A i \in 1 .. length : w[i] = mem[start + i]
  BY SliceProperties
<1>3. Rank(kept, start) \in Nat
  <2>1. Rank(kept, start) \in 0 .. Cardinality(kept)
    <3>1. start \in Int /\ IsFiniteSet(kept) /\ kept \in SUBSET Nat
      BY <1>1
    <3> QED BY ONLY <3>1, RankType
  <2> QED BY <2>1
<1>4. Rank(kept, start) + length <= Len(packed)
  <2>1. Rank(kept, start + length) = Rank(kept, start) + length
    BY <1>1, RankInRun
  <2>2. Rank(kept, start + length) \in 0 .. Cardinality(kept)
    BY <1>1, RankType
  <2> QED BY <1>1, <2>1, <2>2
<1>5. ASSUME NEW i \in 1 .. length
      PROVE  packed[Rank(kept, start) + i] = w[i]
  <2>1. start + (i - 1) \in kept /\ i - 1 \in Nat
    OBVIOUS
  <2>2. start .. start + (i - 1) - 1 \subseteq kept
    OBVIOUS
  <2>3. Rank(kept, start + (i - 1)) = Rank(kept, start) + (i - 1)
    BY <1>1, <2>1, <2>2, RankInRun
  <2>4. packed[Rank(kept, start + (i - 1)) + 1] = mem[(start + (i - 1)) + 1]
    BY <1>1, <2>1
  <2>5. /\ Rank(kept, start) + (i - 1) + 1 = Rank(kept, start) + i
        /\ (start + (i - 1)) + 1 = start + i
    BY <1>3
  <2> QED BY <1>2, <2>3, <2>4, <2>5
<1> HIDE DEF packed, w
<1>6. Slice(packed, Rank(kept, start), Len(w)) = w
  BY <1>1, <1>2, <1>3, <1>4, <1>5, SliceIs
<1> QED BY <1>2, <1>3, <1>4, <1>6 DEF packed, w

\* Offsets from n up do not count in the rank of n.
LEMMA RankOfExtension ==
    ASSUME NEW S \in SUBSET Nat, NEW T \in SUBSET Nat, NEW n \in Nat, \A t \in T : n <= t
    PROVE  Rank(S \cup T, n) = Rank(S, n)
<1>1. \A m \in T : ~(m < n)
  OBVIOUS
<1>2. {m \in S \cup T : m < n} = {m \in S : m < n}
  BY <1>1
<1> QED BY <1>2 DEF Rank

\* Past the last member the rank is the number of members.
LEMMA RankPastEnd ==
    ASSUME NEW S \in SUBSET Nat, NEW n \in Nat, \A m \in S : m < n
    PROVE  Rank(S, n) = Cardinality(S)
<1>1. {m \in S : m < n} = S
  OBVIOUS
<1> QED BY <1>1 DEF Rank

\* Keeping a further block of offsets, past all those kept, appends it to the
\* packed vector.
LEMMA PackAppend ==
    ASSUME NEW S, NEW mem \in Seq(S), NEW kept \in SUBSET (0 .. Len(mem) - 1),
           NEW from \in Nat, NEW to \in Nat, from <= to, to <= Len(mem),
           \A p \in kept : p < from
    PROVE  Pack(mem, kept \cup (from .. to - 1)) = Pack(mem, kept) \o SubSeq(mem, from + 1, to)
<1> DEFINE block == from .. to - 1
           more == kept \cup block
           n == Cardinality(kept)
           old == Pack(mem, kept)
           tail == SubSeq(mem, from + 1, to)
           new == Pack(mem, more)
<1>1. /\ Len(mem) \in Nat
      /\ more \in SUBSET (0 .. Len(mem) - 1) /\ block \in SUBSET Nat
  BY LenProperties
<1>2. /\ IsFiniteSet(kept) /\ kept \in SUBSET Nat /\ old \in Seq(S) /\ Len(old) = n
      /\ \A p \in kept : Rank(kept, p) + 1 \in 1 .. n /\ old[Rank(kept, p) + 1] = mem[p + 1]
  BY PackProperties
<1> HIDE DEF old
<1>3. /\ IsFiniteSet(more) /\ more \in SUBSET Nat /\ new \in Seq(S)
      /\ Len(new) = Cardinality(more)
      /\ \A p \in more : new[Rank(more, p) + 1] = mem[p + 1]
  <2> HIDE DEF more
  <2> QED BY <1>1, PackProperties
<1> HIDE DEF new
<1>4. /\ tail \in Seq(S) /\ Len(tail) = to - from
      /\ \A i \in 1 .. to - from : tail[i] = mem[from + i]
  <2>1. to - from \in Nat /\ from + (to - from) = to
    OBVIOUS
  <2>2. /\ Slice(mem, from, to - from) \in Seq(S)
        /\ Len(Slice(mem, from, to - from)) = to - from
        /\ \A i \in 1 .. to - from : Slice(mem, from, to - from)[i] = mem[from + i]
    BY <2>1, SliceProperties
  <2> QED BY <2>1, <2>2 DEF Slice
<1> HIDE DEF tail
<1>5. n \in Nat
  BY <1>2, FS_CardinalityType
<1>6. Cardinality(more) = n + (to - from)
  <2>1. IsFiniteSet(block) /\ Cardinality(block) = to - from
    <3>1. to - 1 \in Int /\ from \in Int
      OBVIOUS
    <3>2. IsFiniteSet(block) /\ Cardinality(block) = IF from > to - 1 THEN 0 ELSE (to - 1) - from + 1
      BY ONLY <3>1, FS_Interval
    <3> QED BY <3>2
  <2>2. kept \cap block = {}
    <3>1. ASSUME NEW p \in kept, p \in block
          PROVE  FALSE
      BY <1>2, <3>1
    <3> QED BY <3>1
  <2>3. Cardinality(kept \cap block) = 0
    BY <2>2, FS_EmptySet
  <2>4. Cardinality(kept \cup block) = n + Cardinality(block) - Cardinality(kept \cap block)
    <3> HIDE DEF block
    <3> QED BY <1>2, <2>1, FS_Union
  <2> QED BY <1>5, <2>1, <2>3, <2>4
<1>7. /\ old \o tail \in Seq(S) /\ Len(old \o tail) = n + (to - from)
      /\ \A i \in 1 .. n + (to - from) :
            (old \o tail)[i] = IF i <= n THEN old[i] ELSE tail[i - n]
  <2>1. old \in Seq(S) /\ tail \in Seq(S) /\ Len(old) = n /\ Len(tail) = to - from
    BY <1>2, <1>4
  <2>2. /\ old \o tail \in Seq(S) /\ Len(old \o tail) = Len(old) + Len(tail)
        /\ \A i \in 1 .. Len(old) + Len(tail) :
              (old \o tail)[i] = IF i <= Len(old) THEN old[i] ELSE tail[i - Len(old)]
    BY ONLY <2>1, ConcatProperties
  <2> QED BY <2>1, <2>2
<1>8. ASSUME NEW i \in 1 .. n + (to - from)
      PROVE  new[i] = (old \o tail)[i]
  <2>1. PICK p \in more : Rank(more, p) = i - 1
    <3>1. i - 1 \in 0 .. Cardinality(more) - 1
      BY <1>5, <1>6
    <3> HIDE DEF more
    <3> QED BY <1>3, <3>1, NthProperties
  <2>2. new[i] = mem[p + 1]
    <3>1. (i - 1) + 1 = i
      BY <1>5
    <3> QED BY <1>3, <2>1, <3>1
  <2>3. CASE p \in kept
    <3>1. p \in Nat /\ \A t \in block : p <= t
      BY <1>2, <2>3
    <3>2. Rank(more, p) = Rank(kept, p)
      BY <1>1, <1>2, <3>1, RankOfExtension
    <3>3. i = Rank(kept, p) + 1
      BY <1>5, <2>1, <3>2
    <3>4. i <= n /\ old[i] = mem[p + 1]
      BY <1>2, <2>3, <3>3
    <3> QED BY <1>7, <2>2, <3>4
  <2>4. CASE p \in block
    <3>1. p - from \in Nat /\ from + (p - from) = p /\ p - from + 1 \in 1 .. to - from
      BY <2>4
    <3>2. Rank(more, from) = n
      <4>1. Rank(more, from) = Rank(kept, from)
        <5>1. \A t \in block : from <= t
          OBVIOUS
        <5> HIDE DEF block
        <5> QED BY <1>1, <1>2, <5>1, RankOfExtension
      <4> QED BY <1>2, <4>1, RankPastEnd
    <3>3. from .. from + (p - from) - 1 \subseteq more
      BY <2>4
    <3>4. Rank(more, from + (p - from)) = Rank(more, from) + (p - from)
      <4> HIDE DEF more
      <4> QED BY <1>3, <3>1, <3>3, RankInRun
    <3>5. i - n = p - from + 1 /\ ~(i <= n)
      BY <1>5, <2>1, <3>1, <3>2, <3>4
    <3>6. tail[p - from + 1] = mem[from + (p - from + 1)]
      BY <1>4, <3>1
    <3>7. from + (p - from + 1) = p + 1
      BY <3>1
    <3> QED BY <1>7, <2>2, <3>5, <3>6, <3>7
  <2> QED BY <2>3, <2>4
<1>9. Len(new) = Len(old \o tail) /\ \A i \in 1 .. Len(new) : new[i] = (old \o tail)[i]
  BY <1>3, <1>6, <1>7, <1>8
<1>10. new = old \o tail
  BY <1>3, <1>7, <1>9, SeqEqual
<1> QED BY <1>10 DEF new, old, tail
================================================================================
