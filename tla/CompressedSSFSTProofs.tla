-------------------------- MODULE CompressedSSFSTProofs --------------------------
(***************************************************************************)
(* Total transducers, whatever is given and whatever is done with them:    *)
(*  - canonicalizeFST() leaves no state with a prefix in common that could *)
(*    be written earlier, and keeps the function;                          *)
(*  - composeFST() then computes what its two parts compute one after the  *)
(*    other;                                                               *)
(*  - a compressed transducer that was asked for keeps the function when   *)
(*    it is evaluated, compacted, trimmed, stored and loaded.              *)
(***************************************************************************)
EXTENDS CompressedSSFST, PoolLayoutProofs

Words == Seq(Nat)
--------------------------------------------------------------------------------
(* Prefixes.                                                                 *)

\* A prefix agrees with the word as far as it goes.
LEMMA PrefixIs ==
    ASSUME NEW u \in Words, NEW w \in Words
    PROVE  IsPrefix(u, w) <=> Len(u) <= Len(w) /\ \A i \in 1 .. Len(u) : u[i] = w[i]
<1>1. Len(u) \in Nat /\ Len(w) \in Nat
  BY LenProperties DEF Words
<1>2. ASSUME Len(u) <= Len(w)
      PROVE  SubSeq(u, 1, Len(u)) = SubSeq(w, 1, Len(u)) <=> \A i \in 1 .. Len(u) : u[i] = w[i]
  <2> DEFINE a == SubSeq(u, 1, Len(u))
             b == SubSeq(w, 1, Len(u))
  <2>1. /\ a \in Seq(Nat) /\ b \in Seq(Nat) /\ Len(a) = Len(u) /\ Len(b) = Len(u)
        /\ \A i \in 1 .. Len(u) : a[i] = u[i] /\ b[i] = w[i]
    BY <1>1, <1>2 DEF Words
  <2> HIDE DEF a, b
  <2>2. a = b <=> \A i \in 1 .. Len(u) : u[i] = w[i]
    BY <2>1, SeqEqual
  <2> QED BY <2>2 DEF a, b
<1> QED BY <1>2 DEF IsPrefix

\* A prefix is not longer than the word.
LEMMA PrefixLength ==
    ASSUME NEW u \in Words, NEW w \in Words, IsPrefix(u, w)
    PROVE  Len(u) \in Nat /\ Len(w) \in Nat /\ Len(u) <= Len(w)
BY LenProperties DEF Words, IsPrefix

\* Every word is a prefix of itself.
LEMMA PrefixReflexive ==
    ASSUME NEW u \in Words
    PROVE  IsPrefix(u, u)
<1>1. Len(u) \in Nat
  BY LenProperties DEF Words
<1> QED BY <1>1, PrefixIs

\* A prefix of a prefix is a prefix.
LEMMA PrefixTransitive ==
    ASSUME NEW u \in Words, NEW v \in Words, NEW w \in Words, IsPrefix(u, v), IsPrefix(v, w)
    PROVE  IsPrefix(u, w)
<1>1. Len(u) \in Nat /\ Len(v) \in Nat /\ Len(w) \in Nat
  BY LenProperties DEF Words
<1> QED BY <1>1, PrefixIs

\* Two words that are prefixes of each other are equal.
LEMMA PrefixAntisymmetric ==
    ASSUME NEW u \in Words, NEW v \in Words, IsPrefix(u, v), Len(v) <= Len(u)
    PROVE  u = v
<1>1. Len(u) \in Nat /\ Len(v) \in Nat /\ u \in Seq(Nat) /\ v \in Seq(Nat)
  BY LenProperties DEF Words
<1>2. Len(u) = Len(v) /\ \A i \in 1 .. Len(u) : u[i] = v[i]
  BY <1>1, PrefixIs
<1> QED BY <1>1, <1>2, SeqEqual

\* Of two prefixes of a word the shorter is a prefix of the longer.
LEMMA PrefixesCompare ==
    ASSUME NEW u \in Words, NEW v \in Words, NEW w \in Words, IsPrefix(u, w), IsPrefix(v, w),
           Len(u) <= Len(v)
    PROVE  IsPrefix(u, v)
<1>1. Len(u) \in Nat /\ Len(v) \in Nat /\ Len(w) \in Nat
  BY LenProperties DEF Words
<1> QED BY <1>1, PrefixIs

\* Two words, one after the other, are a word.
LEMMA ConcatWords ==
    ASSUME NEW u \in Words, NEW v \in Words
    PROVE  /\ u \o v \in Words /\ Len(u \o v) = Len(u) + Len(v)
           /\ Len(u) \in Nat /\ Len(v) \in Nat
           /\ IsPrefix(u, u \o v)
<1>1. /\ u \o v \in Words /\ Len(u \o v) = Len(u) + Len(v) /\ Len(u) \in Nat /\ Len(v) \in Nat
      /\ \A i \in 1 .. Len(u) : (u \o v)[i] = u[i]
  <2>1. u \in Seq(Nat) /\ v \in Seq(Nat)
    BY DEF Words
  <2>2. u \o v \in Seq(Nat) /\ Len(u \o v) = Len(u) + Len(v) /\ Len(u) \in Nat /\ Len(v) \in Nat
    BY <2>1, ConcatProperties, LenProperties
  <2>3. \A i \in 1 .. Len(u) : i \in 1 .. Len(u) + Len(v)
    BY <2>2
  <2>4. \A i \in 1 .. Len(u) : (u \o v)[i] = u[i]
    BY <2>1, <2>2, <2>3, ConcatProperties
  <2> QED BY <2>2, <2>4 DEF Words
<1>2. Len(u) <= Len(u \o v)
  BY <1>1
<1>3. IsPrefix(u, u \o v)
  BY <1>1, <1>2, PrefixIs
<1> QED BY <1>1, <1>3

\* Concatenation is associative.
LEMMA ConcatRegroups ==
    ASSUME NEW u \in Words, NEW v \in Words, NEW w \in Words
    PROVE  (u \o v) \o w = u \o (v \o w)
<1>1. u \in Seq(Nat) /\ v \in Seq(Nat) /\ w \in Seq(Nat)
  BY DEF Words
<1> QED BY ONLY <1>1, ConcatAssociative

\* What is a prefix stays one behind another word.
LEMMA PrefixBehind ==
    ASSUME NEW o \in Words, NEW u \in Words, NEW w \in Words, IsPrefix(u, w)
    PROVE  IsPrefix(o \o u, o \o w)
<1>1. /\ o \in Seq(Nat) /\ u \in Seq(Nat) /\ w \in Seq(Nat)
      /\ Len(o) \in Nat /\ Len(u) \in Nat /\ Len(w) \in Nat
      /\ o \o u \in Words /\ o \o w \in Words
      /\ Len(o \o u) = Len(o) + Len(u) /\ Len(o \o w) = Len(o) + Len(w)
      /\ Len(u) <= Len(w)
  BY ConcatWords, PrefixLength DEF Words
<1>2. ASSUME NEW i \in 1 .. Len(o \o u)
      PROVE  (o \o u)[i] = (o \o w)[i]
  <2>1. i \in 1 .. Len(o) + Len(u) /\ i \in 1 .. Len(o) + Len(w)
    BY <1>1
  <2>2. /\ (o \o u)[i] = IF i <= Len(o) THEN o[i] ELSE u[i - Len(o)]
        /\ (o \o w)[i] = IF i <= Len(o) THEN o[i] ELSE w[i - Len(o)]
    BY <1>1, <2>1, ConcatProperties
  <2>3. CASE i <= Len(o)
    BY <2>2, <2>3
  <2>4. CASE i > Len(o)
    <3>1. i - Len(o) \in 1 .. Len(u) /\ ~(i <= Len(o))
      BY <1>1, <2>1, <2>4
    <3>2. u[i - Len(o)] = w[i - Len(o)]
      BY <3>1, PrefixIs
    <3> QED BY <2>2, <3>1, <3>2
  <2> QED BY <1>1, <2>1, <2>3, <2>4
<1>3. Len(o \o u) <= Len(o \o w)
  BY <1>1
<1> QED BY <1>1, <1>2, <1>3, PrefixIs

\* invMul() takes a prefix off that was there.
LEMMA InvMulIs ==
    ASSUME NEW u \in Words, NEW w \in Words, IsPrefix(u, w)
    PROVE  InvMul(u, w) \in Words /\ u \o InvMul(u, w) = w
<1> DEFINE v == SubSeq(w, Len(u) + 1, Len(w))
<1>1. /\ u \in Seq(Nat) /\ w \in Seq(Nat) /\ Len(u) \in Nat /\ Len(w) \in Nat /\ Len(u) <= Len(w)
      /\ \A i \in 1 .. Len(u) : u[i] = w[i]
  BY PrefixLength, PrefixIs DEF Words
<1>2. /\ v \in Seq(Nat) /\ Len(v) = Len(w) - Len(u)
      /\ \A i \in 1 .. Len(w) - Len(u) : v[i] = w[Len(u) + i]
  BY <1>1
<1> HIDE DEF v
<1>3. u \o v \in Seq(Nat) /\ Len(u \o v) = Len(w)
  BY <1>1, <1>2, ConcatProperties
<1>4. ASSUME NEW i \in 1 .. Len(w)
      PROVE  (u \o v)[i] = w[i]
  <2>1. i \in 1 .. Len(u) + Len(v)
    BY <1>1, <1>2
  <2>2. (u \o v)[i] = IF i <= Len(u) THEN u[i] ELSE v[i - Len(u)]
    BY <1>1, <1>2, <2>1, ConcatProperties
  <2>3. CASE i <= Len(u)
    BY <1>1, <2>1, <2>2, <2>3
  <2>4. CASE i > Len(u)
    <3>1. i - Len(u) \in 1 .. Len(w) - Len(u) /\ Len(u) + (i - Len(u)) = i /\ ~(i <= Len(u))
      BY <1>1, <2>1, <2>4
    <3> QED BY <1>2, <2>2, <3>1
  <2>5. i <= Len(u) \/ i > Len(u)
    BY <1>1
  <2> QED BY <2>3, <2>4, <2>5
<1>5. u \o v = w
  BY <1>1, <1>3, <1>4, SeqEqual
<1> QED BY <1>2, <1>5 DEF InvMul, Words, v

\* The prefixes that all words of a set have.
LEMMA CommonPrefixesAre ==
    ASSUME NEW W, W \subseteq Words, W # {}, NEW u
    PROVE  u \in CommonPrefixes(W) <=> u \in Words /\ \A w \in W : IsPrefix(u, w)
<1>1. ASSUME NEW w \in Words, u \in Prefixes(w)
      PROVE  u \in Words
  <2>1. PICK l \in 0 .. Len(w) : u = SubSeq(w, 1, l)
    BY <1>1 DEF Prefixes
  <2> QED BY <2>1, LenProperties DEF Words
<1>2. ASSUME NEW w \in Words, u \in Words, IsPrefix(u, w)
      PROVE  u \in Prefixes(w)
  <2>1. Len(u) \in 0 .. Len(w) /\ Len(u) \in Nat /\ u \in Seq(Nat)
    BY <1>2, PrefixLength DEF Words
  <2>2. SubSeq(u, 1, Len(u)) = SubSeq(w, 1, Len(u))
    BY <1>2 DEF IsPrefix
  <2>3. SubSeq(u, 1, Len(u)) = u
    BY <2>1
  <2> QED BY <2>1, <2>2, <2>3 DEF Prefixes
<1> HIDE DEF Words
<1> QED BY <1>1, <1>2 DEF CommonPrefixes

\* The greatest common prefix is one, and every other is a prefix of it.
LEMMA GcpIs ==
    ASSUME NEW W, W \subseteq Words, W # {}
    PROVE  /\ Gcp(W) \in Words
           /\ \A w \in W : IsPrefix(Gcp(W), w)
           /\ \A u \in Words : (\A w \in W : IsPrefix(u, w)) => IsPrefix(u, Gcp(W))
<1> DEFINE C == CommonPrefixes(W)
           lengths == {Len(u) : u \in C}
<1>1. PICK w0 \in W : TRUE
  OBVIOUS
<1>2. \A u : u \in C <=> u \in Words /\ \A w \in W : IsPrefix(u, w)
  BY CommonPrefixesAre
<1> HIDE DEF C
<1>3. \A u \in C : Len(u) \in 0 .. Len(w0) /\ u \in Words /\ Len(w0) \in Nat
  <2> TAKE u \in C
  <2>1. u \in Words /\ w0 \in Words /\ IsPrefix(u, w0)
    BY <1>1, <1>2
  <2>2. Len(u) \in Nat /\ Len(w0) \in Nat /\ Len(u) <= Len(w0)
    BY <2>1, PrefixLength
  <2> QED BY <2>1, <2>2
<1>4. C # {}
  <2>1. <<>> \in Words /\ Len(<<>>) = 0
    BY DEF Words
  <2>2. \A w \in W : IsPrefix(<<>>, w)
    <3> TAKE w \in W
    <3>1. w \in Words /\ 0 <= Len(w)
      BY LenProperties DEF Words
    <3>2. \A i \in 1 .. Len(<<>>) : <<>>[i] = w[i]
      BY <2>1
    <3> QED BY <2>1, <3>1, <3>2, PrefixIs
  <2> QED BY <1>2, <2>1, <2>2
<1>5. \E longest \in C : \A other \in C : Len(other) <= Len(longest)
  <2>1. lengths \in SUBSET Nat /\ lengths # {}
    <3>1. \A n \in lengths : n \in Nat
      BY <1>3
    <3>2. lengths # {}
      BY <1>4
    <3> QED BY <3>1, <3>2
  <2>2. IsFiniteSet(lengths)
    <3>1. Len(w0) \in Nat
      BY <1>3, <1>4
    <3>2. lengths \subseteq 0 .. Len(w0)
      BY <1>3
    <3>3. IsFiniteSet(0 .. Len(w0))
      BY <3>1, FS_Interval
    <3> HIDE DEF lengths
    <3> QED BY <3>2, <3>3, FS_Subset
  <2>3. PICK m \in lengths : \A n \in lengths : n <= m
    BY <2>1, <2>2, LargestMember
  <2> QED BY <2>3
<1>6. Gcp(W) \in C /\ \A other \in C : Len(other) <= Len(Gcp(W))
  BY <1>5 DEF Gcp, LongestCommonPrefix, C
<1>7. ASSUME NEW u \in Words, \A w \in W : IsPrefix(u, w)
      PROVE  IsPrefix(u, Gcp(W))
  <2>1. u \in C /\ IsPrefix(u, w0) /\ IsPrefix(Gcp(W), w0) /\ Gcp(W) \in Words /\ w0 \in Words
    BY <1>2, <1>6, <1>7
  <2> QED BY <1>6, <2>1, PrefixesCompare
<1> QED BY <1>2, <1>6, <1>7

\* When the greatest common prefix is taken off, nothing is left in common.
LEMMA GcpTakenOff ==
    ASSUME NEW W, W \subseteq Words, W # {}, NEW g \in Words,
           \A w \in W : IsPrefix(g, w),
           \A u \in Words : (\A w \in W : IsPrefix(u, w)) => IsPrefix(u, g)
    PROVE  Gcp({InvMul(g, w) : w \in W}) = <<>>
<1> DEFINE V == {InvMul(g, w) : w \in W}
           rest == Gcp(V)
<1>1. V \subseteq Words /\ V # {}
  BY InvMulIs
<1>2. rest \in Words /\ \A v \in V : IsPrefix(rest, v)
  BY <1>1, GcpIs
<1> HIDE DEF rest
<1>3. g \o rest \in Words /\ Len(g \o rest) = Len(g) + Len(rest) /\ Len(g) \in Nat /\ Len(rest) \in Nat
  BY <1>2, ConcatWords
<1>4. ASSUME NEW w \in W
      PROVE  IsPrefix(g \o rest, w)
  <2>1. InvMul(g, w) \in Words /\ g \o InvMul(g, w) = w /\ IsPrefix(rest, InvMul(g, w))
    BY <1>2, InvMulIs
  <2>2. IsPrefix(g \o rest, g \o InvMul(g, w))
    BY <1>2, <2>1, PrefixBehind
  <2> QED BY <2>1, <2>2
<1>5. IsPrefix(g \o rest, g)
  BY <1>3, <1>4
<1>6. Len(rest) = 0
  <2>1. Len(g \o rest) <= Len(g)
    BY <1>3, <1>5, PrefixLength
  <2> QED BY <1>3, <2>1
<1>7. rest = <<>>
  BY <1>2, <1>6, EmptySeq DEF Words
<1> QED BY <1>7 DEF rest
--------------------------------------------------------------------------------
(* Push values.                                                              *)

\* What the estimates est of the transducer t are while the states of frozen are:
\* common prefixes of all that can be written, not longer than those that are
\* not frozen; at a transition that leaves or enters a frozen state the estimate
\* is already a prefix of the output and the next estimate; and no common prefix
\* has been lost.
Estimates(t, est, frozen) ==
    /\ est \in [States(t) -> Words] /\ frozen \subseteq States(t)
    /\ \A p \in States(t) : \A w \in Outgoing(t, p, t.psi) : IsPrefix(est[p], w)
    /\ \A p \in frozen, u \in States(t) \ frozen : Len(est[p]) <= Len(est[u])
    /\ \A p \in States(t), a \in Alphabet(t) :
          p \in frozen \/ t.delta[<<p, a>>].to \in frozen =>
              IsPrefix(est[p], t.delta[<<p, a>>].out \o est[t.delta[<<p, a>>].to])
    /\ \A p \in States(t), u \in Words :
          (\A w \in Outgoing(t, p, est) : IsPrefix(u, w)) => IsPrefix(u, est[p])

\* The parts of a total transducer.
LEMMA TotalProperties ==
    ASSUME NEW t, IsTotal(t)
    PROVE  /\ 0 \in States(t)
           /\ \A q \in States(t) : t.psi[q] \in Words
           /\ \A q \in States(t), a \in Alphabet(t) :
                 t.delta[<<q, a>>].out \in Words /\ t.delta[<<q, a>>].to \in States(t)
           /\ t.initialOut \in Words
<1>1. 0 \in States(t)
  BY DEF IsTotal, States
<1>2. \A q \in States(t), a \in Alphabet(t) : t.delta[<<q, a>>] \in [out : Seq(Nat), to : States(t)]
  BY DEF IsTotal
<1> QED BY <1>1, <1>2 DEF IsTotal, Words

\* What can be written from a state are words, and there are some.
LEMMA OutgoingProperties ==
    ASSUME NEW t, IsTotal(t), NEW next \in [States(t) -> Words], NEW q \in States(t)
    PROVE  /\ Outgoing(t, q, next) \subseteq Words /\ Outgoing(t, q, next) # {}
           /\ t.psi[q] \in Outgoing(t, q, next)
           /\ \A a \in Alphabet(t) :
                 t.delta[<<q, a>>].out \o next[t.delta[<<q, a>>].to] \in Outgoing(t, q, next)
<1>1. \A a \in Alphabet(t) : t.delta[<<q, a>>].out \o next[t.delta[<<q, a>>].to] \in Words
  <2> TAKE a \in Alphabet(t)
  <2>1. t.delta[<<q, a>>].out \in Words /\ next[t.delta[<<q, a>>].to] \in Words
    BY TotalProperties
  <2> QED BY <2>1, ConcatWords
<1>2. t.psi[q] \in Words
  BY TotalProperties
<1> QED BY <1>1, <1>2 DEF Outgoing

\* The estimates the search starts with.
LEMMA SeedProperties ==
    ASSUME NEW t, IsTotal(t)
    PROVE  Estimates(t, Seed(t), {})
<1> DEFINE est == Seed(t)
<1>1. t.psi \in [States(t) -> Words]
  BY DEF IsTotal, Words
<1>2. ASSUME NEW q \in States(t)
      PROVE  /\ est[q] \in Words
             /\ \A w \in Outgoing(t, q, t.psi) : IsPrefix(est[q], w)
             /\ \A u \in Words : (\A w \in Outgoing(t, q, t.psi) : IsPrefix(u, w)) => IsPrefix(u, est[q])
  <2>1. est[q] = Gcp(Outgoing(t, q, t.psi))
    BY DEF Seed
  <2>2. Outgoing(t, q, t.psi) \subseteq Words /\ Outgoing(t, q, t.psi) # {}
    BY <1>1, OutgoingProperties
  <2> HIDE DEF est
  <2> QED BY <2>1, <2>2, GcpIs
<1>3. est \in [States(t) -> Words]
  BY <1>2 DEF Seed
<1> HIDE DEF est
<1>4. ASSUME NEW q \in States(t), NEW u \in Words, \A w \in Outgoing(t, q, est) : IsPrefix(u, w)
      PROVE  IsPrefix(u, est[q])
  <2>1. ASSUME NEW w \in Outgoing(t, q, t.psi)
        PROVE  IsPrefix(u, w)
    <3>1. CASE w = t.psi[q]
      BY <1>3, <1>4, <3>1, OutgoingProperties
    <3>2. ASSUME NEW a \in Alphabet(t), w = t.delta[<<q, a>>].out \o t.psi[t.delta[<<q, a>>].to]
          PROVE  IsPrefix(u, w)
      <4> DEFINE out == t.delta[<<q, a>>].out
                 to == t.delta[<<q, a>>].to
      <4>1. out \in Words /\ to \in States(t) /\ t.psi[to] \in Words /\ est[to] \in Words
        BY <1>3, TotalProperties
      <4>2. IsPrefix(u, out \o est[to])
        BY <1>3, <1>4, OutgoingProperties
      <4>3. IsPrefix(est[to], t.psi[to])
        BY <1>1, <1>2, <4>1, OutgoingProperties
      <4> HIDE DEF out, to
      <4>4. IsPrefix(out \o est[to], out \o t.psi[to])
        BY <4>1, <4>3, PrefixBehind
      <4>5. IsPrefix(u, out \o t.psi[to])
        BY <4>1, <4>2, <4>4, ConcatWords, PrefixTransitive
      <4> QED BY <3>2, <4>5 DEF out, to
    <3> QED BY <3>1, <3>2 DEF Outgoing
  <2> QED BY <1>2, <2>1
<1> QED BY <1>2, <1>3, <1>4 DEF Estimates, est

\* An estimate that can be written is a prefix of what may follow an output, so
\* it compares with any other estimate behind that output.
LEMMA BehindOutput ==
    ASSUME NEW t, IsTotal(t), NEW est \in [States(t) -> Words], NEW low \in Words,
           NEW p \in States(t), NEW a \in Alphabet(t), NEW out, NEW to,
           out = t.delta[<<p, a>>].out, to = t.delta[<<p, a>>].to,
           IsPrefix(low, out \o t.psi[to]), IsPrefix(est[to], t.psi[to]),
           Len(low) <= Len(est[to])
    PROVE  IsPrefix(low, out \o est[to])
<1>1. out \in Words /\ to \in States(t) /\ t.psi[to] \in Words /\ est[to] \in Words
  BY TotalProperties
<1>2. IsPrefix(out \o est[to], out \o t.psi[to])
  BY <1>1, PrefixBehind
<1>3. out \o est[to] \in Words /\ out \o t.psi[to] \in Words
  BY <1>1, ConcatWords
<1>4. Len(low) <= Len(out \o est[to])
  <2>1. Len(out \o est[to]) = Len(out) + Len(est[to]) /\ Len(out) \in Nat /\ Len(est[to]) \in Nat
    BY <1>1, ConcatWords
  <2>2. Len(low) \in Nat
    BY LenProperties DEF Words
  <2>3. Len(low) <= Len(est[to])
    OBVIOUS
  <2> HIDE DEF Words
  <2> QED BY ONLY <2>1, <2>2, <2>3
<1> QED BY <1>2, <1>3, <1>4, PrefixesCompare

\* What the candidates for a new estimate are.
Candidates(t, est, p, q) ==
    {est[p]} \cup {t.delta[<<p, a>>].out \o est[q] : a \in {a \in Alphabet(t) : t.delta[<<p, a>>].to = q}}

\* The words a refined estimate is made of are words, and the old estimate is one.
LEMMA CandidatesProperties ==
    ASSUME NEW t, IsTotal(t), NEW est \in [States(t) -> Words], NEW p \in States(t), NEW q \in States(t)
    PROVE  /\ Candidates(t, est, p, q) \subseteq Words /\ Candidates(t, est, p, q) # {}
           /\ est[p] \in Candidates(t, est, p, q)
           /\ \A a \in Alphabet(t) : t.delta[<<p, a>>].to = q =>
                 t.delta[<<p, a>>].out \o est[q] \in Candidates(t, est, p, q)
<1>1. \A a \in Alphabet(t) : t.delta[<<p, a>>].out \o est[q] \in Words
  <2> TAKE a \in Alphabet(t)
  <2>1. t.delta[<<p, a>>].out \in Words /\ est[q] \in Words
    BY TotalProperties
  <2> QED BY <2>1, ConcatWords
<1> QED BY <1>1 DEF Candidates

\* The shortest estimate that is not frozen may be: none can become shorter than
\* it, because all estimates that meet at a state are prefixes of one word.
LEMMA RelaxKeepsEstimates ==
    ASSUME NEW t, IsTotal(t), NEW est, NEW frozen, Estimates(t, est, frozen),
           NEW q \in States(t) \ frozen, \A p \in States(t) \ frozen : Len(est[q]) <= Len(est[p]),
           NEW new, new = [p \in States(t) |-> IF p \in frozen \cup {q} THEN est[p]
                                               ELSE Gcp(Candidates(t, est, p, q))]
    PROVE  Estimates(t, new, frozen \cup {q})
<1> DEFINE frozen2 == frozen \cup {q}
<1>1. /\ est \in [States(t) -> Words] /\ frozen \subseteq States(t) /\ q \in States(t)
      /\ \A p \in States(t) : est[p] \in Words
      /\ frozen2 \subseteq States(t)
      /\ t.psi \in [States(t) -> Words]
  BY DEF Estimates, IsTotal, Words
<1>2. \A p \in frozen2 : new[p] = est[p]
  BY <1>1
<1>3. ASSUME NEW p \in States(t) \ frozen2
      PROVE  /\ new[p] \in Words /\ IsPrefix(new[p], est[p])
             /\ \A a \in Alphabet(t) : t.delta[<<p, a>>].to = q =>
                   IsPrefix(new[p], t.delta[<<p, a>>].out \o est[q])
             /\ \A u \in Words : (\A w \in Candidates(t, est, p, q) : IsPrefix(u, w)) => IsPrefix(u, new[p])
  <2>1. new[p] = Gcp(Candidates(t, est, p, q))
    OBVIOUS
  <2> QED BY <1>1, <2>1, CandidatesProperties, GcpIs
<1>4. new \in [States(t) -> Words] /\ \A p \in States(t) : new[p] \in Words
  <2>1. \A p \in States(t) : new[p] \in Words
    BY <1>1, <1>2, <1>3
  <2> QED BY <2>1
<1>5. \A p \in States(t) : IsPrefix(new[p], est[p])
  <2> TAKE p \in States(t)
  <2>1. CASE p \in frozen2
    BY <1>1, <1>2, <2>1, PrefixReflexive
  <2>2. CASE p \notin frozen2
    BY <1>3, <2>2
  <2> QED BY <2>1, <2>2
<1>6. \A p \in States(t) : \A w \in Outgoing(t, p, t.psi) : w \in Words /\ IsPrefix(new[p], w)
  <2> TAKE p \in States(t)
  <2> TAKE w \in Outgoing(t, p, t.psi)
  <2>1. w \in Words /\ IsPrefix(est[p], w)
    BY <1>1, OutgoingProperties DEF Estimates
  <2> QED BY <1>1, <1>4, <1>5, <2>1, PrefixTransitive
<1>7. \A p \in States(t) : IsPrefix(new[p], t.psi[p])
  BY <1>1, <1>6, OutgoingProperties
<1>8. \A u \in States(t) \ frozen2 : Len(est[q]) <= Len(new[u])
  <2> TAKE u \in States(t) \ frozen2
  <2> DEFINE low == SubSeq(est[u], 1, Len(est[q]))
  <2>1. /\ est[u] \in Words /\ Len(est[q]) <= Len(est[u]) /\ Len(est[q]) \in Nat /\ Len(est[u]) \in Nat
        /\ est[u] \in Seq(Nat)
    BY <1>1, LenProperties DEF Words
  <2>2. low \in Words /\ Len(low) = Len(est[q]) /\ \A i \in 1 .. Len(est[q]) : low[i] = est[u][i]
    BY <2>1 DEF Words
  <2> HIDE DEF low
  <2>3. IsPrefix(low, est[u])
    BY <2>1, <2>2, PrefixIs
  <2>4. ASSUME NEW w \in Candidates(t, est, u, q)
        PROVE  IsPrefix(low, w)
    <3>1. CASE w = est[u]
      BY <2>3, <3>1
    <3>2. ASSUME NEW a \in Alphabet(t), t.delta[<<u, a>>].to = q, w = t.delta[<<u, a>>].out \o est[q]
          PROVE  IsPrefix(low, w)
      <4>1. t.delta[<<u, a>>].out \o t.psi[q] \in Outgoing(t, u, t.psi)
        BY <1>1, <3>2, OutgoingProperties
      <4>2. /\ t.delta[<<u, a>>].out \o t.psi[q] \in Words
            /\ IsPrefix(est[u], t.delta[<<u, a>>].out \o t.psi[q])
        BY <1>1, <4>1, OutgoingProperties DEF Estimates
      <4>3. IsPrefix(low, t.delta[<<u, a>>].out \o t.psi[q])
        BY <2>1, <2>2, <2>3, <4>2, PrefixTransitive
      <4>4. IsPrefix(est[q], t.psi[q])
        BY <1>1, OutgoingProperties DEF Estimates
      <4>5. Len(low) <= Len(est[q])
        BY <2>1, <2>2
      <4> QED BY <1>1, <2>2, <3>2, <4>3, <4>4, <4>5, BehindOutput
    <3> QED BY <3>1, <3>2 DEF Candidates
  <2>5. IsPrefix(low, new[u])
    BY <1>3, <2>2, <2>4
  <2>6. Len(low) <= Len(new[u])
    BY <1>4, <2>2, <2>5, PrefixLength
  <2> QED BY <2>2, <2>6
<1>9. \A p \in frozen2 : Len(est[p]) <= Len(est[q]) /\ Len(est[p]) \in Nat /\ Len(est[q]) \in Nat
  <2> TAKE p \in frozen2
  <2>1. Len(est[p]) \in Nat /\ Len(est[q]) \in Nat
    BY <1>1, LenProperties DEF Words
  <2>2. p \in frozen => Len(est[p]) <= Len(est[q])
    BY DEF Estimates
  <2> QED BY <2>1, <2>2
<1>10. \A p \in frozen2, u \in States(t) \ frozen2 : Len(new[p]) <= Len(new[u])
  <2> TAKE p \in frozen2, u \in States(t) \ frozen2
  <2>1. Len(new[u]) \in Nat
    BY <1>4, LenProperties DEF Words
  <2> QED BY <1>2, <1>8, <1>9, <2>1
<1>11. ASSUME NEW p \in States(t), NEW a \in Alphabet(t), NEW out, NEW to,
              out = t.delta[<<p, a>>].out, to = t.delta[<<p, a>>].to,
              p \in frozen2 \/ to \in frozen2
       PROVE  IsPrefix(new[p], out \o new[to])
  <2>1. out \in Words /\ to \in States(t) /\ new[p] \in Words /\ est[p] \in Words /\ est[to] \in Words
    BY <1>1, <1>4, <1>11, TotalProperties
  <2>2. out \o t.psi[to] \in Outgoing(t, p, t.psi)
    BY <1>1, <1>11, OutgoingProperties
  <2>3. IsPrefix(new[p], out \o t.psi[to]) /\ IsPrefix(new[to], t.psi[to])
    BY <1>6, <1>7, <2>1, <2>2
  <2>4. ASSUME p \in frozen \/ to \in frozen
        PROVE  IsPrefix(est[p], out \o est[to])
    BY <1>11, <2>4 DEF Estimates
  <2>5. CASE p \in frozen2 /\ to \notin frozen2
    <3>1. Len(new[p]) <= Len(new[to])
      BY <1>10, <2>1, <2>5
    <3> QED BY <1>4, <1>11, <2>1, <2>3, <3>1, BehindOutput
  <2>6. CASE p = q /\ to = q
    <3>1. Len(new[p]) <= Len(new[to])
      BY <1>2, <1>9, <2>6
    <3> QED BY <1>4, <1>11, <2>1, <2>3, <3>1, BehindOutput
  <2>7. CASE p \notin frozen2 /\ to = q
    BY <1>2, <1>3, <1>11, <2>7
  <2>8. CASE to \in frozen \/ (p \in frozen /\ to = q)
    <3>1. IsPrefix(est[p], out \o est[to]) /\ new[to] = est[to]
      BY <1>2, <2>4, <2>8
    <3>2. out \o est[to] \in Words
      BY <2>1, ConcatWords
    <3>3. IsPrefix(new[p], est[p])
      BY <1>5
    <3> QED BY <2>1, <3>1, <3>2, <3>3, PrefixTransitive
  <2>9. \/ p \in frozen2 /\ to \notin frozen2
        \/ p = q /\ to = q
        \/ p \notin frozen2 /\ to = q
        \/ to \in frozen \/ (p \in frozen /\ to = q)
    <3>1. p \in frozen2 \/ to \in frozen2
      BY <1>11
    <3> QED BY ONLY <3>1
  <2> QED BY <2>5, <2>6, <2>7, <2>8, <2>9
<1>12. ASSUME NEW p \in States(t), NEW u \in Words, \A w \in Outgoing(t, p, new) : IsPrefix(u, w)
       PROVE  IsPrefix(u, new[p])
  <2>1. ASSUME NEW w \in Outgoing(t, p, est)
        PROVE  IsPrefix(u, w)
    <3>1. CASE w = t.psi[p]
      BY <1>4, <1>12, <3>1, OutgoingProperties
    <3>2. ASSUME NEW a \in Alphabet(t), NEW out, NEW to, w = out \o est[to],
                 out = t.delta[<<p, a>>].out, to = t.delta[<<p, a>>].to
          PROVE  IsPrefix(u, w)
      <4>1. out \in Words /\ to \in States(t) /\ new[to] \in Words /\ est[to] \in Words
        BY <1>1, <1>4, <3>2, TotalProperties
      <4>2. IsPrefix(u, out \o new[to])
        BY <1>4, <1>12, <3>2, OutgoingProperties
      <4>3. IsPrefix(out \o new[to], out \o est[to])
        BY <1>5, <4>1, PrefixBehind
      <4>4. IsPrefix(u, out \o est[to])
        BY <4>1, <4>2, <4>3, ConcatWords, PrefixTransitive
      <4> QED BY <3>2, <4>4
    <3> QED BY <3>1, <3>2 DEF Outgoing
  <2>2. IsPrefix(u, est[p])
    BY <2>1 DEF Estimates
  <2>3. CASE p \in frozen2
    BY <1>2, <2>2, <2>3
  <2>4. CASE p \notin frozen2
    <3>1. ASSUME NEW w \in Candidates(t, est, p, q)
          PROVE  IsPrefix(u, w)
      <4>1. CASE w = est[p]
        BY <2>2, <4>1
      <4>2. ASSUME NEW a \in Alphabet(t), t.delta[<<p, a>>].to = q, w = t.delta[<<p, a>>].out \o est[q]
            PROVE  IsPrefix(u, w)
        <5>1. t.delta[<<p, a>>].out \o new[q] \in Outgoing(t, p, new)
          BY <1>4, <4>2, OutgoingProperties
        <5> QED BY <1>2, <1>12, <4>2, <5>1
      <4> QED BY <4>1, <4>2 DEF Candidates
    <3> QED BY <1>3, <2>4, <3>1
  <2> QED BY <2>3, <2>4
<1> QED BY <1>1, <1>4, <1>6, <1>10, <1>11, <1>12 DEF Estimates
--------------------------------------------------------------------------------
(* The transducer that is built.                                             *)

\* When all states are frozen, each estimate is the greatest common prefix.
LEMMA FrozenEstimates ==
    ASSUME NEW t, IsTotal(t), NEW sigma, Estimates(t, sigma, States(t)), NEW q \in States(t)
    PROVE  /\ sigma[q] \in Words
           /\ \A w \in Outgoing(t, q, sigma) : IsPrefix(sigma[q], w)
           /\ \A u \in Words : (\A w \in Outgoing(t, q, sigma) : IsPrefix(u, w)) => IsPrefix(u, sigma[q])
<1>1. sigma \in [States(t) -> Words] /\ t.psi \in [States(t) -> Words]
  BY DEF Estimates, IsTotal, Words
<1>2. IsPrefix(sigma[q], t.psi[q])
  BY <1>1, OutgoingProperties DEF Estimates
<1>3. \A a \in Alphabet(t) : IsPrefix(sigma[q], t.delta[<<q, a>>].out \o sigma[t.delta[<<q, a>>].to])
  BY DEF Estimates
<1> QED BY <1>1, <1>2, <1>3 DEF Estimates, Outgoing

\* Pushing changes neither the states nor the letters nor where a transition goes.
LEMMA PushedProperties ==
    ASSUME NEW t, IsTotal(t), NEW sigma, NEW r, r = Pushed(t, sigma)
    PROVE  /\ States(r) = States(t) /\ Alphabet(r) = Alphabet(t)
           /\ r.initialOut = t.initialOut \o sigma[0]
           /\ \A q \in States(t) : r.psi[q] = InvMul(sigma[q], t.psi[q])
<1>1. /\ r.n = t.n /\ r.initialOut = t.initialOut \o sigma[0]
      /\ r.psi = [q \in States(t) |-> InvMul(sigma[q], t.psi[q])]
      /\ DOMAIN r.delta = DOMAIN t.delta
  BY DEF Pushed, Total
<1>2. States(r) = States(t) /\ Alphabet(r) = Alphabet(t)
  BY <1>1 DEF States, Alphabet
<1> QED BY <1>1, <1>2

\* What a transition writes after pushing.
LEMMA PushedTransition ==
    ASSUME NEW t, IsTotal(t), NEW sigma, NEW r, r = Pushed(t, sigma),
           NEW q \in States(t), NEW a \in Alphabet(t), NEW c, c = t.delta[<<q, a>>]
    PROVE  /\ r.delta[<<q, a>>].out = InvMul(sigma[q], c.out \o sigma[c.to])
           /\ r.delta[<<q, a>>].to = c.to
<1> DEFINE k == <<q, a>>
<1>1. k \in DOMAIN t.delta /\ k[1] = q
  BY DEF IsTotal
<1>2. c \in [out : Seq(Nat), to : States(t)]
  BY <1>1 DEF IsTotal
<1>3. r.delta = [d \in DOMAIN t.delta |->
                    [t.delta[d] EXCEPT !.out = InvMul(sigma[d[1]], @ \o sigma[t.delta[d].to])]]
  BY DEF Pushed, Total
<1>4. r.delta[k] = [t.delta[k] EXCEPT !.out = InvMul(sigma[k[1]], @ \o sigma[t.delta[k].to])]
  BY <1>1, <1>3
<1> HIDE DEF k
<1>5. r.delta[k] = [c EXCEPT !.out = InvMul(sigma[q], @ \o sigma[c.to])]
  BY <1>1, <1>4 DEF k
<1>6. r.delta[k].out = InvMul(sigma[q], c.out \o sigma[c.to]) /\ r.delta[k].to = c.to
  BY ONLY <1>2, <1>5
<1> QED BY <1>6 DEF k

\* Nothing can be written earlier.
LEMMA PushedIsCanonical ==
    ASSUME NEW t, IsTotal(t), NEW sigma, Estimates(t, sigma, States(t)), NEW r, r = Pushed(t, sigma)
    PROVE  IsCanonical(r)
<1>1. sigma \in [States(t) -> Words]
  BY DEF Estimates
<1>2. /\ States(r) = States(t) /\ Alphabet(r) = Alphabet(t)
      /\ \A q \in States(t) : r.psi[q] = InvMul(sigma[q], t.psi[q])
      /\ \A q \in States(t), a \in Alphabet(t) :
            r.delta[<<q, a>>].out = InvMul(sigma[q], t.delta[<<q, a>>].out \o sigma[t.delta[<<q, a>>].to])
  <2>1. IsTotal(t) /\ r = Pushed(t, sigma)
    OBVIOUS
  <2>2. States(r) = States(t) /\ Alphabet(r) = Alphabet(t)
    BY ONLY <1>1, <2>1, PushedProperties
  <2>3. ASSUME NEW q \in States(t)
        PROVE  r.psi[q] = InvMul(sigma[q], t.psi[q])
    BY ONLY <1>1, <2>1, PushedProperties, q \in States(t)
  <2>4. ASSUME NEW q \in States(t), NEW a \in Alphabet(t)
        PROVE  r.delta[<<q, a>>].out = InvMul(sigma[q], t.delta[<<q, a>>].out \o sigma[t.delta[<<q, a>>].to])
    <3>1. PICK c : c = t.delta[<<q, a>>]
      OBVIOUS
    <3>2. r.delta[<<q, a>>].out = InvMul(sigma[q], c.out \o sigma[c.to])
      BY ONLY <2>1, <3>1, PushedTransition, q \in States(t), a \in Alphabet(t)
    <3> QED BY ONLY <3>1, <3>2
  <2> QED BY ONLY <2>2, <2>3, <2>4
<1>3. ASSUME NEW q \in States(t)
      PROVE  Gcp({r.psi[q]} \cup {r.delta[<<q, a>>].out : a \in Alphabet(t)}) = <<>>
  <2> DEFINE W == Outgoing(t, q, sigma)
             V == {InvMul(sigma[q], w) : w \in W}
             R == {r.psi[q]} \cup {r.delta[<<q, a>>].out : a \in Alphabet(t)}
  <2>1. Gcp(V) = <<>>
    <3>1. W \subseteq Words /\ W # {}
      BY <1>1, OutgoingProperties
    <3> HIDE DEF W
    <3>2. /\ sigma[q] \in Words /\ \A w \in W : IsPrefix(sigma[q], w)
          /\ \A u \in Words : (\A w \in W : IsPrefix(u, w)) => IsPrefix(u, sigma[q])
      BY FrozenEstimates DEF W
    <3> QED BY <3>1, <3>2, GcpTakenOff
  <2>2. \A v : v \in V <=> \E w \in W : v = InvMul(sigma[q], w)
    OBVIOUS
  <2>3. \A w : w \in W <=> \/ w = t.psi[q]
                           \/ \E a \in Alphabet(t) : w = t.delta[<<q, a>>].out \o sigma[t.delta[<<q, a>>].to]
    BY DEF Outgoing
  <2>4. \A v : v \in R <=> \/ v = InvMul(sigma[q], t.psi[q])
                           \/ \E a \in Alphabet(t) :
                                 v = InvMul(sigma[q], t.delta[<<q, a>>].out \o sigma[t.delta[<<q, a>>].to])
    BY <1>2
  <2> HIDE DEF V, W, R
  <2>5. \A v : v \in V <=> v \in R
    BY ONLY <2>2, <2>3, <2>4
  <2>6. V = R
    BY ONLY <2>5
  <2> QED BY <2>1, <2>6 DEF V, R
<1> QED BY <1>2, <1>3 DEF IsCanonical
--------------------------------------------------------------------------------
(* What it computes.                                                         *)

\* One letter of a word, and the whole of it.
OneLetter(t, s, a) == [out |-> s.out \o t.delta[<<s.at, a>>].out, at |-> t.delta[<<s.at, a>>].to]

IsRun(t, q, word, run) ==
    run = [i \in 0 .. Len(word) |->
              IF i = 0 THEN [out |-> <<>>, at |-> q] ELSE OneLetter(t, run[i - 1], word[i])]

\* Every word can be read, from the first letter to the last.
LEMMA RunExists ==
    ASSUME NEW t, NEW q, NEW word, Len(word) \in Nat
    PROVE  \E run : IsRun(t, q, word, run)
<1> DEFINE n == Len(word)
           Start == [out |-> <<>>, at |-> q]
           Upto(k) == \E run : run = [i \in 0 .. k |-> IF i = 0 THEN Start ELSE OneLetter(t, run[i - 1], word[i])]
           S == {k \in 0 .. n : Upto(k)}
<1>1. 0 \in S
  <2> DEFINE run == [i \in 0 .. 0 |-> Start]
  <2> HIDE DEF Start
  <2>1. \A i \in 0 .. 0 : i = 0
    OBVIOUS
  <2>2. run = [i \in 0 .. 0 |-> IF i = 0 THEN Start ELSE OneLetter(t, run[i - 1], word[i])]
    BY <2>1
  <2> HIDE DEF run
  <2>3. Upto(0)
    BY <2>2
  <2> HIDE DEF Upto
  <2> QED BY <2>3
<1>2. ASSUME NEW k \in 0 .. n - 1, k \in S
      PROVE  k + 1 \in S
  <2>1. PICK run : run = [i \in 0 .. k |-> IF i = 0 THEN Start ELSE OneLetter(t, run[i - 1], word[i])]
    BY <1>2
  <2> DEFINE longer == [i \in 0 .. k + 1 |-> IF i = k + 1 THEN OneLetter(t, run[k], word[k + 1]) ELSE run[i]]
  <2> HIDE DEF Start
  <2>2. \A i \in 0 .. k : longer[i] = run[i]
    OBVIOUS
  <2>3. ASSUME NEW i \in 0 .. k + 1
        PROVE  longer[i] = IF i = 0 THEN Start ELSE OneLetter(t, longer[i - 1], word[i])
    <3>1. CASE i = k + 1
      <4>1. i # 0 /\ i - 1 = k /\ k \in 0 .. k
        BY <3>1
      <4> QED BY <2>2, <3>1, <4>1
    <3>2. CASE i # k + 1
      <4>1. i \in 0 .. k /\ (i # 0 => i - 1 \in 0 .. k)
        BY <3>2
      <4>2. run[i] = IF i = 0 THEN Start ELSE OneLetter(t, run[i - 1], word[i])
        BY <2>1, <4>1
      <4> QED BY <2>2, <4>1, <4>2
    <3> QED BY <3>1, <3>2
  <2>4. longer = [i \in 0 .. k + 1 |-> IF i = 0 THEN Start ELSE OneLetter(t, longer[i - 1], word[i])]
    BY <2>3
  <2> HIDE DEF longer
  <2> QED BY <2>4
<1> HIDE DEF Upto
<1>3. S = 0 .. n
  BY <1>1, <1>2, Counting
<1>4. Upto(n)
  BY <1>3
<1> QED BY <1>4 DEF Upto, IsRun

\* Read() is the last step of a run.
LEMMA ReadIsRun ==
    ASSUME NEW t, NEW q, NEW word, Len(word) \in Nat
    PROVE  \E run : IsRun(t, q, word, run) /\ Read(t, q, word) = run[Len(word)]
<1> DEFINE chosen == CHOOSE run : IsRun(t, q, word, run)
<1>1. IsRun(t, q, word, chosen)
  BY RunExists
<1>2. Read(t, q, word) = chosen[Len(word)]
  BY DEF Read, IsRun, OneLetter
<1> QED BY <1>1, <1>2

\* The first step of a run, and each that follows.
LEMMA RunIs ==
    ASSUME NEW t, NEW q, NEW word, NEW n \in Nat, Len(word) = n, NEW run, IsRun(t, q, word, run)
    PROVE  /\ run[0] = [out |-> <<>>, at |-> q]
           /\ \A i \in 1 .. n : run[i] = OneLetter(t, run[i - 1], word[i])
<1>1. run = [i \in 0 .. n |-> IF i = 0 THEN [out |-> <<>>, at |-> q] ELSE OneLetter(t, run[i - 1], word[i])]
  BY DEF IsRun
<1>2. 0 \in 0 .. n /\ \A i \in 1 .. n : i \in 0 .. n /\ i # 0
  OBVIOUS
<1> QED BY ONLY <1>1, <1>2

\* What was pushed to the start and has been written since, done, is what the given
\* transducer has written and then the push value of the state, here.
Together(start, done, given, here) ==
    /\ start \in Words /\ done \in Words /\ given \in Words /\ here \in Words
    /\ start \o done = given \o here

\* One more letter: what was pushed is taken off and put on again.
LEMMA PushedLetter ==
    ASSUME NEW start, NEW done, NEW given, NEW here, Together(start, done, given, here),
           NEW out, NEW there, out \in Words, there \in Words, IsPrefix(here, out \o there)
    PROVE  Together(start, done \o InvMul(here, out \o there), given \o out, there)
<1> DEFINE both == out \o there
           rest == InvMul(here, both)
<1>1. /\ start \in Words /\ done \in Words /\ given \in Words /\ here \in Words
      /\ start \o done = given \o here
  BY DEF Together
<1>2. both \in Words /\ given \o out \in Words
  BY <1>1, ConcatWords
<1>3. rest \in Words /\ here \o rest = both
  <2> HIDE DEF both
  <2> QED BY <1>1, <1>2, InvMulIs DEF both
<1>4. done \o rest \in Words
  BY <1>1, <1>3, ConcatWords
<1> HIDE DEF rest
<1>5. start \o (done \o rest) = (start \o done) \o rest
  BY ONLY <1>1, <1>3, ConcatRegroups
<1>6. (given \o here) \o rest = given \o (here \o rest)
  BY ONLY <1>1, <1>3, ConcatRegroups
<1>7. given \o both = (given \o out) \o there
  BY ONLY <1>1, ConcatRegroups, out \in Words, there \in Words
<1> HIDE DEF both
<1>8. start \o (done \o rest) = (given \o out) \o there
  BY ONLY <1>1, <1>3, <1>5, <1>6, <1>7
<1> QED BY <1>1, <1>2, <1>4, <1>8 DEF rest, both, Together

\* The end: what was pushed to the start comes off the last output.
LEMMA PushedEnd ==
    ASSUME NEW start, NEW done, NEW given, NEW here, Together(start, done, given, here),
           NEW first, NEW last, first \in Words, last \in Words, IsPrefix(here, last)
    PROVE  ((first \o start) \o done) \o InvMul(here, last) = (first \o given) \o last
<1> DEFINE rest == InvMul(here, last)
<1>1. /\ start \in Words /\ done \in Words /\ given \in Words /\ here \in Words
      /\ start \o done = given \o here
  BY DEF Together
<1>2. rest \in Words /\ here \o rest = last
  BY <1>1, InvMulIs
<1> HIDE DEF rest
<1>3. (first \o start) \o done = first \o (start \o done)
  BY ONLY <1>1, ConcatRegroups, first \in Words
<1>4. first \o (given \o here) = (first \o given) \o here
  BY ONLY <1>1, ConcatRegroups, first \in Words
<1>5. first \o given \in Words
  BY <1>1, ConcatWords
<1>6. ((first \o given) \o here) \o rest = (first \o given) \o (here \o rest)
  BY ONLY <1>1, <1>2, <1>5, ConcatRegroups
<1>7. ((first \o start) \o done) \o rest = (first \o given) \o last
  BY ONLY <1>1, <1>2, <1>3, <1>4, <1>6
<1> QED BY <1>7 DEF rest

\* How the runs of t and of the result go together: the result is ahead by the
\* push value of the state.
Ahead(t, sigma, given, new) ==
    /\ given.at \in States(t) /\ new.at = given.at
    /\ Together(sigma[0], new.out, given.out, sigma[given.at])

\* One more letter keeps what was pushed ahead of what was given.
LEMMA StaysAhead ==
    ASSUME NEW t, IsTotal(t), NEW sigma, Estimates(t, sigma, States(t)), NEW r, r = Pushed(t, sigma),
           NEW a \in Alphabet(t), NEW given, NEW new, Ahead(t, sigma, given, new)
    PROVE  Ahead(t, sigma, OneLetter(t, given, a), OneLetter(r, new, a))
<1>1. PICK q, c : q = given.at /\ c = t.delta[<<q, a>>]
  OBVIOUS
<1>2. PICK start, done, from, out : start = sigma[0] /\ done = new.out /\ from = given.out /\ out = c.out
  OBVIOUS
<1>3. PICK here, there : here = sigma[q] /\ there = sigma[c.to]
  OBVIOUS
<1>4. q \in States(t) /\ Together(start, done, from, here)
  BY <1>1, <1>2, <1>3 DEF Ahead
<1>5. out \in Words /\ c.to \in States(t)
  BY <1>1, <1>2, <1>4, TotalProperties
<1>6. there \in Words
  BY <1>2, <1>3, <1>4, <1>5, TotalProperties DEF Estimates
<1>7. r.delta[<<q, a>>].out = InvMul(here, out \o there) /\ r.delta[<<q, a>>].to = c.to
  BY <1>1, <1>2, <1>3, <1>4, PushedTransition
<1>8. IsPrefix(here, out \o there)
  BY <1>1, <1>2, <1>3, <1>4 DEF Estimates
<1>9. Together(start, done \o InvMul(here, out \o there), from \o out, there)
  BY ONLY <1>4, <1>5, <1>6, <1>8, PushedLetter
<1>10. OneLetter(t, given, a).out = from \o out /\ OneLetter(t, given, a).at = c.to
  BY ONLY <1>1, <1>2 DEF OneLetter
<1>11. new.at = q
  BY <1>1 DEF Ahead
<1>12. OneLetter(r, new, a).out = done \o InvMul(here, out \o there) /\ OneLetter(r, new, a).at = c.to
  BY ONLY <1>2, <1>7, <1>11 DEF OneLetter
<1> QED BY ONLY <1>2, <1>3, <1>5, <1>9, <1>10, <1>12 DEF Ahead

\* The result computes what t does, for every word over its letters.
LEMMA PushedComputes ==
    ASSUME NEW t, IsTotal(t), NEW sigma, Estimates(t, sigma, States(t)), NEW r, r = Pushed(t, sigma),
           NEW n \in Nat, NEW word \in [1 .. n -> Alphabet(t)]
    PROVE  F(r, word) = F(t, word)
<1>1. Len(word) = n /\ \A i \in 1 .. n : word[i] \in Alphabet(t)
  <2>1. word \in Seq(Alphabet(t)) /\ DOMAIN word = 1 .. n
    OBVIOUS
  <2>2. Len(word) \in Nat /\ DOMAIN word = 1 .. Len(word)
    BY <2>1, LenProperties
  <2> QED BY <2>1, <2>2
<1>2. PICK given : IsRun(t, 0, word, given) /\ Read(t, 0, word) = given[n]
  BY <1>1, ReadIsRun
<1>3. PICK new : IsRun(r, 0, word, new) /\ Read(r, 0, word) = new[n]
  BY <1>1, ReadIsRun
<1>4. /\ given[0] = [out |-> <<>>, at |-> 0]
      /\ \A i \in 1 .. n : given[i] = OneLetter(t, given[i - 1], word[i])
  BY <1>1, <1>2, RunIs
<1>5. /\ new[0] = [out |-> <<>>, at |-> 0]
      /\ \A i \in 1 .. n : new[i] = OneLetter(r, new[i - 1], word[i])
  BY <1>1, <1>3, RunIs
<1>6. /\ 0 \in States(t) /\ t.initialOut \in Words
      /\ \A q \in States(t) : sigma[q] \in Words /\ t.psi[q] \in Words /\ IsPrefix(sigma[q], t.psi[q])
  <2>1. sigma \in [States(t) -> Words] /\ t.psi \in [States(t) -> Words]
    BY DEF Estimates, IsTotal, Words
  <2>2. \A q \in States(t) : IsPrefix(sigma[q], t.psi[q])
    BY <2>1, OutgoingProperties DEF Estimates
  <2> QED BY <2>1, <2>2, TotalProperties
<1> DEFINE S == {i \in 0 .. n : Ahead(t, sigma, given[i], new[i])}
<1>7. 0 \in S
  <2>1. <<>> \in Words /\ sigma[0] \in Seq(Nat)
    BY <1>6 DEF Words
  <2>2. sigma[0] \o <<>> = sigma[0] /\ <<>> \o sigma[0] = sigma[0]
    BY <2>1, ConcatEmptySeq
  <2>3. given[0].out = <<>> /\ given[0].at = 0 /\ new[0].out = <<>> /\ new[0].at = 0
    BY ONLY <1>4, <1>5
  <2>4. Ahead(t, sigma, given[0], new[0])
    BY ONLY <1>6, <2>1, <2>2, <2>3 DEF Ahead, Together
  <2> QED BY <2>4
<1>8. ASSUME NEW i \in 0 .. n - 1, i \in S
      PROVE  i + 1 \in S
  <2>1. i + 1 \in 1 .. n /\ i + 1 \in 0 .. n /\ (i + 1) - 1 = i
    OBVIOUS
  <2>2. given[i + 1] = OneLetter(t, given[i], word[i + 1]) /\ new[i + 1] = OneLetter(r, new[i], word[i + 1])
    BY ONLY <1>4, <1>5, <2>1
  <2>3. Ahead(t, sigma, given[i], new[i]) /\ word[i + 1] \in Alphabet(t)
    BY <1>1, <1>8, <2>1
  <2>4. Ahead(t, sigma, given[i + 1], new[i + 1])
    BY <2>2, <2>3, StaysAhead
  <2> QED BY <2>1, <2>4
<1>9. Ahead(t, sigma, given[n], new[n])
  <2>1. S = 0 .. n
    BY <1>7, <1>8, Counting
  <2> QED BY <2>1
<1>10. PICK q, first, start, done, from, here, last :
          /\ q = given[n].at /\ first = t.initialOut /\ start = sigma[0] /\ done = new[n].out
          /\ from = given[n].out /\ here = sigma[q] /\ last = t.psi[q]
  OBVIOUS
<1>11. /\ q \in States(t) /\ new[n].at = q
       /\ Together(start, done, from, here)
       /\ first \in Words /\ last \in Words /\ IsPrefix(here, last)
  BY ONLY <1>6, <1>9, <1>10 DEF Ahead
<1>12. F(t, word) = (first \o from) \o last
  BY <1>2, <1>10 DEF F
<1>13. r.initialOut = first \o start /\ r.psi[q] = InvMul(here, last)
  BY <1>10, <1>11, PushedProperties
<1>14. F(r, word) = ((first \o start) \o done) \o InvMul(here, last)
  BY <1>3, <1>10, <1>11, <1>13 DEF F
<1>15. ((first \o start) \o done) \o InvMul(here, last) = (first \o from) \o last
  BY ONLY <1>11, PushedEnd
<1> QED BY ONLY <1>12, <1>14, <1>15
--------------------------------------------------------------------------------
(* The search and what it is for.                                            *)

\* The estimates are right at every stage; the transducer is rebuilt with those
\* that are frozen.
IInv ==
    /\ fst \in Firsts
    /\ stage \in {"relax", "canonical", "composed"}
    /\ Estimates(fst, estimate, finalized)
    /\ stage = "canonical" => finalized = States(fst) /\ result = Pushed(fst, estimate)

\* The seeds are estimates.
LEMMA InitInvariant == Init => IInv
<1> SUFFICES ASSUME Init PROVE IInv
  OBVIOUS
<1>1. IsTotal(fst)
  BY FirstsAssumption DEF Init
<1>2. Estimates(fst, estimate, finalized)
  BY <1>1, SeedProperties DEF Init
<1> QED BY <1>2 DEF Init, IInv

\* Freezing a state and refining the others keeps the invariant.
LEMMA RelaxInvariant ==
    ASSUME IInv, NEW q \in States(fst), Relax(q)
    PROVE  IInv'
<1>1. IsTotal(fst) /\ Estimates(fst, estimate, finalized) /\ stage = "relax" /\ fst \in Firsts
  BY FirstsAssumption DEF IInv, Relax
<1>2. /\ q \in States(fst) \ finalized /\ fst' = fst /\ stage' = stage
      /\ finalized' = finalized \cup {q}
  BY DEF Relax
<1>3. \A p \in States(fst) \ finalized : Len(estimate[q]) <= Len(estimate[p])
  <2> TAKE p \in States(fst) \ finalized
  <2>1. Len(estimate[q]) \in Nat /\ Len(estimate[p]) \in Nat
    BY <1>1, LenProperties DEF Estimates, Words
  <2>2. Len(estimate[q]) < Len(estimate[p]) \/ Len(estimate[q]) = Len(estimate[p])
    BY DEF Relax, Shortest
  <2> QED BY <2>1, <2>2
<1>4. \A p : Refined(p, q) = Gcp(Candidates(fst, estimate, p, q))
  BY DEF Refined, Candidates
<1>5. estimate' = [p \in States(fst) |-> IF p \in finalized \cup {q} THEN estimate[p]
                                        ELSE Gcp(Candidates(fst, estimate, p, q))]
  BY <1>2, <1>4 DEF Relax
<1>6. Estimates(fst, estimate', finalized')
  BY <1>1, <1>2, <1>3, <1>5, RelaxKeepsEstimates
<1> QED BY <1>1, <1>2, <1>6 DEF IInv

\* Every step keeps the invariant.
LEMMA NextInvariant == IInv /\ [Next]_vars => IInv'
<1> SUFFICES ASSUME IInv, [Next]_vars PROVE IInv'
  OBVIOUS
<1>1. ASSUME NEW q \in States(fst), Relax(q)
      PROVE  IInv'
  BY <1>1, RelaxInvariant
<1>2. CASE Rebuild
  <2>1. /\ fst' = fst /\ estimate' = estimate /\ finalized' = finalized /\ finalized = States(fst)
        /\ stage' = "canonical" /\ result' = Pushed(fst, estimate)
    BY <1>2 DEF Rebuild
  <2> QED BY <2>1 DEF IInv
<1>3. CASE Compose
  <2>1. fst' = fst /\ estimate' = estimate /\ finalized' = finalized /\ stage' = "composed"
    BY <1>3 DEF Compose
  <2> QED BY <2>1 DEF IInv
<1>4. CASE UNCHANGED vars
  BY <1>4 DEF IInv, vars
<1> QED BY <1>1, <1>2, <1>3, <1>4 DEF Next

\* The invariant of the search for the push values: the estimates are common
\* prefixes of what can be written and lose none, and the frozen ones never
\* change again and are the shortest (canonicalizeFST, include/canonical.hpp).
THEOREM Invariant == Spec => []IInv
<1> QED BY InitInvariant, NextInvariant, PTL DEF Spec

\* What the invariant says of a canonical form.
LEMMA Onward == IInv => CanonicalIsOnward
<1> SUFFICES ASSUME IInv, stage = "canonical"
             PROVE  IsCanonical(result) /\ \A w \in Inputs : F(result, w) = F(fst, w)
  BY DEF CanonicalIsOnward
<1>1. IsTotal(fst) /\ Estimates(fst, estimate, States(fst)) /\ result = Pushed(fst, estimate)
  BY FirstsAssumption DEF IInv
<1>2. IsCanonical(result)
  BY <1>1, PushedIsCanonical
<1>3. ASSUME NEW w \in Inputs
      PROVE  F(result, w) = F(fst, w)
  <2>1. PICK n \in 0 .. MaxRead : w \in [1 .. n -> Alphabet(fst)]
    BY DEF Inputs
  <2>2. n \in Nat
    OBVIOUS
  <2> QED BY <1>1, <2>1, <2>2, PushedComputes
<1> QED BY <1>2, <1>3

\* Whatever total transducer canonicalizeFST() is given, no state of its result
\* has a prefix in common that could be written earlier, and the result computes
\* what the transducer computed that was given.
THEOREM CanonicalForm == Spec => []CanonicalIsOnward
<1> QED BY Invariant, Onward, PTL
--------------------------------------------------------------------------------
(* Counting through a list of steps, and listing a set.                    *)

\* A first value and n steps.
AreSteps(n, D, base, step, f) ==
    /\ f \in [0 .. n -> D]
    /\ f[0] = base
    /\ \A i \in 1 .. n : f[i] = step[<<f[i - 1], i>>]

\* What is defined step by step, from a first value on, is there.
LEMMA StepsExist ==
    ASSUME NEW n \in Nat, NEW D, NEW base \in D, NEW step \in [D \X (1 .. n) -> D]
    PROVE  \E f : AreSteps(n, D, base, step, f)
<1> DEFINE Upto(k) == \E f : AreSteps(k, D, base, step, f)
           S == {k \in 0 .. n : Upto(k)}
<1>1. 0 \in S
  <2> DEFINE f == [i \in 0 .. 0 |-> base]
  <2>1. f \in [0 .. 0 -> D] /\ f[0] = base /\ \A i \in 1 .. 0 : f[i] = step[<<f[i - 1], i>>]
    OBVIOUS
  <2>2. Upto(0)
    BY <2>1 DEF AreSteps
  <2> HIDE DEF Upto
  <2> QED BY <2>2
<1>2. ASSUME NEW k \in 0 .. n - 1, k \in S
      PROVE  k + 1 \in S
  <2>1. PICK f \in [0 .. k -> D] : f[0] = base /\ \A i \in 1 .. k : f[i] = step[<<f[i - 1], i>>]
    BY <1>2 DEF AreSteps
  <2> DEFINE next == step[<<f[k], k + 1>>]
             longer == [i \in 0 .. k + 1 |-> IF i = k + 1 THEN next ELSE f[i]]
  <2>2. next \in D
    <3>1. f[k] \in D /\ k + 1 \in 1 .. n
      OBVIOUS
    <3>2. <<f[k], k + 1>> \in D \X (1 .. n)
      BY <3>1
    <3> QED BY <3>2
  <2> HIDE DEF next
  <2>3. longer \in [0 .. k + 1 -> D] /\ longer[k + 1] = next /\ \A i \in 0 .. k : longer[i] = f[i]
    <3>1. \A i \in 0 .. k + 1 : i # k + 1 => i \in 0 .. k
      OBVIOUS
    <3>2. \A i \in 0 .. k : i \in 0 .. k + 1 /\ i # k + 1
      OBVIOUS
    <3>3. k + 1 \in 0 .. k + 1
      OBVIOUS
    <3> QED BY <2>2, <3>1, <3>2, <3>3
  <2> HIDE DEF longer
  <2>4. ASSUME NEW i \in 1 .. k + 1
        PROVE  longer[i] = step[<<longer[i - 1], i>>]
    <3>1. CASE i = k + 1
      <4>1. i - 1 = k /\ k \in 0 .. k
        BY <3>1
      <4> QED BY <2>3, <3>1, <4>1 DEF next
    <3>2. CASE i # k + 1
      <4>1. i \in 1 .. k /\ i \in 0 .. k /\ i - 1 \in 0 .. k
        BY <3>2
      <4> QED BY <2>1, <2>3, <4>1
    <3> QED BY <3>1, <3>2
  <2>5. 0 \in 0 .. k
    OBVIOUS
  <2>6. Upto(k + 1)
    BY <2>1, <2>3, <2>4, <2>5 DEF AreSteps
  <2> HIDE DEF Upto
  <2> QED BY <2>6
<1>3. S = 0 .. n
  <2> HIDE DEF Upto
  <2> QED BY <1>1, <1>2, Counting
<1>4. Upto(n)
  <2> HIDE DEF Upto
  <2> QED BY <1>3
<1> QED BY <1>4

\* A finite set as a sequence of its members.
LEMMA SetToSeqIs ==
    ASSUME NEW S, IsFiniteSet(S), NEW s, s = SetToSeq(S)
    PROVE  /\ s \in Seq(S) /\ Len(s) = Cardinality(S)
           /\ \A i, j \in 1 .. Len(s) : s[i] = s[j] => i = j
           /\ \A c \in S : \E i \in 1 .. Len(s) : s[i] = c
<1> DEFINE n == Cardinality(S)
<1>1. n \in Nat /\ \E f : f \in Bijection(1 .. n, S)
  BY FS_CardinalityType DEF ExistsBijection
<1>2. \E f \in [1 .. n -> S] : IsInjective(f)
  BY <1>1 DEF Bijection, Injection
<1>3. s \in [1 .. n -> S] /\ IsInjective(s)
  BY <1>2 DEF SetToSeq
<1>4. s \in Injection(1 .. n, S)
  BY <1>3 DEF Injection
<1>5. IsFiniteSet(1 .. n) /\ Cardinality(1 .. n) = n
  BY <1>1, FS_Interval
<1>6. s \in Surjection(1 .. n, S)
  BY <1>4, <1>5, FS_Injection
<1>7. s \in Seq(S) /\ Len(s) = n
  BY <1>1, <1>3
<1>8. \A c \in S : \E i \in 1 .. n : s[i] = c
  BY <1>6 DEF Surjection
<1>9. DOMAIN s = 1 .. n
  BY <1>3
<1> QED BY <1>3, <1>7, <1>8, <1>9 DEF IsInjective
--------------------------------------------------------------------------------
(* The search of composeFST() and of trimming.                             *)

\* After i nodes had their turn: each node is found once, and so are the
\* successors of those that had their turn.
Searched(S, next, start, found, i) ==
    /\ found \in Seq(S) /\ Len(found) >= 1 /\ found[1] = start
    /\ \A j, k \in 1 .. Len(found) : found[j] = found[k] => j = k
    /\ \A j \in 1 .. Len(found) : j <= i => \A c \in next[found[j]] : \E k \in 1 .. Len(found) : found[k] = c

\* A step of the search finds nodes.
LEMMA ExploreType ==
    ASSUME NEW S, IsFiniteSet(S), NEW next \in [S -> SUBSET S], NEW found \in Seq(S), NEW i \in Nat, i >= 1
    PROVE  Explore(next, found, i) \in Seq(S)
<1>1. CASE i > Len(found)
  BY <1>1 DEF Explore
<1>2. CASE ~(i > Len(found))
  <2> DEFINE new == next[found[i]] \ Range(found)
             more == SetToSeq(new)
  <2>1. Len(found) \in Nat
    BY LenProperties
  <2>2. found[i] \in S
    BY <1>2, <2>1, ElementOfSeq
  <2>3. new \subseteq S /\ IsFiniteSet(new)
    BY <2>2, FS_Subset
  <2> HIDE DEF new
  <2>4. more \in Seq(S)
    <3>1. more \in Seq(new)
      BY <2>3, SetToSeqIs
    <3>2. more \in [1 .. Len(more) -> new] /\ Len(more) \in Nat
      BY <3>1, LenProperties
    <3>3. more \in [1 .. Len(more) -> S]
      BY <2>3, <3>2
    <3> HIDE DEF more
    <3> QED BY <3>2, <3>3
  <2> HIDE DEF more
  <2>5. found \o more \in Seq(S)
    BY <2>4, ConcatProperties
  <2> QED BY <1>2, <2>5 DEF Explore, more, new
<1> QED BY <1>1, <1>2

\* A step of the search gives the next node its turn.
LEMMA ExploreKeeps ==
    ASSUME NEW S, IsFiniteSet(S), NEW next \in [S -> SUBSET S], NEW start,
           NEW i \in Nat, i >= 1, NEW found, Searched(S, next, start, found, i - 1)
    PROVE  Searched(S, next, start, Explore(next, found, i), i)
<1>1. found \in Seq(S) /\ Len(found) \in Nat /\ DOMAIN found = 1 .. Len(found)
  BY LenProperties DEF Searched
<1>2. CASE i > Len(found)
  <2>1. Explore(next, found, i) = found
    BY <1>2 DEF Explore
  <2>2. \A j \in 1 .. Len(found) : j <= i - 1
    BY <1>1, <1>2
  <2> QED BY <2>1, <2>2 DEF Searched
<1>3. CASE ~(i > Len(found))
  <2> DEFINE new == next[found[i]] \ Range(found)
             more == SetToSeq(new)
             all == found \o more
             n == Len(found)
  <2>1. i \in 1 .. n /\ found[i] \in S
    BY <1>1, <1>3, ElementOfSeq
  <2>2. new \subseteq S /\ IsFiniteSet(new)
    BY <2>1, FS_Subset
  <2> HIDE DEF new
  <2>3. /\ more \in Seq(new) /\ Len(more) \in Nat
        /\ \A j, k \in 1 .. Len(more) : more[j] = more[k] => j = k
        /\ \A c \in new : \E j \in 1 .. Len(more) : more[j] = c
        /\ \A j \in 1 .. Len(more) : more[j] \in new
    <3>1. /\ more \in Seq(new) /\ \A j, k \in 1 .. Len(more) : more[j] = more[k] => j = k
          /\ \A c \in new : \E j \in 1 .. Len(more) : more[j] = c
      BY <2>2, SetToSeqIs
    <3> HIDE DEF more
    <3>2. Len(more) \in Nat /\ \A j \in 1 .. Len(more) : more[j] \in new
      BY <3>1, LenProperties, ElementOfSeq
    <3> QED BY <3>1, <3>2
  <2> HIDE DEF more
  <2>4. more \in Seq(S)
    <3>1. more \in [1 .. Len(more) -> S]
      BY <2>2, <2>3, LenProperties
    <3> QED BY <2>3, <3>1
  <2>5. /\ all \in Seq(S) /\ Len(all) = n + Len(more)
        /\ \A j \in 1 .. n + Len(more) : all[j] = IF j <= n THEN found[j] ELSE more[j - n]
    BY <1>1, <2>4, ConcatProperties
  <2> HIDE DEF all
  <2>6. Explore(next, found, i) = all
    BY <1>3 DEF Explore, all, more, new
  <2>7. \A j \in 1 .. n : j \in 1 .. Len(all) /\ all[j] = found[j]
    BY <1>1, <2>3, <2>5
  <2>8. \A j \in 1 .. Len(more) : n + j \in 1 .. Len(all) /\ all[n + j] = more[j]
    <3> TAKE j \in 1 .. Len(more)
    <3>1. n + j \in 1 .. n + Len(more) /\ ~(n + j <= n) /\ (n + j) - n = j
      BY <1>1, <2>3
    <3> QED BY <2>5, <3>1
  <2>9. Len(all) >= 1 /\ all[1] = start
    BY <1>1, <2>3, <2>5, <2>7 DEF Searched
  <2>10. \A j \in 1 .. n : found[j] \notin new
    BY <1>1 DEF new, Range
  <2>11. ASSUME NEW j \in 1 .. Len(all), NEW k \in 1 .. Len(all), all[j] = all[k]
         PROVE  j = k
    <3>1. /\ j <= n => j \in 1 .. n /\ all[j] = found[j]
          /\ k <= n => k \in 1 .. n /\ all[k] = found[k]
          /\ ~(j <= n) => j - n \in 1 .. Len(more) /\ all[j] = more[j - n]
          /\ ~(k <= n) => k - n \in 1 .. Len(more) /\ all[k] = more[k - n]
      BY <1>1, <2>3, <2>5
    <3>2. CASE j <= n /\ k <= n
      BY <2>11, <3>1, <3>2 DEF Searched
    <3>3. CASE ~(j <= n) /\ ~(k <= n)
      <4>1. j - n = k - n
        BY <2>3, <2>11, <3>1, <3>3
      <4> QED BY <1>1, <4>1
    <3>4. CASE j <= n /\ ~(k <= n)
      BY <2>3, <2>10, <2>11, <3>1, <3>4
    <3>5. CASE ~(j <= n) /\ k <= n
      BY <2>3, <2>10, <2>11, <3>1, <3>5
    <3> QED BY <3>2, <3>3, <3>4, <3>5
  <2>12. ASSUME NEW j \in 1 .. Len(all), j <= i, NEW c \in next[all[j]]
         PROVE  \E k \in 1 .. Len(all) : all[k] = c
    <3>1. j \in 1 .. n /\ all[j] = found[j]
      BY <1>1, <2>1, <2>7, <2>12
    <3>2. CASE j <= i - 1
      <4>1. PICK k \in 1 .. n : found[k] = c
        BY <2>12, <3>1, <3>2 DEF Searched
      <4> QED BY <2>7, <4>1
    <3>3. CASE ~(j <= i - 1)
      <4>1. j = i
        BY <2>12, <3>3
      <4>2. c \in new \/ c \in Range(found)
        BY <2>12, <3>1, <4>1 DEF new
      <4>3. CASE c \in new
        <5>1. PICK k \in 1 .. Len(more) : more[k] = c
          BY <2>3, <4>3
        <5> QED BY <2>8, <5>1
      <4>4. CASE c \in Range(found)
        <5>1. PICK k \in 1 .. n : found[k] = c
          BY <1>1, <4>4 DEF Range
        <5> QED BY <2>7, <5>1
      <4> QED BY <4>2, <4>3, <4>4
    <3> QED BY <3>2, <3>3
  <2> QED BY <2>5, <2>6, <2>9, <2>11, <2>12 DEF Searched
<1> QED BY <1>2, <1>3

IsSearch(next, start, found) ==
    found = [i \in 0 .. Cardinality(DOMAIN next) |-> IF i = 0 THEN <<start>> ELSE Explore(next, found[i - 1], i)]

\* There is a search of as many steps as there are nodes.
LEMMA SearchExists ==
    ASSUME NEW S, IsFiniteSet(S), NEW next \in [S -> SUBSET S], NEW start \in S
    PROVE  \E found : IsSearch(next, start, found)
<1> DEFINE n == Cardinality(S)
           step == [p \in Seq(S) \X (1 .. n) |-> Explore(next, p[1], p[2])]
<1>1. n \in Nat /\ <<start>> \in Seq(S)
  BY FS_CardinalityType
<1>2. step \in [Seq(S) \X (1 .. n) -> Seq(S)]
  <2>1. ASSUME NEW p \in Seq(S) \X (1 .. n)
        PROVE  Explore(next, p[1], p[2]) \in Seq(S)
    <3>1. p[1] \in Seq(S) /\ p[2] \in Nat /\ p[2] >= 1
      OBVIOUS
    <3> QED BY <3>1, ExploreType
  <2> QED BY <2>1
<1> HIDE DEF n
<1>3. PICK found \in [0 .. n -> Seq(S)] :
          found[0] = <<start>> /\ \A i \in 1 .. n : found[i] = step[<<found[i - 1], i>>]
  <2> HIDE DEF step
  <2>1. \E found : AreSteps(n, Seq(S), <<start>>, step, found)
    BY ONLY <1>1, <1>2, StepsExist
  <2> QED BY <2>1 DEF AreSteps
<1>4. ASSUME NEW i \in 0 .. n
      PROVE  found[i] = IF i = 0 THEN <<start>> ELSE Explore(next, found[i - 1], i)
  <2>1. CASE i = 0
    BY <1>3, <2>1
  <2>2. CASE i # 0
    <3>1. i \in 1 .. n /\ i - 1 \in 0 .. n
      BY <1>1, <2>2
    <3>2. <<found[i - 1], i>> \in Seq(S) \X (1 .. n)
      BY <3>1
    <3> QED BY <1>3, <2>2, <3>1, <3>2
  <2> QED BY <2>1, <2>2
<1>5. found = [i \in 0 .. n |-> IF i = 0 THEN <<start>> ELSE Explore(next, found[i - 1], i)]
  BY <1>4
<1>6. DOMAIN next = S
  OBVIOUS
<1> QED BY <1>5, <1>6 DEF IsSearch, n

\* With a node all that can follow it is found.
IsClosed(next, order) ==
    \A j \in 1 .. Len(order) : \A c \in next[order[j]] : \E k \in 1 .. Len(order) : order[k] = c

\* A search finds each node that can be reached, and each once: there are no more
\* nodes than turns.
LEMMA FoundIsClosed ==
    ASSUME NEW S, IsFiniteSet(S), NEW next \in [S -> SUBSET S], NEW start \in S,
           NEW order, order = Found(next, start)
    PROVE  /\ order \in Seq(S) /\ Len(order) >= 1 /\ order[1] = start
           /\ IsClosed(next, order)
<1> DEFINE n == Cardinality(S)
           found == CHOOSE found : IsSearch(next, start, found)
<1>1. n \in Nat /\ DOMAIN next = S
  BY FS_CardinalityType
<1>2. IsSearch(next, start, found)
  BY SearchExists
<1>3. order = found[n]
  BY <1>1 DEF Found, IsSearch
<1> HIDE DEF n, found
<1>4. found = [i \in 0 .. n |-> IF i = 0 THEN <<start>> ELSE Explore(next, found[i - 1], i)]
  BY <1>1, <1>2 DEF IsSearch, n
<1>5. found[0] = <<start>> /\ \A i \in 1 .. n : found[i] = Explore(next, found[i - 1], i)
  <2>1. 0 \in 0 .. n /\ \A i \in 1 .. n : i \in 0 .. n /\ i # 0
    BY <1>1
  <2> QED BY ONLY <1>4, <2>1
<1> DEFINE T == {i \in 0 .. n : Searched(S, next, start, found[i], i)}
<1>6. 0 \in T
  <2>1. <<start>> \in Seq(S) /\ Len(<<start>>) = 1 /\ <<start>>[1] = start
    OBVIOUS
  <2>2. Searched(S, next, start, found[0], 0)
    BY <1>5, <2>1 DEF Searched
  <2> QED BY <1>1, <2>2
<1>7. ASSUME NEW i \in 0 .. n - 1, i \in T
      PROVE  i + 1 \in T
  <2>1. i + 1 \in 1 .. n /\ i + 1 \in 0 .. n /\ (i + 1) - 1 = i /\ i + 1 \in Nat /\ i + 1 >= 1
    BY <1>1
  <2>2. found[i + 1] = Explore(next, found[i], i + 1)
    BY ONLY <1>5, <2>1
  <2>3. Searched(S, next, start, found[i], (i + 1) - 1)
    BY <1>7, <2>1
  <2>4. Searched(S, next, start, found[i + 1], i + 1)
    BY <2>1, <2>2, <2>3, ExploreKeeps
  <2> QED BY <2>1, <2>4
<1>8. Searched(S, next, start, order, n)
  <2>1. T = 0 .. n
    <3>1. T \in SUBSET (0 .. n)
      OBVIOUS
    <3> HIDE DEF T
    <3> QED BY <1>1, <1>6, <1>7, <3>1, Counting
  <2> QED BY <1>1, <1>3, <2>1
<1>9. Len(order) <= n
  <2>1. Len(order) \in Nat /\ order \in [1 .. Len(order) -> S]
    BY <1>8, LenProperties DEF Searched
  <2>2. order \in Injection(1 .. Len(order), S)
    BY <1>8, <2>1 DEF Searched, Injection, IsInjective
  <2>3. Cardinality(1 .. Len(order)) <= n
    BY <2>2, FS_Injection DEF n
  <2>4. Cardinality(1 .. Len(order)) = Len(order)
    BY <2>1, FS_Interval
  <2> QED BY <2>3, <2>4
<1>10. \A j \in 1 .. Len(order) : j <= n
  <2>1. Len(order) \in Nat
    BY <1>8, LenProperties DEF Searched
  <2> QED BY <1>1, <1>9, <2>1
<1>11. IsClosed(next, order)
  BY <1>8, <1>10 DEF Searched, IsClosed
<1> QED BY <1>8, <1>11 DEF Searched
--------------------------------------------------------------------------------
(* Reading a word.                                                         *)

\* Where a run is: what it has written, and a state.
Reading(t, s) == s.out \in Words /\ s.at \in States(t)

\* One more letter leads to a state and writes a word.
LEMMA LetterType ==
    ASSUME NEW t, IsTotal(t), NEW s, Reading(t, s), NEW a \in Alphabet(t)
    PROVE  Reading(t, OneLetter(t, s, a))
<1>1. t.delta[<<s.at, a>>].out \in Words /\ t.delta[<<s.at, a>>].to \in States(t) /\ s.out \in Words
  BY TotalProperties DEF Reading
<1>2. s.out \o t.delta[<<s.at, a>>].out \in Words
  BY <1>1, ConcatWords
<1> QED BY <1>1, <1>2 DEF Reading, OneLetter

\* Every step of a run is at a state and has written a word.
LEMMA ReadTyped ==
    ASSUME NEW t, IsTotal(t), NEW q \in States(t), NEW word \in Seq(Alphabet(t)),
           NEW run, IsRun(t, q, word, run)
    PROVE  \A i \in 0 .. Len(word) : Reading(t, run[i])
<1> DEFINE n == Len(word)
           T == {i \in 0 .. n : Reading(t, run[i])}
<1>1. n \in Nat /\ \A i \in 1 .. n : word[i] \in Alphabet(t)
  BY LenProperties, ElementOfSeq
<1>2. /\ run[0] = [out |-> <<>>, at |-> q]
      /\ \A i \in 1 .. n : run[i] = OneLetter(t, run[i - 1], word[i])
  BY <1>1, RunIs
<1> HIDE DEF n
<1>3. 0 \in T
  <2>1. <<>> \in Words
    BY DEF Words
  <2> QED BY <1>1, <1>2, <2>1 DEF Reading
<1>4. ASSUME NEW i \in 0 .. n - 1, i \in T
      PROVE  i + 1 \in T
  <2>1. i + 1 \in 1 .. n /\ i + 1 \in 0 .. n /\ (i + 1) - 1 = i
    BY <1>1
  <2>2. run[i + 1] = OneLetter(t, run[i], word[i + 1]) /\ word[i + 1] \in Alphabet(t)
    BY ONLY <1>1, <1>2, <2>1
  <2>3. Reading(t, run[i])
    BY <1>4
  <2> QED BY <2>1, <2>2, <2>3, LetterType
<1>5. T = 0 .. n
  <2>1. T \in SUBSET (0 .. n)
    OBVIOUS
  <2> HIDE DEF T
  <2> QED BY <1>1, <1>3, <1>4, <2>1, Counting
<1> QED BY <1>5 DEF n

\* Reading a word leads to a state and writes a word.
LEMMA ReadType ==
    ASSUME NEW t, IsTotal(t), NEW q \in States(t), NEW word \in Seq(Alphabet(t))
    PROVE  Read(t, q, word).out \in Words /\ Read(t, q, word).at \in States(t)
<1>1. Len(word) \in Nat
  BY LenProperties
<1>2. PICK run : IsRun(t, q, word, run) /\ Read(t, q, word) = run[Len(word)]
  BY <1>1, ReadIsRun
<1>3. Reading(t, run[Len(word)])
  BY <1>1, <1>2, ReadTyped
<1> QED BY <1>2, <1>3 DEF Reading

\* The beginning of a run, and what a transition is.
Beginning(q) == [out |-> <<>>, at |-> q]
Transition(t, q, a) == t.delta[<<q, a>>]

\* A run begins with nothing written.
LEMMA BeginningIs ==
    ASSUME NEW q
    PROVE  Beginning(q).out = <<>> /\ Beginning(q).at = q
BY DEF Beginning

\* One more letter writes what its transition writes, and goes where that goes.
LEMMA OneLetterIs ==
    ASSUME NEW t, NEW s, NEW a
    PROVE  /\ OneLetter(t, s, a).out = s.out \o Transition(t, s.at, a).out
           /\ OneLetter(t, s, a).at = Transition(t, s.at, a).to
BY DEF OneLetter, Transition

\* A word of n letters is read letter by letter.
AreReadings(t, q, word, n, run) ==
    /\ run[0] = Beginning(q)
    /\ \A i \in 1 .. n : run[i] = OneLetter(t, run[i - 1], word[i])

\* Read() is made of such steps.
LEMMA ReadSteps ==
    ASSUME NEW t, NEW q, NEW word, NEW n \in Nat, Len(word) = n
    PROVE  \E run : IsRun(t, q, word, run) /\ Read(t, q, word) = run[n] /\ AreReadings(t, q, word, n, run)
<1>1. PICK run : IsRun(t, q, word, run) /\ Read(t, q, word) = run[n]
  BY ReadIsRun
<1>2. run = [i \in 0 .. n |-> IF i = 0 THEN [out |-> <<>>, at |-> q] ELSE OneLetter(t, run[i - 1], word[i])]
  BY <1>1 DEF IsRun
<1>3. 0 \in 0 .. n /\ \A i \in 1 .. n : i \in 0 .. n /\ i # 0
  OBVIOUS
<1>4. /\ run[0] = [out |-> <<>>, at |-> q]
      /\ \A i \in 1 .. n : run[i] = OneLetter(t, run[i - 1], word[i])
  BY ONLY <1>2, <1>3
<1>5. AreReadings(t, q, word, n, run)
  BY <1>4 DEF AreReadings, Beginning
<1> QED BY <1>1, <1>5

\* Without a letter nothing is written and no transition taken.
LEMMA ReadEmpty ==
    ASSUME NEW t, NEW q, NEW word, NEW n \in Nat, Len(word) = n, n = 0
    PROVE  Read(t, q, word).out = <<>> /\ Read(t, q, word).at = q
<1>1. PICK run : Read(t, q, word) = run[n] /\ AreReadings(t, q, word, n, run)
  BY ReadSteps
<1>2. run[n] = Beginning(q)
  BY <1>1 DEF AreReadings
<1> QED BY <1>1, <1>2, BeginningIs

\* The same of the empty word.
LEMMA ReadNothing ==
    ASSUME NEW t, NEW q
    PROVE  Read(t, q, <<>>).out = <<>> /\ Read(t, q, <<>>).at = q
<1>1. PICK n \in Nat : n = 0
  OBVIOUS
<1>2. Len(<<>>) = n
  BY <1>1
<1> QED BY ONLY <1>1, <1>2, ReadEmpty, n \in Nat

\* What is written when a word is read, and where it leads.
ReadOut(t, q, word) == Read(t, q, word).out
ReadAt(t, q, word) == Read(t, q, word).at

\* A word is read as its parts are, one after the other.
LEMMA ReadConcat ==
    ASSUME NEW t, IsTotal(t), NEW q \in States(t), NEW u \in Seq(Alphabet(t)), NEW v \in Seq(Alphabet(t))
    PROVE  /\ u \o v \in Seq(Alphabet(t))
           /\ ReadOut(t, q, u \o v) = ReadOut(t, q, u) \o ReadOut(t, ReadAt(t, q, u), v)
           /\ ReadAt(t, q, u \o v) = ReadAt(t, ReadAt(t, q, u), v)
<1>1. PICK mid, end : mid = Read(t, q, u) /\ end = Read(t, mid.at, v)
  OBVIOUS
<1> DEFINE m == Len(u)
           n == Len(v)
           w == u \o v
<1>2. /\ m \in Nat /\ n \in Nat /\ m + n \in Nat /\ w \in Seq(Alphabet(t)) /\ Len(w) = m + n
      /\ \A i \in 1 .. m + n : w[i] = IF i <= m THEN u[i] ELSE v[i - m]
  BY LenProperties, ConcatProperties
<1> HIDE DEF m, n, w
<1>3. PICK one : IsRun(t, q, u, one) /\ mid = one[m] /\ AreReadings(t, q, u, m, one)
  BY <1>1, <1>2, ReadSteps DEF m
<1>4. PICK two : IsRun(t, mid.at, v, two) /\ end = two[n] /\ AreReadings(t, mid.at, v, n, two)
  BY <1>1, <1>2, ReadSteps DEF n
<1>5. PICK whole : IsRun(t, q, w, whole) /\ Read(t, q, w) = whole[m + n] /\ AreReadings(t, q, w, m + n, whole)
  BY <1>2, ReadSteps
<1>6. /\ one[0] = Beginning(q) /\ two[0] = Beginning(mid.at) /\ whole[0] = Beginning(q)
      /\ \A i \in 1 .. m : one[i] = OneLetter(t, one[i - 1], u[i])
      /\ \A i \in 1 .. n : two[i] = OneLetter(t, two[i - 1], v[i])
      /\ \A i \in 1 .. m + n : whole[i] = OneLetter(t, whole[i - 1], w[i])
  BY <1>3, <1>4, <1>5 DEF AreReadings
<1>7. /\ \A i \in 0 .. n : Reading(t, two[i])
      /\ Reading(t, mid)
  <2>1. Reading(t, mid)
    BY <1>2, <1>3, ReadTyped DEF m
  <2>2. mid.at \in States(t)
    BY <2>1 DEF Reading
  <2> QED BY <1>4, <2>1, <2>2, ReadTyped DEF n
<1> DEFINE S == {i \in 0 .. m : whole[i] = one[i]}
<1>8. S = 0 .. m
  <2>1. 0 \in S
    BY <1>2, <1>6
  <2>2. ASSUME NEW i \in 0 .. m - 1, i \in S
        PROVE  i + 1 \in S
    <3>1. i + 1 \in 1 .. m /\ i + 1 \in 1 .. m + n /\ i + 1 \in 0 .. m /\ (i + 1) - 1 = i /\ i + 1 <= m
      BY <1>2
    <3>2. one[i + 1] = OneLetter(t, one[i], u[i + 1]) /\ whole[i + 1] = OneLetter(t, whole[i], w[i + 1])
      BY ONLY <1>6, <3>1
    <3>3. w[i + 1] = u[i + 1] /\ whole[i] = one[i]
      BY <1>2, <2>2, <3>1
    <3> QED BY <3>1, <3>2, <3>3
  <2>3. S \in SUBSET (0 .. m)
    OBVIOUS
  <2> HIDE DEF S
  <2> QED BY <1>2, <2>1, <2>2, <2>3, Counting
<1>9. whole[m] = mid
  <2>1. m \in S
    BY <1>2, <1>8
  <2> QED BY <1>3, <2>1
<1> DEFINE T == {i \in 0 .. n : whole[m + i].at = two[i].at /\ whole[m + i].out = mid.out \o two[i].out}
<1>10. T = 0 .. n
  <2>1. 0 \in T
    <3>1. mid.out \in Seq(Nat)
      BY <1>7 DEF Reading, Words
    <3>2. mid.out \o <<>> = mid.out
      BY <3>1, ConcatEmptySeq
    <3>3. two[0].out = <<>> /\ two[0].at = mid.at
      BY <1>6, BeginningIs
    <3>4. m + 0 = m /\ 0 \in 0 .. n
      BY <1>2
    <3>5. whole[m + 0].at = two[0].at /\ whole[m + 0].out = mid.out \o two[0].out
      BY ONLY <1>9, <3>2, <3>3, <3>4
    <3> QED BY <3>4, <3>5
  <2>2. ASSUME NEW i \in 0 .. n - 1, i \in T
        PROVE  i + 1 \in T
    <3>1. /\ i + 1 \in 1 .. n /\ m + (i + 1) \in 1 .. m + n /\ i + 1 \in 0 .. n /\ (i + 1) - 1 = i
          /\ (m + (i + 1)) - 1 = m + i /\ ~(m + (i + 1) <= m) /\ (m + (i + 1)) - m = i + 1 /\ i \in 0 .. n
      BY <1>2
    <3>2. two[i + 1] = OneLetter(t, two[i], v[i + 1]) /\ whole[m + (i + 1)] = OneLetter(t, whole[m + i], w[m + (i + 1)])
      BY ONLY <1>6, <3>1
    <3>3. w[m + (i + 1)] = v[i + 1] /\ v[i + 1] \in Alphabet(t)
      <4>1. v[i + 1] \in Alphabet(t)
        BY <3>1, ElementOfSeq DEF n
      <4> QED BY <1>2, <3>1, <4>1
    <3>4. whole[m + i].at = two[i].at /\ whole[m + i].out = mid.out \o two[i].out
      BY <2>2
    <3>5. PICK c : c = Transition(t, two[i].at, v[i + 1])
      OBVIOUS
    <3>9. mid.out \in Words /\ two[i].out \in Words /\ c.out \in Words
      <4>1. two[i].at \in States(t) /\ two[i].out \in Words /\ mid.out \in Words
        BY <1>7, <3>1 DEF Reading
      <4> QED BY <3>3, <3>5, <4>1, TotalProperties DEF Transition
    <3>6. PICK x, y, x1, y1, a : x = two[i] /\ y = whole[m + i] /\ x1 = two[i + 1] /\ y1 = whole[m + (i + 1)] /\ a = v[i + 1]
      OBVIOUS
    <3>12. x1 = OneLetter(t, x, a) /\ y1 = OneLetter(t, y, a)
      BY ONLY <3>2, <3>3, <3>6
    <3>14. c = Transition(t, x.at, a) /\ y.at = x.at /\ y.out = mid.out \o x.out
      BY ONLY <3>4, <3>5, <3>6
    <3>15. PICK b, d : b = Transition(t, x.at, a) /\ d = Transition(t, y.at, a)
      OBVIOUS
    <3>16. x1.at = b.to /\ x1.out = x.out \o b.out
      BY ONLY <3>12, <3>15, OneLetterIs
    <3>17. y1.at = d.to /\ y1.out = y.out \o d.out
      BY ONLY <3>12, <3>15, OneLetterIs
    <3>18. b = c /\ d = c
      BY ONLY <3>14, <3>15
    <3>13. x1.at = c.to /\ x1.out = x.out \o c.out /\ y1.at = c.to /\ y1.out = (mid.out \o x.out) \o c.out
      BY ONLY <3>14, <3>16, <3>17, <3>18
    <3>10. two[i + 1].at = c.to /\ two[i + 1].out = two[i].out \o c.out
      BY ONLY <3>6, <3>13
    <3>11. whole[m + (i + 1)].at = c.to /\ whole[m + (i + 1)].out = (mid.out \o two[i].out) \o c.out
      BY ONLY <3>6, <3>13
    <3>7. (mid.out \o two[i].out) \o c.out = mid.out \o (two[i].out \o c.out)
      BY ONLY <3>9, ConcatRegroups
    <3>8. whole[m + (i + 1)].at = two[i + 1].at /\ whole[m + (i + 1)].out = mid.out \o two[i + 1].out
      BY ONLY <3>7, <3>10, <3>11
    <3> QED BY <3>1, <3>8
  <2>3. T \in SUBSET (0 .. n)
    OBVIOUS
  <2> HIDE DEF T
  <2> QED BY <1>2, <2>1, <2>2, <2>3, Counting
<1>11. n \in T
  <2> HIDE DEF T
  <2> QED BY <1>2, <1>10
<1>12. whole[m + n].at = two[n].at /\ whole[m + n].out = mid.out \o two[n].out
  BY <1>11
<1>13. Read(t, q, w).out = mid.out \o end.out /\ Read(t, q, w).at = end.at
  BY <1>4, <1>5, <1>12
<1> QED BY <1>1, <1>1, <1>2, <1>13 DEF w, ReadOut, ReadAt
--------------------------------------------------------------------------------
(* What is written over an alphabet.                                       *)

\* Two words over an alphabet, one after the other.
LEMMA ConcatOver ==
    ASSUME NEW A, NEW u \in Seq(A), NEW v \in Seq(A)
    PROVE  u \o v \in Seq(A)
BY ConcatProperties

\* A part of a word over an alphabet.
LEMMA PartOver ==
    ASSUME NEW A, NEW w \in Seq(A), NEW i \in Nat, NEW j \in Nat, i >= 1, j <= Len(w)
    PROVE  SubSeq(w, i, j) \in Seq(A)
OBVIOUS

\* A prefix is over the letters of the word.
LEMMA PrefixOver ==
    ASSUME NEW A, NEW w \in Seq(A), NEW u \in Words, w \in Words, IsPrefix(u, w)
    PROVE  u \in Seq(A)
<1>1. Len(u) \in Nat /\ Len(u) <= Len(w) /\ \A i \in 1 .. Len(u) : u[i] = w[i]
  BY PrefixLength, PrefixIs
<1>2. \A i \in 1 .. Len(u) : u[i] \in A
  <2> TAKE i \in 1 .. Len(u)
  <2>1. Len(w) \in Nat /\ i \in 1 .. Len(w)
    BY <1>1, LenProperties
  <2>2. w[i] \in A
    BY <2>1, ElementOfSeq
  <2> QED BY <1>1, <2>2
<1>3. u = [i \in 1 .. Len(u) |-> u[i]]
  BY DEF Words
<1>4. PICK n \in Nat : n = Len(u)
  BY <1>1
<1>5. u \in [1 .. n -> A]
  BY <1>2, <1>3, <1>4
<1> QED BY <1>4, <1>5

\* What is left of a word over an alphabet.
LEMMA InvMulOver ==
    ASSUME NEW A, NEW w \in Seq(A), NEW u \in Words, w \in Words, IsPrefix(u, w)
    PROVE  InvMul(u, w) \in Seq(A)
<1>1. Len(u) \in Nat /\ Len(w) \in Nat
  BY PrefixLength
<1> QED BY <1>1, PartOver DEF InvMul
\* What a transition of the result is, and what it ends with.
LEMMA PushedParts ==
    ASSUME NEW t, IsTotal(t), NEW sigma, Estimates(t, sigma, States(t)),
           NEW q \in States(t), NEW a \in Alphabet(t), NEW out, NEW to,
           out = t.delta[<<q, a>>].out, to = t.delta[<<q, a>>].to
    PROVE  /\ sigma[q] \in Words /\ sigma[to] \in Words /\ out \in Words /\ to \in States(t)
           /\ out \o sigma[to] \in Words
           /\ IsPrefix(sigma[q], out \o sigma[to])
<1>1. sigma[q] \in Words /\ sigma[to] \in Words /\ out \in Words /\ to \in States(t)
  BY TotalProperties DEF Estimates
<1>2. IsPrefix(sigma[q], out \o sigma[to])
  BY DEF Estimates
<1> QED BY <1>1, <1>2, ConcatWords

\* What a state writes at the end after pushing.
LEMMA PushedEnds ==
    ASSUME NEW t, IsTotal(t), NEW sigma, Estimates(t, sigma, States(t)), NEW q \in States(t)
    PROVE  sigma[q] \in Words /\ t.psi[q] \in Words /\ IsPrefix(sigma[q], t.psi[q])
<1>1. sigma \in [States(t) -> Words] /\ t.psi \in [States(t) -> Words]
  BY DEF Estimates, IsTotal, Words
<1>2. IsPrefix(sigma[q], t.psi[q])
  BY <1>1, OutgoingProperties DEF Estimates
<1> QED BY <1>1, <1>2

\* The result is total again.
LEMMA PushedIsTotal ==
    ASSUME NEW t, IsTotal(t), NEW sigma, Estimates(t, sigma, States(t)), NEW r, r = Pushed(t, sigma)
    PROVE  IsTotal(r)
<1>1. /\ r.n = t.n
      /\ r.psi = [q \in States(t) |-> InvMul(sigma[q], t.psi[q])]
      /\ r.delta = [d \in DOMAIN t.delta |->
                       [t.delta[d] EXCEPT !.out = InvMul(sigma[d[1]], @ \o sigma[t.delta[d].to])]]
  BY DEF Pushed, Total
<1>2. States(r) = States(t) /\ Alphabet(r) = Alphabet(t) /\ r.initialOut = t.initialOut \o sigma[0]
  BY PushedProperties
<1>3. r.initialOut \in Seq(Nat)
  <2>1. 0 \in States(t) /\ t.initialOut \in Words
    BY TotalProperties
  <2>2. sigma[0] \in Words
    BY <2>1, PushedEnds
  <2> QED BY <1>2, <2>1, <2>2, ConcatWords DEF Words
<1>4. r.psi \in [States(t) -> Seq(Nat)]
  <2>1. ASSUME NEW q \in States(t)
        PROVE  InvMul(sigma[q], t.psi[q]) \in Seq(Nat)
    BY PushedEnds, InvMulIs DEF Words
  <2> QED BY <1>1, <2>1
<1>5. DOMAIN t.delta = States(t) \X Alphabet(t)
  BY DEF IsTotal
<1>6. ASSUME NEW d \in States(t) \X Alphabet(t)
      PROVE  [t.delta[d] EXCEPT !.out = InvMul(sigma[d[1]], @ \o sigma[t.delta[d].to])]
                \in [out : Seq(Nat), to : States(t)]
  <2>1. PICK q \in States(t), a \in Alphabet(t) : d = <<q, a>>
    OBVIOUS
  <2>2. PICK c : c = t.delta[d]
    OBVIOUS
  <2>3. c \in [out : Seq(Nat), to : States(t)]
    BY <2>2 DEF IsTotal
  <2>4. /\ sigma[q] \in Words /\ c.out \o sigma[c.to] \in Words
        /\ IsPrefix(sigma[q], c.out \o sigma[c.to])
    BY <2>1, <2>2, PushedParts
  <2>5. InvMul(sigma[q], c.out \o sigma[c.to]) \in Seq(Nat)
    BY <2>4, InvMulIs DEF Words
  <2>6. [c EXCEPT !.out = InvMul(sigma[q], @ \o sigma[c.to])] \in [out : Seq(Nat), to : States(t)]
    BY ONLY <2>3, <2>5
  <2>7. d[1] = q
    BY <2>1
  <2> QED BY ONLY <2>2, <2>6, <2>7
<1>7. r.delta \in [States(t) \X Alphabet(t) -> [out : Seq(Nat), to : States(t)]]
  BY <1>1, <1>5, <1>6
<1>8. r.n \in Nat \ {0}
  BY <1>1 DEF IsTotal
<1> QED BY <1>2, <1>3, <1>4, <1>7, <1>8 DEF IsTotal

\* It writes over the letters the given one did.
LEMMA PushedWritesOver ==
    ASSUME NEW t, IsTotal(t), NEW sigma, Estimates(t, sigma, States(t)), NEW r, r = Pushed(t, sigma),
           NEW A, WritesOver(t, A)
    PROVE  WritesOver(r, A)
<1>1. DOMAIN t.delta = States(t) \X Alphabet(t) /\ DOMAIN t.psi = States(t)
  BY DEF IsTotal
<1>2. IsTotal(r) /\ States(r) = States(t) /\ Alphabet(r) = Alphabet(t) /\ r.initialOut = t.initialOut \o sigma[0]
  BY PushedProperties, PushedIsTotal
<1>3. DOMAIN r.delta = States(t) \X Alphabet(t) /\ DOMAIN r.psi = States(t)
  BY <1>2 DEF IsTotal
<1>4. \A q \in States(t) : t.psi[q] \in Seq(A)
  BY <1>1 DEF WritesOver
<1>5. \A q \in States(t) : sigma[q] \in Seq(A)
  BY <1>4, PushedEnds, PrefixOver
<1>6. ASSUME NEW q \in States(t)
      PROVE  r.psi[q] \in Seq(A)
  <2>1. r.psi[q] = InvMul(sigma[q], t.psi[q])
    BY PushedProperties
  <2> QED BY <1>4, <2>1, PushedEnds, InvMulOver
<1>7. ASSUME NEW d \in States(t) \X Alphabet(t)
      PROVE  r.delta[d].out \in Seq(A)
  <2>1. PICK q \in States(t), a \in Alphabet(t) : d = <<q, a>>
    OBVIOUS
  <2>2. PICK c : c = t.delta[<<q, a>>]
    OBVIOUS
  <2>3. r.delta[<<q, a>>].out = InvMul(sigma[q], c.out \o sigma[c.to])
    BY <2>2, PushedTransition
  <2>4. /\ sigma[q] \in Words /\ c.to \in States(t) /\ c.out \o sigma[c.to] \in Words
        /\ IsPrefix(sigma[q], c.out \o sigma[c.to])
    BY <2>2, PushedParts
  <2>5. c.out \in Seq(A)
    BY <1>1, <2>2 DEF WritesOver
  <2>6. c.out \o sigma[c.to] \in Seq(A)
    BY <1>5, <2>4, <2>5, ConcatOver
  <2>7. InvMul(sigma[q], c.out \o sigma[c.to]) \in Seq(A)
    BY ONLY <2>4, <2>6, InvMulOver
  <2> QED BY <2>1, <2>3, <2>7
<1>8. r.initialOut \in Seq(A)
  <2>1. 0 \in States(t) /\ t.initialOut \in Seq(A)
    BY TotalProperties DEF WritesOver
  <2> QED BY <1>2, <1>5, <2>1, ConcatOver
<1> QED BY <1>3, <1>6, <1>7, <1>8 DEF WritesOver
--------------------------------------------------------------------------------
(* The composition of two transducers.                                     *)

\* The parts of a transducer, and what reading a word comes to.
OutOf(t, q, a) == t.delta[<<q, a>>].out
ToOf(t, q, a) == t.delta[<<q, a>>].to
PsiOf(t, q) == t.psi[q]
InitialOf(t) == t.initialOut

\* The types of the parts.
LEMMA PartsType ==
    ASSUME NEW t, IsTotal(t)
    PROVE  /\ 0 \in States(t) /\ InitialOf(t) \in Words
           /\ \A q \in States(t) : PsiOf(t, q) \in Words
           /\ \A q \in States(t), a \in Alphabet(t) : OutOf(t, q, a) \in Words /\ ToOf(t, q, a) \in States(t)
BY TotalProperties DEF OutOf, ToOf, PsiOf, InitialOf

\* The types of what reading comes to.
LEMMA ReadPartsType ==
    ASSUME NEW t, IsTotal(t), NEW q \in States(t), NEW word \in Seq(Alphabet(t))
    PROVE  ReadOut(t, q, word) \in Words /\ ReadAt(t, q, word) \in States(t)
BY ReadType DEF ReadOut, ReadAt

\* What a transducer computes, by its parts.
LEMMA ComputedIs ==
    ASSUME NEW t, NEW word
    PROVE  F(t, word) = (InitialOf(t) \o ReadOut(t, 0, word)) \o PsiOf(t, ReadAt(t, 0, word))
BY DEF F, InitialOf, ReadOut, ReadAt, PsiOf

\* Two transducers that can be composed.
Composable(t, u) ==
    /\ IsTotal(t) /\ IsTotal(u)
    /\ \A q \in States(t), a \in Alphabet(t) : OutOf(t, q, a) \in Seq(Alphabet(u))
    /\ \A q \in States(t) : PsiOf(t, q) \in Seq(Alphabet(u))
    /\ InitialOf(t) \in Seq(Alphabet(u))

\* If the second has a transition for all that the first writes, they can be composed.
LEMMA ComposableIs ==
    ASSUME NEW t, NEW u, IsTotal(t), IsTotal(u), WritesOver(t, Alphabet(u))
    PROVE  Composable(t, u)
<1>1. DOMAIN t.delta = States(t) \X Alphabet(t) /\ DOMAIN t.psi = States(t)
  BY DEF IsTotal
<1> QED BY <1>1 DEF Composable, WritesOver, OutOf, PsiOf, InitialOf

\* The pairs of states in the order in which they are found, and the number of one.
Number(order, c) == (CHOOSE i \in DOMAIN order : order[i] = c) - 1
After(t, u, c, a) == <<ToOf(t, c[1], a), ReadAt(u, c[2], OutOf(t, c[1], a))>>
Start(t, u) == <<0, ReadAt(u, 0, InitialOf(t))>>
PairOrder(t, u) ==
    Found([c \in States(t) \X States(u) |-> {After(t, u, c, a) : a \in Alphabet(t)}], Start(t, u))

\* What a pair of states writes with a letter and at the end.
PairOut(t, u, c, a) == InitialOf(u) \o ReadOut(u, c[2], OutOf(t, c[1], a))
PairPsi(t, u, c) ==
    (InitialOf(u) \o ReadOut(u, c[2], PsiOf(t, c[1]))) \o PsiOf(u, ReadAt(u, c[2], PsiOf(t, c[1])))

IsComposition(t, u, r, order) ==
    /\ r.n = Len(order)
    /\ r.initialOut = InitialOf(u) \o ReadOut(u, 0, InitialOf(t))
    /\ r.delta = [k \in (0 .. Len(order) - 1) \X Alphabet(t) |->
                     [out |-> PairOut(t, u, order[k[1] + 1], k[2]),
                      to |-> Number(order, After(t, u, order[k[1] + 1], k[2]))]]
    /\ r.psi = [i \in 0 .. Len(order) - 1 |-> PairPsi(t, u, order[i + 1])]

\* composeFST() makes the pairs its states, in the order of the search.
LEMMA ComposedIs ==
    ASSUME NEW t, NEW u
    PROVE  IsComposition(t, u, ComposeFST(t, u), PairOrder(t, u))
<1> DEFINE r == ComposeFST(t, u)
           order == PairOrder(t, u)
<1>1. \A q, mid : /\ DriveSecond(u, q, mid).out = InitialOf(u) \o ReadOut(u, q, mid)
                  /\ DriveSecond(u, q, mid).at = ReadAt(u, q, mid)
  BY DEF DriveSecond, InitialOf, ReadOut, ReadAt
<1>2. \A c, a : PairAfter(t, u, c, a) = After(t, u, c, a)
  BY DEF DriveSecond, DrivePair, PairAfter, After, OutOf, ToOf, ReadAt
<1>3. \A c, a : DrivePair(t, u, c, a).out = PairOut(t, u, c, a)
  BY DEF DriveSecond, DrivePair, PairOut, OutOf, InitialOf, ReadOut
<1>4. order = Found([c \in States(t) \X States(u) |-> {PairAfter(t, u, c, a) : a \in Alphabet(t)}],
                    <<0, DriveSecond(u, 0, t.initialOut).at>>)
  <2>1. <<0, DriveSecond(u, 0, t.initialOut).at>> = Start(t, u)
    BY DEF DriveSecond, Start, InitialOf, ReadAt
  <2>2. [c \in States(t) \X States(u) |-> {PairAfter(t, u, c, a) : a \in Alphabet(t)}]
           = [c \in States(t) \X States(u) |-> {After(t, u, c, a) : a \in Alphabet(t)}]
    BY <1>2
  <2> QED BY ONLY <2>1, <2>2 DEF order, PairOrder
<1>5. /\ r.n = Len(order)
      /\ r.initialOut = DriveSecond(u, 0, t.initialOut).out
      /\ r.delta = [k \in (0 .. Len(order) - 1) \X Alphabet(t) |->
                       [out |-> DrivePair(t, u, order[k[1] + 1], k[2]).out,
                        to |-> Number(order, PairAfter(t, u, order[k[1] + 1], k[2]))]]
      /\ r.psi = [i \in 0 .. Len(order) - 1 |->
                       DriveSecond(u, order[i + 1][2], t.psi[order[i + 1][1]]).out
                          \o u.psi[DriveSecond(u, order[i + 1][2], t.psi[order[i + 1][1]]).at]]
  <2>1. PICK found : found = order
    OBVIOUS
  <2>2. r = Total(Len(found),
              [k \in (0 .. Len(found) - 1) \X Alphabet(t) |->
                  [out |-> DrivePair(t, u, found[k[1] + 1], k[2]).out,
                   to |-> Number(found, PairAfter(t, u, found[k[1] + 1], k[2]))]],
              [i \in 0 .. Len(found) - 1 |->
                  DriveSecond(u, found[i + 1][2], t.psi[found[i + 1][1]]).out
                          \o u.psi[DriveSecond(u, found[i + 1][2], t.psi[found[i + 1][1]]).at]],
              DriveSecond(u, 0, t.initialOut).out)
    BY ONLY <1>4, <2>1 DEF ComposeFST, r, Number
  <2> HIDE DEF r, order
  <2> QED BY ONLY <2>1, <2>2 DEF Total
<1> HIDE DEF r, order
<1>6. r.initialOut = InitialOf(u) \o ReadOut(u, 0, InitialOf(t))
  BY <1>5 DEF DriveSecond, InitialOf, ReadOut
<1>7. r.delta = [k \in (0 .. Len(order) - 1) \X Alphabet(t) |->
                     [out |-> PairOut(t, u, order[k[1] + 1], k[2]),
                      to |-> Number(order, After(t, u, order[k[1] + 1], k[2]))]]
  <2>1. \A k : DrivePair(t, u, order[k[1] + 1], k[2]).out = PairOut(t, u, order[k[1] + 1], k[2])
    BY <1>3
  <2>2. \A k : PairAfter(t, u, order[k[1] + 1], k[2]) = After(t, u, order[k[1] + 1], k[2])
    BY <1>2
  <2> QED BY ONLY <1>5, <2>1, <2>2
<1>8. r.psi = [i \in 0 .. Len(order) - 1 |-> PairPsi(t, u, order[i + 1])]
  <2>1. \A c : DriveSecond(u, c[2], t.psi[c[1]]).out \o u.psi[DriveSecond(u, c[2], t.psi[c[1]]).at]
                 = PairPsi(t, u, c)
    BY DEF DriveSecond, PairPsi, PsiOf, InitialOf, ReadOut, ReadAt
  <2> QED BY ONLY <1>5, <2>1
<1> QED BY <1>5, <1>6, <1>7, <1>8 DEF r, order, IsComposition

\* All pairs that can be met are found.
IsOrder(t, u, order) ==
    /\ order \in Seq(States(t) \X States(u)) /\ Len(order) \in Nat /\ Len(order) >= 1
    /\ order[1] = Start(t, u)
    /\ \A i \in 1 .. Len(order), a \in Alphabet(t) :
          \E k \in 1 .. Len(order) : order[k] = After(t, u, order[i], a)

\* The search starts with the initial pair and finds all that follow.
LEMMA OrderIs ==
    ASSUME NEW t, NEW u, Composable(t, u), NEW order, order = PairOrder(t, u)
    PROVE  IsOrder(t, u, order)
<1> DEFINE S == States(t) \X States(u)
           start == Start(t, u)
           next == [c \in S |-> {After(t, u, c, a) : a \in Alphabet(t)}]
<1>1. IsTotal(t) /\ IsTotal(u)
  BY DEF Composable
<1>2. IsFiniteSet(S)
  <2>1. IsFiniteSet(States(t)) /\ IsFiniteSet(States(u))
    <3>1. t.n - 1 \in Int /\ u.n - 1 \in Int
      BY <1>1 DEF IsTotal
    <3> QED BY <3>1, FS_Interval DEF States
  <2> QED BY <2>1, FS_Product
<1>3. start \in S
  <2>1. 0 \in States(t) /\ 0 \in States(u) /\ InitialOf(t) \in Seq(Alphabet(u))
    BY <1>1, PartsType DEF Composable
  <2>2. ReadAt(u, 0, InitialOf(t)) \in States(u)
    BY <1>1, <2>1, ReadPartsType
  <2> QED BY <2>1, <2>2 DEF Start
<1>4. ASSUME NEW c \in S, NEW a \in Alphabet(t)
      PROVE  After(t, u, c, a) \in S
  <2>1. c[1] \in States(t) /\ c[2] \in States(u)
    OBVIOUS
  <2>2. ToOf(t, c[1], a) \in States(t) /\ OutOf(t, c[1], a) \in Seq(Alphabet(u))
    BY <1>1, <2>1, PartsType DEF Composable
  <2>3. ReadAt(u, c[2], OutOf(t, c[1], a)) \in States(u)
    BY <1>1, <2>1, <2>2, ReadPartsType
  <2> QED BY <2>2, <2>3 DEF After
<1>5. next \in [S -> SUBSET S]
  BY <1>4
<1>6. order = Found(next, start)
  BY DEF PairOrder
<1>7. \A c \in S, a \in Alphabet(t) : After(t, u, c, a) \in next[c]
  OBVIOUS
<1> HIDE DEF S, start, next
<1>8. order \in Seq(S) /\ Len(order) >= 1 /\ order[1] = start /\ IsClosed(next, order)
  BY ONLY <1>2, <1>3, <1>5, <1>6, FoundIsClosed
<1>9. Len(order) \in Nat
  BY <1>8, LenProperties
<1>10. ASSUME NEW i \in 1 .. Len(order), NEW a \in Alphabet(t)
       PROVE  \E k \in 1 .. Len(order) : order[k] = After(t, u, order[i], a)
  <2>1. order[i] \in S
    BY <1>8, ElementOfSeq
  <2>2. After(t, u, order[i], a) \in next[order[i]]
    BY <1>7, <2>1
  <2> QED BY <1>8, <2>2 DEF IsClosed
<1> QED BY <1>8, <1>9, <1>10 DEF S, start, IsOrder

\* The number of a pair is its place in the order.
LEMMA NumberIs ==
    ASSUME NEW S, NEW order \in Seq(S), NEW k \in 1 .. Len(order), NEW c, order[k] = c
    PROVE  Number(order, c) \in 0 .. Len(order) - 1 /\ order[Number(order, c) + 1] = c
<1> DEFINE i == CHOOSE i \in DOMAIN order : order[i] = c
<1>1. Len(order) \in Nat /\ DOMAIN order = 1 .. Len(order)
  BY LenProperties
<1>2. i \in 1 .. Len(order) /\ order[i] = c
  BY <1>1
<1>3. Number(order, c) = i - 1
  BY DEF Number
<1> HIDE DEF i
<1>4. Number(order, c) \in 0 .. Len(order) - 1 /\ Number(order, c) + 1 = i
  BY <1>1, <1>2, <1>3
<1> QED BY <1>2, <1>4

\* A state of the composition is a pair of states: what it writes and where it goes.
LEMMA ComposedTransition ==
    ASSUME NEW t, NEW u, NEW r, NEW order, IsComposition(t, u, r, order),
           NEW i \in 0 .. Len(order) - 1, NEW a \in Alphabet(t)
    PROVE  r.delta[<<i, a>>] = [out |-> OutOf(r, i, a), to |-> ToOf(r, i, a)]
<1>1. r.delta = [k \in (0 .. Len(order) - 1) \X Alphabet(t) |->
                     [out |-> PairOut(t, u, order[k[1] + 1], k[2]),
                      to |-> Number(order, After(t, u, order[k[1] + 1], k[2]))]]
  BY DEF IsComposition
<1>2. <<i, a>> \in (0 .. Len(order) - 1) \X Alphabet(t)
  OBVIOUS
<1>3. r.delta[<<i, a>>] = [out |-> PairOut(t, u, order[<<i, a>>[1] + 1], <<i, a>>[2]),
                           to |-> Number(order, After(t, u, order[<<i, a>>[1] + 1], <<i, a>>[2]))]
  BY ONLY <1>1, <1>2
<1> QED BY ONLY <1>3 DEF OutOf, ToOf

\* A transition of the composition is one of the first, and what the second does with its output.
LEMMA ComposedStep ==
    ASSUME NEW t, NEW u, NEW r, NEW order, IsOrder(t, u, order), IsComposition(t, u, r, order),
           NEW i \in 0 .. Len(order) - 1, NEW c, c = order[i + 1], NEW a \in Alphabet(t)
    PROVE  /\ OutOf(r, i, a) = PairOut(t, u, c, a)
           /\ ToOf(r, i, a) \in 0 .. Len(order) - 1
           /\ order[ToOf(r, i, a) + 1] = After(t, u, c, a)
<1>1. /\ order \in Seq(States(t) \X States(u)) /\ Len(order) \in Nat
      /\ \A j \in 1 .. Len(order), b \in Alphabet(t) :
            \E k \in 1 .. Len(order) : order[k] = After(t, u, order[j], b)
  BY DEF IsOrder
<1>2. i + 1 \in 1 .. Len(order)
  BY <1>1
<1>3. r.delta = [k \in (0 .. Len(order) - 1) \X Alphabet(t) |->
                     [out |-> PairOut(t, u, order[k[1] + 1], k[2]),
                      to |-> Number(order, After(t, u, order[k[1] + 1], k[2]))]]
  BY DEF IsComposition
<1>4. <<i, a>> \in (0 .. Len(order) - 1) \X Alphabet(t) /\ <<i, a>>[1] = i /\ <<i, a>>[2] = a
  OBVIOUS
<1>5. r.delta[<<i, a>>] = [out |-> PairOut(t, u, order[<<i, a>>[1] + 1], <<i, a>>[2]),
                           to |-> Number(order, After(t, u, order[<<i, a>>[1] + 1], <<i, a>>[2]))]
  BY ONLY <1>3, <1>4
<1>6. r.delta[<<i, a>>] = [out |-> PairOut(t, u, c, a), to |-> Number(order, After(t, u, c, a))]
  BY ONLY <1>4, <1>5, c = order[i + 1]
<1>7. OutOf(r, i, a) = PairOut(t, u, c, a) /\ ToOf(r, i, a) = Number(order, After(t, u, c, a))
  BY ONLY <1>6 DEF OutOf, ToOf
<1>8. PICK after : after = After(t, u, c, a)
  OBVIOUS
<1>9. PICK k \in 1 .. Len(order) : order[k] = after
  BY <1>1, <1>2, <1>8
<1>10. Number(order, after) \in 0 .. Len(order) - 1 /\ order[Number(order, after) + 1] = after
  BY <1>1, <1>9, NumberIs
<1> QED BY ONLY <1>7, <1>8, <1>10

\* A state of the composition is a pair, and writes at the end what the pair does.
LEMMA ComposedParts ==
    ASSUME NEW t, NEW u, NEW r, NEW order, IsOrder(t, u, order), IsComposition(t, u, r, order),
           NEW i \in 0 .. Len(order) - 1, NEW c, c = order[i + 1]
    PROVE  c \in States(t) \X States(u) /\ PsiOf(r, i) = PairPsi(t, u, c)
<1>1. order \in Seq(States(t) \X States(u)) /\ Len(order) \in Nat
  BY DEF IsOrder
<1>2. i + 1 \in 1 .. Len(order)
  BY <1>1
<1>3. c \in States(t) \X States(u)
  BY <1>1, <1>2, ElementOfSeq
<1>4. PsiOf(r, i) = PairPsi(t, u, c)
  BY DEF IsComposition, PsiOf
<1> QED BY <1>3, <1>4
--------------------------------------------------------------------------------
(* The composition reads a word as its parts do, one after the other.      *)

\* The letters of a table.
LEMMA LettersOfTable ==
    ASSUME NEW x, NEW n \in Nat \ {0}, NEW A, DOMAIN x.delta = (0 .. n - 1) \X A
    PROVE  Alphabet(x) = A
<1>1. 0 \in 0 .. n - 1
  OBVIOUS
<1>2. \A a \in A : <<0, a>> \in DOMAIN x.delta /\ <<0, a>>[2] = a
  BY <1>1
<1>3. \A k \in DOMAIN x.delta : k[2] \in A
  OBVIOUS
<1>4. \A a : a \in {k[2] : k \in DOMAIN x.delta} <=> a \in A
  BY ONLY <1>2, <1>3
<1> QED BY ONLY <1>4 DEF Alphabet

\* What is written with a pair of states is over the natural numbers.
LEMMA PairType ==
    ASSUME NEW t, NEW u, Composable(t, u), NEW c \in States(t) \X States(u)
    PROVE  /\ PairPsi(t, u, c) \in Words
           /\ \A a \in Alphabet(t) : PairOut(t, u, c, a) \in Words
<1>1. IsTotal(t) /\ IsTotal(u) /\ c[1] \in States(t) /\ c[2] \in States(u) /\ InitialOf(u) \in Words
  BY PartsType DEF Composable
<1>2. PairPsi(t, u, c) \in Words
  <2>1. PICK psi, q : psi = PsiOf(t, c[1]) /\ q = c[2]
    OBVIOUS
  <2>2. psi \in Seq(Alphabet(u)) /\ q \in States(u)
    BY <1>1, <2>1 DEF Composable
  <2>3. ReadOut(u, q, psi) \in Words /\ ReadAt(u, q, psi) \in States(u)
    BY <1>1, <2>2, ReadPartsType
  <2>4. PsiOf(u, ReadAt(u, q, psi)) \in Words
    BY <1>1, <2>3, PartsType
  <2>5. (InitialOf(u) \o ReadOut(u, q, psi)) \o PsiOf(u, ReadAt(u, q, psi)) \in Words
    BY <1>1, <2>3, <2>4, ConcatWords
  <2> QED BY <2>1, <2>5 DEF PairPsi
<1>3. ASSUME NEW a \in Alphabet(t)
      PROVE  PairOut(t, u, c, a) \in Words
  <2>1. PICK out, q : out = OutOf(t, c[1], a) /\ q = c[2]
    OBVIOUS
  <2>2. out \in Seq(Alphabet(u)) /\ q \in States(u)
    BY <1>1, <2>1 DEF Composable
  <2>3. ReadOut(u, q, out) \in Words
    BY <1>1, <2>2, ReadPartsType
  <2>4. InitialOf(u) \o ReadOut(u, q, out) \in Words
    BY <1>1, <2>3, ConcatWords
  <2> QED BY <2>1, <2>4 DEF PairOut
<1> QED BY <1>2, <1>3

\* The composition is total again, over the letters of the first.
LEMMA ComposedIsTotal ==
    ASSUME NEW t, NEW u, Composable(t, u), NEW r, NEW order, IsOrder(t, u, order), IsComposition(t, u, r, order)
    PROVE  IsTotal(r) /\ Alphabet(r) = Alphabet(t) /\ States(r) = 0 .. Len(order) - 1
<1>1. Len(order) \in Nat /\ Len(order) >= 1
  BY DEF IsOrder
<1>2. States(r) = 0 .. Len(order) - 1 /\ r.n \in Nat \ {0}
  BY <1>1 DEF IsComposition, States
<1>3. DOMAIN r.delta = (0 .. Len(order) - 1) \X Alphabet(t)
  BY DEF IsComposition
<1>4. Alphabet(r) = Alphabet(t)
  <2>1. PICK n, A : n = Len(order) /\ A = Alphabet(t)
    OBVIOUS
  <2>2. n \in Nat \ {0} /\ DOMAIN r.delta = (0 .. n - 1) \X A
    BY <1>1, <1>3, <2>1
  <2> QED BY <2>1, <2>2, LettersOfTable
<1>5. ASSUME NEW i \in 0 .. Len(order) - 1, NEW a \in Alphabet(t)
      PROVE  r.delta[<<i, a>>] \in [out : Seq(Nat), to : States(r)]
  <2>1. PICK c : c = order[i + 1]
    OBVIOUS
  <2>2. /\ c \in States(t) \X States(u)
        /\ r.delta[<<i, a>>] = [out |-> OutOf(r, i, a), to |-> ToOf(r, i, a)]
        /\ OutOf(r, i, a) = PairOut(t, u, c, a) /\ ToOf(r, i, a) \in 0 .. Len(order) - 1
    <3>1. c \in States(t) \X States(u)
      BY <2>1, ComposedParts
    <3>2. OutOf(r, i, a) = PairOut(t, u, c, a) /\ ToOf(r, i, a) \in 0 .. Len(order) - 1
      BY <2>1, ComposedStep
    <3>3. r.delta[<<i, a>>] = [out |-> OutOf(r, i, a), to |-> ToOf(r, i, a)]
      BY ComposedTransition
    <3> QED BY <3>1, <3>2, <3>3
  <2>3. OutOf(r, i, a) \in Seq(Nat)
    BY <2>2, PairType DEF Words
  <2> QED BY ONLY <1>2, <2>2, <2>3
<1>6. r.delta \in [States(r) \X Alphabet(r) -> [out : Seq(Nat), to : States(r)]]
  <2>1. r.delta = [k \in DOMAIN r.delta |-> r.delta[k]]
    BY DEF IsComposition
  <2>2. ASSUME NEW k \in States(r) \X Alphabet(r)
        PROVE  r.delta[k] \in [out : Seq(Nat), to : States(r)]
    <3>1. PICK i \in 0 .. Len(order) - 1, a \in Alphabet(t) : k = <<i, a>>
      BY <1>2, <1>4
    <3> QED BY <1>5, <3>1
  <2>3. DOMAIN r.delta = States(r) \X Alphabet(r)
    BY <1>2, <1>3, <1>4
  <2> QED BY ONLY <2>1, <2>2, <2>3
<1>7. r.psi \in [States(r) -> Seq(Nat)]
  <2>1. r.psi = [i \in 0 .. Len(order) - 1 |-> PairPsi(t, u, order[i + 1])]
    BY DEF IsComposition
  <2>2. ASSUME NEW i \in 0 .. Len(order) - 1
        PROVE  PairPsi(t, u, order[i + 1]) \in Seq(Nat)
    <3>1. PICK c : c = order[i + 1]
      OBVIOUS
    <3>2. c \in States(t) \X States(u)
      BY <3>1, ComposedParts
    <3> QED BY <3>1, <3>2, PairType DEF Words
  <2> QED BY ONLY <1>2, <2>1, <2>2
<1>8. r.initialOut \in Seq(Nat)
  <2>1. IsTotal(t) /\ IsTotal(u) /\ 0 \in States(u) /\ InitialOf(u) \in Words /\ InitialOf(t) \in Seq(Alphabet(u))
    BY PartsType DEF Composable
  <2>2. ReadOut(u, 0, InitialOf(t)) \in Words
    BY <2>1, ReadPartsType
  <2>3. InitialOf(u) \o ReadOut(u, 0, InitialOf(t)) \in Words
    BY <2>1, <2>2, ConcatWords
  <2> QED BY <2>3 DEF IsComposition, Words
<1>9. Alphabet(r) \subseteq Nat /\ IsFiniteSet(Alphabet(r))
  BY <1>4 DEF Composable, IsTotal
<1> QED BY <1>2, <1>4, <1>6, <1>7, <1>8, <1>9 DEF IsTotal

\* The composition with state i, which has written done, is where t has written
\* given in state p and u has read what t wrote, from its initial output on.
Along(t, u, order, p, given, i, done) ==
    /\ p \in States(t) /\ given \in Seq(Alphabet(u)) /\ i \in 0 .. Len(order) - 1 /\ done \in Words
    /\ order[i + 1] = <<p, ReadAt(u, 0, InitialOf(t) \o given)>>
    /\ ReadOut(u, 0, InitialOf(t)) \o done = ReadOut(u, 0, InitialOf(t) \o given)

\* One more letter keeps the composition in the state of its parts.
LEMMA StaysAlong ==
    ASSUME NEW t, NEW u, Composable(t, u), InitialOf(u) = <<>>,
           NEW r, NEW order, IsOrder(t, u, order), IsComposition(t, u, r, order),
           NEW p, NEW given, NEW i, NEW done, Along(t, u, order, p, given, i, done), NEW a \in Alphabet(t)
    PROVE  Along(t, u, order, ToOf(t, p, a), given \o OutOf(t, p, a), ToOf(r, i, a), done \o OutOf(r, i, a))
<1>1. /\ IsTotal(t) /\ IsTotal(u) /\ InitialOf(t) \in Seq(Alphabet(u)) /\ 0 \in States(u)
      /\ p \in States(t) /\ given \in Seq(Alphabet(u)) /\ i \in 0 .. Len(order) - 1 /\ done \in Words
  BY PartsType DEF Along, Composable
<1>2. PICK read, s, out, start :
          /\ read = InitialOf(t) \o given /\ s = ReadAt(u, 0, read) /\ out = OutOf(t, p, a)
          /\ start = ReadOut(u, 0, InitialOf(t))
  OBVIOUS
<1>3. order[i + 1] = <<p, s>> /\ start \o done = ReadOut(u, 0, read)
  BY <1>2 DEF Along
<1>4. read \in Seq(Alphabet(u)) /\ out \in Seq(Alphabet(u)) /\ ToOf(t, p, a) \in States(t) /\ start \in Words
  <2>1. out \in Seq(Alphabet(u)) /\ ToOf(t, p, a) \in States(t)
    BY <1>1, <1>2, PartsType DEF Composable
  <2> QED BY <1>1, <1>2, <2>1, ConcatOver, ReadPartsType
<1>5. s \in States(u)
  BY <1>1, <1>2, <1>4, ReadPartsType
<1>6. /\ ReadOut(u, 0, read \o out) = ReadOut(u, 0, read) \o ReadOut(u, s, out)
      /\ ReadAt(u, 0, read \o out) = ReadAt(u, s, out)
  <2>1. IsTotal(u) /\ 0 \in States(u) /\ read \in Seq(Alphabet(u)) /\ out \in Seq(Alphabet(u))
    BY <1>1, <1>4
  <2>2. /\ ReadOut(u, 0, read \o out) = ReadOut(u, 0, read) \o ReadOut(u, ReadAt(u, 0, read), out)
        /\ ReadAt(u, 0, read \o out) = ReadAt(u, ReadAt(u, 0, read), out)
    BY ONLY <2>1, ReadConcat
  <2>3. s = ReadAt(u, 0, read)
    BY <1>2
  <2> QED BY ONLY <2>2, <2>3
<1>7. InitialOf(t) \o (given \o out) = read \o out
  <2>1. PICK A, begin : A = Alphabet(u) /\ begin = InitialOf(t)
    OBVIOUS
  <2>2. begin \in Seq(A) /\ given \in Seq(A) /\ out \in Seq(A)
    BY <1>1, <1>4, <2>1
  <2>3. (begin \o given) \o out = begin \o (given \o out)
    BY ONLY <2>2, ConcatAssociative
  <2> QED BY <1>2, <2>1, <2>3
<1>8. ReadOut(u, s, out) \in Words
  BY <1>1, <1>4, <1>5, ReadPartsType
<1>9. PICK c : c = order[i + 1]
  OBVIOUS
<1>10. /\ OutOf(r, i, a) = PairOut(t, u, c, a)
       /\ ToOf(r, i, a) \in 0 .. Len(order) - 1
       /\ order[ToOf(r, i, a) + 1] = After(t, u, c, a)
  <2>1. i \in 0 .. Len(order) - 1
    BY <1>1
  <2> QED BY ONLY <1>9, <2>1, ComposedStep, IsOrder(t, u, order), IsComposition(t, u, r, order), a \in Alphabet(t)
<1>11. c[1] = p /\ c[2] = s
  BY <1>3, <1>9
<1>12. After(t, u, c, a) = <<ToOf(t, p, a), ReadAt(u, s, out)>>
  BY <1>2, <1>11 DEF After
<1>13. PairOut(t, u, c, a) = ReadOut(u, s, out)
  <2>1. PairOut(t, u, c, a) = <<>> \o ReadOut(u, s, out)
    BY <1>2, <1>11 DEF PairOut
  <2>2. ReadOut(u, s, out) \in Seq(Nat)
    BY <1>8 DEF Words
  <2> QED BY <2>1, <2>2, ConcatEmptySeq
<1>14. OutOf(r, i, a) = ReadOut(u, s, out)
  BY ONLY <1>10, <1>13
<1>15. given \o out \in Seq(Alphabet(u)) /\ done \o OutOf(r, i, a) \in Words
  BY <1>1, <1>4, <1>8, <1>14, ConcatOver, ConcatWords
<1>16. start \o (done \o OutOf(r, i, a)) = ReadOut(u, 0, read \o out)
  <2>1. PICK o : o = OutOf(r, i, a)
    OBVIOUS
  <2>2. start \in Words /\ done \in Words /\ o \in Words
    BY <1>1, <1>4, <1>8, <1>14, <2>1
  <2>3. (start \o done) \o o = start \o (done \o o)
    BY ONLY <2>2, ConcatRegroups
  <2> QED BY ONLY <1>3, <1>6, <1>14, <2>1, <2>3
<1>17. order[ToOf(r, i, a) + 1] = <<ToOf(t, p, a), ReadAt(u, 0, read \o out)>>
  BY ONLY <1>6, <1>10, <1>12
<1> QED BY ONLY <1>2, <1>4, <1>7, <1>10, <1>15, <1>16, <1>17 DEF Along

\* The composition computes what its parts do one after the other.
LEMMA ComposedComputes ==
    ASSUME NEW t, NEW u, Composable(t, u), InitialOf(u) = <<>>, NEW r, r = ComposeFST(t, u),
           NEW word \in Seq(Alphabet(t))
    PROVE  F(r, word) = F(u, F(t, word))
<1>1. PICK order : order = PairOrder(t, u)
  OBVIOUS
<1>2. IsOrder(t, u, order) /\ IsComposition(t, u, r, order)
  BY <1>1, OrderIs, ComposedIs
<1>3. PICK n \in Nat : n = Len(word)
  BY LenProperties
<1>4. PICK old : Read(t, 0, word) = old[n] /\ AreReadings(t, 0, word, n, old)
  BY <1>3, ReadSteps
<1>5. PICK new : Read(r, 0, word) = new[n] /\ AreReadings(r, 0, word, n, new)
  BY <1>3, ReadSteps
<1>6. /\ IsTotal(t) /\ IsTotal(u) /\ IsTotal(r) /\ 0 \in States(t) /\ 0 \in States(u)
      /\ InitialOf(t) \in Seq(Alphabet(u)) /\ Len(order) \in Nat /\ Len(order) >= 1
      /\ Alphabet(r) = Alphabet(t)
  BY <1>2, ComposedIsTotal, PartsType DEF Composable, IsOrder
<1> DEFINE T == {j \in 0 .. n : Along(t, u, order, old[j].at, old[j].out, new[j].at, new[j].out)}
<1>7. 0 \in T
  <2>1. /\ old[0].at = 0 /\ old[0].out = <<>> /\ new[0].at = 0 /\ new[0].out = <<>>
    BY <1>4, <1>5, BeginningIs DEF AreReadings
  <2>2. InitialOf(t) \o <<>> = InitialOf(t)
    BY <1>6, ConcatEmptySeq
  <2>3. ReadOut(u, 0, InitialOf(t)) \in Seq(Nat)
    BY <1>6, ReadPartsType DEF Words
  <2>4. ReadOut(u, 0, InitialOf(t)) \o <<>> = ReadOut(u, 0, InitialOf(t))
    BY <2>3, ConcatEmptySeq
  <2>5. order[1] = <<0, ReadAt(u, 0, InitialOf(t))>>
    BY <1>2 DEF IsOrder, Start
  <2>6. <<>> \in Seq(Alphabet(u)) /\ <<>> \in Words /\ 0 \in 0 .. Len(order) - 1 /\ 0 + 1 = 1
    BY <1>6 DEF Words
  <2>7. Along(t, u, order, 0, <<>>, 0, <<>>)
    BY ONLY <1>6, <2>2, <2>4, <2>5, <2>6 DEF Along
  <2> QED BY <1>3, <2>1, <2>7
<1>8. ASSUME NEW j \in 0 .. n - 1, j \in T
      PROVE  j + 1 \in T
  <2>1. j + 1 \in 1 .. n /\ j + 1 \in 0 .. n /\ (j + 1) - 1 = j
    OBVIOUS
  <2>2. PICK a, x, x1, y, y1 : a = word[j + 1] /\ x = old[j] /\ x1 = old[j + 1] /\ y = new[j] /\ y1 = new[j + 1]
    OBVIOUS
  <2>3. a \in Alphabet(t)
    BY <1>3, <2>1, <2>2, ElementOfSeq
  <2>4. x1 = OneLetter(t, x, a) /\ y1 = OneLetter(r, y, a)
    BY ONLY <1>4, <1>5, <2>1, <2>2 DEF AreReadings
  <2>5. PICK p, given, i, done : p = x.at /\ given = x.out /\ i = y.at /\ done = y.out
    OBVIOUS
  <2>6. Along(t, u, order, p, given, i, done)
    BY <1>8, <2>2, <2>5
  <2>7. Along(t, u, order, ToOf(t, p, a), given \o OutOf(t, p, a), ToOf(r, i, a), done \o OutOf(r, i, a))
    BY <1>2, <2>3, <2>6, StaysAlong
  <2>8. x1.at = ToOf(t, p, a) /\ x1.out = given \o OutOf(t, p, a)
    BY ONLY <2>4, <2>5 DEF OneLetter, ToOf, OutOf
  <2>9. y1.at = ToOf(r, i, a) /\ y1.out = done \o OutOf(r, i, a)
    BY ONLY <2>4, <2>5 DEF OneLetter, ToOf, OutOf
  <2>10. Along(t, u, order, x1.at, x1.out, y1.at, y1.out)
    BY ONLY <2>7, <2>8, <2>9
  <2> QED BY <2>1, <2>2, <2>10
<1>9. T = 0 .. n
  <2>1. T \in SUBSET (0 .. n)
    OBVIOUS
  <2> HIDE DEF T
  <2> QED BY <1>7, <1>8, <2>1, Counting
<1>10. PICK p, given, i, done :
          p = ReadAt(t, 0, word) /\ given = ReadOut(t, 0, word) /\ i = ReadAt(r, 0, word) /\ done = ReadOut(r, 0, word)
  OBVIOUS
<1>11. Along(t, u, order, p, given, i, done)
  <2>1. n \in T
    BY <1>9
  <2>2. p = old[n].at /\ given = old[n].out /\ i = new[n].at /\ done = new[n].out
    BY <1>4, <1>5, <1>10 DEF ReadAt, ReadOut
  <2> QED BY <2>1, <2>2
<1>12. PICK read, s, psi, start :
          /\ read = InitialOf(t) \o given /\ s = ReadAt(u, 0, read) /\ psi = PsiOf(t, p)
          /\ start = ReadOut(u, 0, InitialOf(t))
  OBVIOUS
<1>13. /\ p \in States(t) /\ given \in Seq(Alphabet(u)) /\ i \in 0 .. Len(order) - 1 /\ done \in Words
       /\ order[i + 1] = <<p, s>> /\ start \o done = ReadOut(u, 0, read)
  BY <1>11, <1>12 DEF Along
<1>14. read \in Seq(Alphabet(u)) /\ psi \in Seq(Alphabet(u)) /\ start \in Words
  BY <1>6, <1>12, <1>13, ConcatOver, ReadPartsType DEF Composable
<1>15. s \in States(u) /\ ReadOut(u, 0, read) \in Words
  BY <1>6, <1>12, <1>14, ReadPartsType
<1>16. /\ ReadOut(u, 0, read \o psi) = ReadOut(u, 0, read) \o ReadOut(u, s, psi)
       /\ ReadAt(u, 0, read \o psi) = ReadAt(u, s, psi)
  <2>1. IsTotal(u) /\ 0 \in States(u) /\ read \in Seq(Alphabet(u)) /\ psi \in Seq(Alphabet(u))
    BY <1>6, <1>14
  <2>2. /\ ReadOut(u, 0, read \o psi) = ReadOut(u, 0, read) \o ReadOut(u, ReadAt(u, 0, read), psi)
        /\ ReadAt(u, 0, read \o psi) = ReadAt(u, ReadAt(u, 0, read), psi)
    BY ONLY <2>1, ReadConcat
  <2>3. s = ReadAt(u, 0, read)
    BY <1>12
  <2> QED BY ONLY <2>2, <2>3
<1>17. PICK more, last : more = ReadOut(u, s, psi) /\ last = PsiOf(u, ReadAt(u, s, psi))
  OBVIOUS
<1>18. more \in Words /\ last \in Words
  BY <1>6, <1>14, <1>15, <1>17, ReadPartsType, PartsType
<1>19. F(t, word) = read \o psi
  BY <1>10, <1>12, ComputedIs
<1>20. F(u, read \o psi) = ((start \o done) \o more) \o last
  <2>1. F(u, read \o psi) = (InitialOf(u) \o ReadOut(u, 0, read \o psi)) \o PsiOf(u, ReadAt(u, 0, read \o psi))
    BY ComputedIs
  <2>2. (start \o done) \o more \in Seq(Nat) /\ ReadOut(u, 0, read \o psi) = (start \o done) \o more
    BY <1>13, <1>15, <1>16, <1>17, <1>18, ConcatWords DEF Words
  <2>3. <<>> \o ((start \o done) \o more) = (start \o done) \o more
    BY <2>2, ConcatEmptySeq
  <2> QED BY ONLY <1>16, <1>17, <2>1, <2>2, <2>3, InitialOf(u) = <<>>
<1>21. PsiOf(r, i) = more \o last
  <2>1. PICK c : c = order[i + 1]
    OBVIOUS
  <2>2. PsiOf(r, i) = PairPsi(t, u, c)
    <3>1. i \in 0 .. Len(order) - 1
      BY <1>13
    <3> QED BY ONLY <1>2, <2>1, <3>1, ComposedParts
  <2>3. c[1] = p /\ c[2] = s
    BY <1>13, <2>1
  <2>4. PairPsi(t, u, c) = (<<>> \o more) \o last
    BY ONLY <1>12, <1>17, <2>3, InitialOf(u) = <<>> DEF PairPsi
  <2>5. <<>> \o more = more
    BY <1>18, ConcatEmptySeq DEF Words
  <2> QED BY ONLY <2>2, <2>4, <2>5
<1>22. InitialOf(r) = start
  <2>1. InitialOf(r) = <<>> \o start
    BY <1>2, <1>12 DEF IsComposition, InitialOf
  <2>2. <<>> \o start = start
    BY <1>14, ConcatEmptySeq DEF Words
  <2> QED BY <2>1, <2>2
<1>23. F(r, word) = (start \o done) \o (more \o last)
  BY <1>10, <1>21, <1>22, ComputedIs
<1>24. ((start \o done) \o more) \o last = (start \o done) \o (more \o last)
  <2>1. start \o done \in Words
    BY <1>13, <1>15
  <2> QED BY ONLY <1>18, <2>1, ConcatRegroups
<1> QED BY ONLY <1>19, <1>20, <1>23, <1>24
--------------------------------------------------------------------------------
(* The composition of the canonical form.                                  *)

\* Once it is composed, the result is the composition of the canonical form with
\* one of the seconds.
ComposedInv ==
    /\ IInv
    /\ stage = "composed" =>
          finalized = States(fst) /\ second \in Seconds /\ result = ComposeFST(Pushed(fst, estimate), second)

\* Nothing is composed at the beginning.
LEMMA InitComposed == Init => ComposedInv
BY InitInvariant DEF Init, ComposedInv

\* Every step keeps what is known of the composition.
LEMMA NextComposed == ComposedInv /\ [Next]_vars => ComposedInv'
<1> SUFFICES ASSUME ComposedInv, [Next]_vars PROVE ComposedInv'
  OBVIOUS
<1>1. IInv'
  BY NextInvariant DEF ComposedInv
<1>2. ASSUME NEW q \in States(fst), Relax(q)
      PROVE  stage' # "composed"
  BY <1>2 DEF Relax
<1>3. CASE Rebuild
  BY <1>1, <1>3 DEF Rebuild, ComposedInv
<1>4. CASE Compose
  <2>1. /\ stage = "canonical" /\ second' \in Seconds /\ result' = ComposeFST(result, second')
        /\ fst' = fst /\ estimate' = estimate /\ finalized' = finalized
    BY <1>4 DEF Compose
  <2>2. finalized = States(fst) /\ result = Pushed(fst, estimate)
    BY <2>1 DEF ComposedInv, IInv
  <2> QED BY <1>1, <2>1, <2>2 DEF ComposedInv
<1>5. CASE UNCHANGED vars
  BY <1>1, <1>5 DEF ComposedInv, vars
<1> QED BY <1>1, <1>2, <1>3, <1>4, <1>5 DEF Next, ComposedInv

\* The canonical form can be composed with each of the seconds.
LEMMA PushedComposable ==
    ASSUME ComposedInv, stage = "composed", NEW pushed, pushed = Pushed(fst, estimate)
    PROVE  /\ IsTotal(fst) /\ Estimates(fst, estimate, States(fst))
           /\ IsTotal(pushed) /\ Alphabet(pushed) = Alphabet(fst) /\ Composable(pushed, second)
           /\ result = ComposeFST(pushed, second)
<1>1. IsTotal(fst) /\ Estimates(fst, estimate, States(fst)) /\ fst \in Firsts /\ second \in Seconds
      /\ result = ComposeFST(pushed, second)
  BY FirstsAssumption DEF ComposedInv, IInv
<1>2. IsTotal(pushed) /\ Alphabet(pushed) = Alphabet(fst)
  BY <1>1, PushedIsTotal, PushedProperties
<1>3. IsTotal(second) /\ WritesOver(fst, Alphabet(second))
  BY <1>1, SecondsAssumption
<1>4. WritesOver(pushed, Alphabet(second))
  BY <1>1, <1>3, PushedWritesOver
<1> QED BY <1>1, <1>2, <1>3, <1>4, ComposableIs

\* What is returned is total, and reads what the transducer read that was given.
LEMMA ResultIsTotal ==
    ASSUME ComposedInv
    PROVE  stage \in {"canonical", "composed"} => IsTotal(result) /\ Alphabet(result) = Alphabet(fst)
<1>1. CASE stage = "canonical"
  <2>1. IsTotal(fst) /\ Estimates(fst, estimate, States(fst)) /\ result = Pushed(fst, estimate)
    BY <1>1, FirstsAssumption DEF ComposedInv, IInv
  <2> QED BY <2>1, PushedIsTotal, PushedProperties
<1>2. CASE stage = "composed"
  <2>1. PICK pushed : pushed = Pushed(fst, estimate)
    OBVIOUS
  <2>2. Composable(pushed, second) /\ result = ComposeFST(pushed, second) /\ Alphabet(pushed) = Alphabet(fst)
    BY <1>2, <2>1, PushedComposable
  <2>3. PICK order : order = PairOrder(pushed, second)
    OBVIOUS
  <2>4. IsOrder(pushed, second, order) /\ IsComposition(pushed, second, result, order)
    BY <2>2, <2>3, OrderIs, ComposedIs
  <2> QED BY <2>2, <2>4, ComposedIsTotal
<1> QED BY <1>1, <1>2

\* The words that the functions are compared on are words.
LEMMA InputsAre ==
    ASSUME NEW w \in Inputs
    PROVE  w \in Seq(Alphabet(fst)) /\ \E n \in Nat : w \in [1 .. n -> Alphabet(fst)]
<1>1. PICK n \in 0 .. MaxRead : w \in [1 .. n -> Alphabet(fst)]
  BY DEF Inputs
<1>2. n \in Nat
  OBVIOUS
<1> QED BY <1>1, <1>2

\* What the invariant says of a composition.
LEMMA Composed == ComposedInv => ComposedIsComposition
<1> SUFFICES ASSUME ComposedInv, stage = "composed", second.initialOut = <<>>, NEW w \in Inputs
             PROVE  F(result, w) = F(second, F(fst, w))
  BY DEF ComposedIsComposition
<1>1. PICK pushed : pushed = Pushed(fst, estimate)
  OBVIOUS
<1>2. /\ IsTotal(fst) /\ Estimates(fst, estimate, States(fst))
      /\ Alphabet(pushed) = Alphabet(fst) /\ Composable(pushed, second)
      /\ result = ComposeFST(pushed, second)
  BY <1>1, PushedComposable
<1>3. PICK n \in Nat : w \in [1 .. n -> Alphabet(fst)]
  BY InputsAre
<1>4. F(pushed, w) = F(fst, w)
  BY <1>1, <1>2, <1>3, PushedComputes
<1>5. InitialOf(second) = <<>>
  BY DEF InitialOf
<1>6. w \in Seq(Alphabet(pushed))
  BY <1>2, InputsAre
<1>7. F(result, w) = F(second, F(pushed, w))
  BY ONLY <1>2, <1>5, <1>6, ComposedComputes
<1> QED BY ONLY <1>4, <1>7

\* Whatever two total transducers are given, the composition of the canonical form
\* of the first with the second computes what they compute one after the other.
THEOREM CompositionIsRight == Spec => []ComposedIsComposition
<1>1. Spec => []ComposedInv
  BY InitComposed, NextComposed, PTL DEF Spec
<1> QED BY <1>1, Composed, PTL
--------------------------------------------------------------------------------
(* The pool of words, and the flag of a number.                            *)

\* A pool of words; what it holds stays where it is when it grows.
IsPool(pool) == pool \in Seq(Words) /\ Len(pool) \in Nat /\ Len(pool) >= 1 /\ pool[1] = <<>>
Holds(pool, word) == \E i \in 1 .. Len(pool) : pool[i] = word
Grows(old, new) == Len(old) <= Len(new) /\ \A i \in 1 .. Len(old) : new[i] = old[i]

\* Adding a word keeps what is there, and then the word is there.
LEMMA AddedIs ==
    ASSUME NEW pool, IsPool(pool), NEW word \in Words
    PROVE  IsPool(Added(pool, word)) /\ Grows(pool, Added(pool, word)) /\ Holds(Added(pool, word), word)
<1>1. CASE Contains(pool, word)
  <2>1. Added(pool, word) = pool
    BY <1>1 DEF Added
  <2>2. Holds(pool, word)
    BY <1>1 DEF Contains, Holds
  <2> QED BY <2>1, <2>2 DEF Grows, IsPool
<1>2. CASE ~Contains(pool, word)
  <2>1. PICK new : new = Append(pool, word)
    OBVIOUS
  <2>2. Added(pool, word) = new
    BY <1>2, <2>1 DEF Added
  <2>3. /\ pool \in Seq(Words) /\ Len(pool) \in Nat /\ Len(pool) >= 1 /\ pool[1] = <<>>
    BY DEF IsPool
  <2> HIDE DEF Words
  <2>4. new \in Seq(Words) /\ Len(new) = Len(pool) + 1 /\ new[Len(pool) + 1] = word
        /\ \A i \in 1 .. Len(pool) : new[i] = pool[i]
    BY <2>1, <2>3
  <2>5. Len(pool) + 1 \in 1 .. Len(new) /\ Len(new) \in Nat /\ Len(new) >= 1 /\ 1 \in 1 .. Len(pool)
    BY <2>3, <2>4
  <2> QED BY <2>2, <2>3, <2>4, <2>5 DEF IsPool, Grows, Holds
<1> QED BY <1>1, <1>2

\* Growing twice is growing, and what is there stays there.
LEMMA GrowsOn ==
    ASSUME NEW old, NEW mid, NEW new, IsPool(old), IsPool(mid), IsPool(new), Grows(old, mid), Grows(mid, new)
    PROVE  Grows(old, new) /\ \A word : Holds(old, word) => Holds(new, word)
<1>1. Len(old) \in Nat /\ Len(mid) \in Nat /\ Len(new) \in Nat
  BY DEF IsPool
<1>2. \A i \in 1 .. Len(old) : i \in 1 .. Len(mid) /\ i \in 1 .. Len(new)
  BY <1>1 DEF Grows
<1> QED BY <1>1, <1>2 DEF Grows, Holds

\* A list of words is added from the first to the last.
IsInterning(pool, words, f) ==
    f = [i \in 0 .. Len(words) |-> IF i = 0 THEN pool ELSE Added(f[i - 1], words[i])]

\* There is such a sequence of pools.
LEMMA InterningExists ==
    ASSUME NEW pool, IsPool(pool), NEW words \in Seq(Words)
    PROVE  \E f : IsInterning(pool, words, f)
<1> DEFINE D == {p \in Seq(Words) : IsPool(p)}
           n == Len(words)
           step == [d \in D \X (1 .. n) |-> Added(d[1], words[d[2]])]
<1>1. n \in Nat /\ pool \in D
  BY LenProperties DEF IsPool
<1>2. step \in [D \X (1 .. n) -> D]
  <2>1. ASSUME NEW d \in D \X (1 .. n)
        PROVE  Added(d[1], words[d[2]]) \in D
    <3>1. IsPool(d[1]) /\ d[2] \in 1 .. n
      OBVIOUS
    <3>2. words[d[2]] \in Words
      BY <3>1, ElementOfSeq
    <3>3. IsPool(Added(d[1], words[d[2]]))
      BY <3>1, <3>2, AddedIs
    <3> QED BY <3>3 DEF IsPool
  <2> QED BY <2>1
<1>3. \A p \in D, i \in 1 .. n : step[<<p, i>>] = Added(p, words[i])
  <2> TAKE p \in D, i \in 1 .. n
  <2>1. <<p, i>> \in D \X (1 .. n)
    OBVIOUS
  <2> HIDE DEF D, n
  <2> QED BY <2>1
<1> HIDE DEF D, n, step
<1>4. PICK f : AreSteps(n, D, pool, step, f)
  BY <1>1, <1>2, StepsExist
<1>5. f \in [0 .. n -> D] /\ f[0] = pool /\ \A i \in 1 .. n : f[i] = step[<<f[i - 1], i>>]
  BY <1>4 DEF AreSteps
<1>6. ASSUME NEW i \in 0 .. n
      PROVE  f[i] = IF i = 0 THEN pool ELSE Added(f[i - 1], words[i])
  <2>1. CASE i = 0
    BY <1>5, <2>1
  <2>2. CASE i # 0
    <3>1. i \in 1 .. n /\ i - 1 \in 0 .. n
      BY <1>1, <2>2
    <3>2. f[i] = step[<<f[i - 1], i>>] /\ f[i - 1] \in D
      BY ONLY <1>5, <3>1
    <3> QED BY <1>3, <2>2, <3>1, <3>2
  <2> QED BY <2>1, <2>2
<1>7. f = [i \in 0 .. n |-> IF i = 0 THEN pool ELSE Added(f[i - 1], words[i])]
  <2>1. f = [i \in 0 .. n |-> f[i]]
    BY ONLY <1>5
  <2> QED BY ONLY <1>6, <2>1
<1> QED BY <1>7 DEF n, IsInterning

\* Interning keeps what is there, and then each word of the list is there.
LEMMA InternedIs ==
    ASSUME NEW pool, IsPool(pool), NEW words \in Seq(Words), NEW new, new = Interned(pool, words)
    PROVE  IsPool(new) /\ Grows(pool, new) /\ \A j \in 1 .. Len(words) : Holds(new, words[j])
<1> DEFINE f == CHOOSE f : IsInterning(pool, words, f)
           n == Len(words)
<1>1. IsInterning(pool, words, f) /\ n \in Nat
  BY InterningExists, LenProperties
<1>2. new = f[n]
  BY DEF Interned, IsInterning
<1>3. f = [i \in 0 .. n |-> IF i = 0 THEN pool ELSE Added(f[i - 1], words[i])]
  BY <1>1 DEF IsInterning
<1> HIDE DEF f
<1>4. \A j \in 1 .. n : words[j] \in Words
  BY ElementOfSeq
<1> HIDE DEF n
<1>5. f[0] = pool /\ \A i \in 1 .. n : f[i] = Added(f[i - 1], words[i])
  <2>1. 0 \in 0 .. n /\ \A i \in 1 .. n : i \in 0 .. n /\ i # 0
    BY <1>1
  <2> QED BY ONLY <1>3, <2>1
<1> DEFINE Right(i) == /\ IsPool(f[i]) /\ Grows(pool, f[i])
                       /\ \A j \in 1 .. i : Holds(f[i], words[j])
           T == {i \in 0 .. n : Right(i)}
<1>6. 0 \in T
  <2>1. Grows(pool, pool)
    BY DEF Grows, IsPool
  <2>2. Right(0)
    BY <1>5, <2>1
  <2> QED BY <1>1, <2>2
<1>7. ASSUME NEW i \in 0 .. n - 1, i \in T
      PROVE  i + 1 \in T
  <2>1. i + 1 \in 1 .. n /\ i + 1 \in 0 .. n /\ (i + 1) - 1 = i
    BY <1>1
  <2>2. PICK mid, end : mid = f[i] /\ end = f[i + 1]
    OBVIOUS
  <2>3. end = Added(mid, words[i + 1]) /\ words[i + 1] \in Words
    BY <1>4, <1>5, <2>1, <2>2
  <2>4. IsPool(mid) /\ Grows(pool, mid) /\ \A j \in 1 .. i : Holds(mid, words[j])
    BY <1>7, <2>2
  <2>5. IsPool(end) /\ Grows(mid, end) /\ Holds(end, words[i + 1])
    BY <2>3, <2>4, AddedIs
  <2>6. Grows(pool, end)
    BY <2>4, <2>5, GrowsOn
  <2>7. \A word : Holds(mid, word) => Holds(end, word)
    <3>1. Grows(mid, mid)
      BY <2>4 DEF Grows, IsPool
    <3> QED BY <2>4, <2>5, <3>1, GrowsOn
  <2>8. ASSUME NEW j \in 1 .. i + 1
        PROVE  Holds(end, words[j])
    <3>1. j \in 1 .. i \/ j = i + 1
      BY <2>1
    <3> QED BY <2>4, <2>5, <2>7, <3>1
  <2>9. Right(i + 1)
    BY <2>2, <2>5, <2>6, <2>8
  <2> QED BY <2>1, <2>9
<1>8. T = 0 .. n
  <2>1. T \in SUBSET (0 .. n)
    OBVIOUS
  <2> HIDE DEF T
  <2> QED BY <1>1, <1>6, <1>7, <2>1, Counting
<1>9. Right(n)
  <2>1. n \in T
    BY <1>1, <1>8
  <2> QED BY <2>1
<1> QED BY <1>2, <1>9 DEF n

\* What is in the pool stays in it.
LEMMA InternedHolds ==
    ASSUME NEW pool, IsPool(pool), NEW words \in Seq(Words), NEW new, new = Interned(pool, words)
    PROVE  \A word : Holds(pool, word) => Holds(new, word)
<1>1. IsPool(new) /\ Grows(pool, new)
  BY InternedIs
<1>2. Grows(pool, pool)
  BY DEF Grows, IsPool
<1> QED BY <1>1, <1>2, GrowsOn

\* The number of a word that is there.
LEMMA IdIs ==
    ASSUME NEW pool, IsPool(pool), NEW word, Holds(pool, word)
    PROVE  Id(pool, word) \in 0 .. Len(pool) - 1 /\ pool[Id(pool, word) + 1] = word
<1> DEFINE i == CHOOSE i \in DOMAIN pool : pool[i] = word
<1>1. Len(pool) \in Nat /\ DOMAIN pool = 1 .. Len(pool)
  BY LenProperties DEF IsPool
<1>2. i \in 1 .. Len(pool) /\ pool[i] = word
  BY <1>1 DEF Holds
<1>3. Id(pool, word) = i - 1
  BY DEF Id
<1> HIDE DEF i
<1>4. Id(pool, word) \in 0 .. Len(pool) - 1 /\ Id(pool, word) + 1 = i
  BY <1>1, <1>2, <1>3
<1> QED BY <1>2, <1>4

\* The flag: it goes on and off a number that leaves its bit free.
LEMMA FlagIs ==
    ASSUME NEW clean \in Nat, clean < FlagBit, NEW flag \in BOOLEAN
    PROVE  /\ PackValue(clean, flag) \in Nat
           /\ CleanValue(PackValue(clean, flag)) = clean
           /\ IsCompressed(PackValue(clean, flag)) <=> flag
<1>1. FlagBit \in Nat /\ FlagBit > 0
  BY FlagBitAssumption
<1>2. CASE flag
  <2>1. PackValue(clean, flag) = clean + FlagBit
    BY <1>2 DEF PackValue
  <2>2. (clean + FlagBit) % FlagBit = clean /\ clean + FlagBit >= FlagBit /\ clean + FlagBit \in Nat
    BY <1>1
  <2> QED BY <1>2, <2>1, <2>2 DEF CleanValue, IsCompressed
<1>3. CASE ~flag
  <2>1. PackValue(clean, flag) = clean
    BY <1>3 DEF PackValue
  <2>2. clean % FlagBit = clean /\ ~(clean >= FlagBit)
    BY <1>1
  <2> QED BY <1>3, <2>1, <2>2 DEF CleanValue, IsCompressed
<1> QED BY <1>2, <1>3

\* A number without its flag is below the flag.
LEMMA CleanIs ==
    ASSUME NEW packed \in Nat
    PROVE  CleanValue(packed) \in Nat /\ CleanValue(packed) < FlagBit /\ IsCompressed(packed) \in BOOLEAN
BY FlagBitAssumption DEF CleanValue, IsCompressed

\* Every cell of a table is listed.
ListsAll(n, letters, cells) ==
    /\ cells \in Seq((0 .. n - 1) \X letters) /\ Len(cells) \in Nat
    /\ \A q \in 0 .. n - 1, a \in letters : \E i \in 1 .. Len(cells) : cells[i] = <<q, a>>

\* Cells() lists every cell.
LEMMA CellsAre ==
    ASSUME NEW n \in Nat, NEW letters \in SUBSET Nat, IsFiniteSet(letters), NEW cells, cells = Cells(n, letters)
    PROVE  ListsAll(n, letters, cells)
<1>1. PICK k \in Nat : k = Cardinality(letters)
  BY FS_CardinalityType
<1>2. PICK size \in Nat : size = n * k
  OBVIOUS
<1>3. cells = [i \in 1 .. size |-> <<(i - 1) \div k, Nth(letters, (i - 1) % k)>>]
  BY <1>1, <1>2 DEF Cells
<1>4. ASSUME NEW i \in 1 .. size
      PROVE  <<(i - 1) \div k, Nth(letters, (i - 1) % k)>> \in (0 .. n - 1) \X letters
  <2>1. k > 0 /\ i \in 1 .. n * k
    <3>1. k = 0 => n * k = 0
      OBVIOUS
    <3> QED BY <1>2, <3>1
  <2>2. (i - 1) \div k \in 0 .. n - 1
    BY <2>1
  <2>3. (i - 1) % k \in 0 .. k - 1
    BY <2>1
  <2>4. Nth(letters, (i - 1) % k) \in letters
    BY <1>1, <2>3, NthProperties
  <2> QED BY <2>2, <2>4
<1>5. cells \in [1 .. size -> (0 .. n - 1) \X letters]
  BY <1>3, <1>4
<1>6. cells \in Seq((0 .. n - 1) \X letters) /\ Len(cells) = size
  <2>1. PICK S : S = (0 .. n - 1) \X letters
    OBVIOUS
  <2>2. cells \in [1 .. size -> S]
    BY <1>5, <2>1
  <2>3. cells \in Seq(S) /\ Len(cells) = size
    BY ONLY <2>2, size \in Nat
  <2> QED BY <2>1, <2>3
<1>7. ASSUME NEW q \in 0 .. n - 1, NEW a \in letters
      PROVE  \E i \in 1 .. size : cells[i] = <<q, a>>
  <2>1. PICK j : j = Rank(letters, a)
    OBVIOUS
  <2>2. j \in 0 .. k - 1 /\ Nth(letters, j) = a
    BY <1>1, <2>1, RankOfMember
  <2>3. q * k + j + 1 \in 1 .. n * k
    BY <2>2
  <2>4. (q * k + j) \div k = q /\ (q * k + j) % k = j /\ (q * k + j + 1) - 1 = q * k + j
    BY <2>2
  <2>5. PICK i : i = q * k + j + 1
    OBVIOUS
  <2>6. i \in 1 .. size /\ (i - 1) \div k = q /\ (i - 1) % k = j
    BY <1>2, <2>3, <2>4, <2>5
  <2>7. cells[i] = <<q, Nth(letters, j)>>
    BY ONLY <1>3, <2>6
  <2> QED BY <2>2, <2>6, <2>7
<1> QED BY <1>6, <1>7 DEF ListsAll
--------------------------------------------------------------------------------
(* Compressed transducers.                                                 *)

\* Everything that is written after the beginning.
Rest(t, word) == ReadOut(t, 0, word) \o PsiOf(t, ReadAt(t, 0, word))

\* The numbers a machine may use, and the words they stand for.
Numbers(pool) == {id \in Nat : id < Len(pool) /\ id < FlagBit}

\* A number that may be used is that of a word.
LEMMA NumberedWord ==
    ASSUME NEW pool, IsPool(pool), NEW id \in Numbers(pool)
    PROVE  id \in 0 .. Len(pool) - 1 /\ id + 1 \in 1 .. Len(pool) /\ pool[id + 1] \in Words
<1>1. id \in 0 .. Len(pool) - 1 /\ id + 1 \in 1 .. Len(pool)
  BY DEF Numbers, IsPool
<1>2. pool[id + 1] \in Words
  BY <1>1, ElementOfSeq DEF IsPool
<1> QED BY <1>1, <1>2

\* A compressed transducer over the letters A: its numbers leave the flag free and
\* are those of words in its pool.
Fits(c, A) ==
    /\ c = Compressed(c.n, c.delta, c.psi, c.initialOut, c.pool)
    /\ A \subseteq Nat /\ IsFiniteSet(A)
    /\ c.n \in Nat \ {0}
    /\ IsPool(c.pool)
    /\ c.delta \in [(0 .. c.n - 1) \X A -> [val : Nat, next : 0 .. c.n - 1]]
    /\ \A k \in DOMAIN c.delta : CleanValue(c.delta[k].val) \in Numbers(c.pool)
    /\ c.psi \in [0 .. c.n - 1 -> Numbers(c.pool)]
    /\ c.initialOut \in Numbers(c.pool)

\* What a number with a flag stands for.
Output(pool, val, a) == pool[CleanValue(val) + 1] \o IF IsCompressed(val) THEN <<a>> ELSE <<>>

\* What a number with a flag stands for is a word.
LEMMA OutputType ==
    ASSUME NEW pool, IsPool(pool), NEW val \in Nat, CleanValue(val) \in Numbers(pool), NEW a \in Nat
    PROVE  Output(pool, val, a) \in Words
<1>1. pool[CleanValue(val) + 1] \in Words
  BY NumberedWord
<1>2. <<a>> \in Words /\ <<>> \in Words
  BY DEF Words
<1>3. CASE IsCompressed(val)
  BY <1>1, <1>2, <1>3, ConcatWords DEF Output
<1>4. CASE ~IsCompressed(val)
  BY <1>1, <1>2, <1>4, ConcatWords DEF Output
<1> QED BY <1>3, <1>4

\* The transducer a compressed one stands for.
IsExpansion(c, A, t) ==
    /\ t.n = c.n
    /\ t.delta = [k \in (0 .. c.n - 1) \X A |->
                     [out |-> Output(c.pool, c.delta[k].val, k[2]), to |-> c.delta[k].next]]
    /\ t.psi = [q \in 0 .. c.n - 1 |-> c.pool[c.psi[q] + 1]]
    /\ t.initialOut = c.pool[c.initialOut + 1]

\* The transducer a compressed one stands for, by its parts.
LEMMA ExpandedIs ==
    ASSUME NEW c, NEW A, Fits(c, A), NEW t, t = Expanded(c)
    PROVE  IsExpansion(c, A, t)
<1>1. DOMAIN c.delta = (0 .. c.n - 1) \X A /\ DOMAIN c.psi = 0 .. c.n - 1
  BY DEF Fits
<1>2. \A k \in DOMAIN c.delta : FullOutput(c, k[1], k[2]) = Output(c.pool, c.delta[k].val, k[2])
  <2> TAKE k \in DOMAIN c.delta
  <2>1. k = <<k[1], k[2]>>
    BY <1>1
  <2> QED BY <2>1 DEF FullOutput, Output, Word
<1>3. /\ t.n = c.n
      /\ t.delta = [k \in DOMAIN c.delta |-> [out |-> FullOutput(c, k[1], k[2]), to |-> c.delta[k].next]]
      /\ t.psi = [q \in DOMAIN c.psi |-> c.pool[c.psi[q] + 1]]
      /\ t.initialOut = c.pool[c.initialOut + 1]
  BY DEF Expanded, Total, Word
<1>4. t.delta = [k \in DOMAIN c.delta |-> [out |-> Output(c.pool, c.delta[k].val, k[2]), to |-> c.delta[k].next]]
  BY ONLY <1>2, <1>3
<1> QED BY ONLY <1>1, <1>3, <1>4 DEF IsExpansion

\* That transducer is total, and has the letters of the table.
LEMMA ExpandedIsTotal ==
    ASSUME NEW c, NEW A, Fits(c, A), NEW t, t = Expanded(c)
    PROVE  IsTotal(t) /\ Alphabet(t) = A /\ States(t) = 0 .. c.n - 1
<1>1. /\ t.n = c.n
      /\ t.delta = [k \in (0 .. c.n - 1) \X A |->
                            [out |-> Output(c.pool, c.delta[k].val, k[2]), to |-> c.delta[k].next]]
      /\ t.psi = [q \in 0 .. c.n - 1 |-> c.pool[c.psi[q] + 1]]
      /\ t.initialOut = c.pool[c.initialOut + 1]
  <2>1. IsExpansion(c, A, t)
    BY ExpandedIs
  <2> QED BY <2>1 DEF IsExpansion
<1>2. c.n \in Nat \ {0} /\ A \subseteq Nat /\ IsFiniteSet(A) /\ IsPool(c.pool)
  BY DEF Fits
<1>3. States(t) = 0 .. c.n - 1 /\ 0 \in 0 .. c.n - 1
  BY <1>1, <1>2 DEF States
<1>4. DOMAIN t.delta = (0 .. c.n - 1) \X A
  BY <1>1
<1>5. Alphabet(t) = A
  <2>1. PICK n : n = c.n
    OBVIOUS
  <2>2. n \in Nat \ {0} /\ DOMAIN t.delta = (0 .. n - 1) \X A
    BY <1>2, <1>4, <2>1
  <2> QED BY <2>2, LettersOfTable
<1>6. ASSUME NEW k \in (0 .. c.n - 1) \X A
      PROVE  [out |-> Output(c.pool, c.delta[k].val, k[2]), to |-> c.delta[k].next] \in [out : Seq(Nat), to : 0 .. c.n - 1]
  <2>1. c.delta[k].val \in Nat /\ c.delta[k].next \in 0 .. c.n - 1 /\ CleanValue(c.delta[k].val) \in Numbers(c.pool)
    <3>1. k \in DOMAIN c.delta /\ c.delta[k] \in [val : Nat, next : 0 .. c.n - 1]
      BY DEF Fits
    <3>2. CleanValue(c.delta[k].val) \in Numbers(c.pool)
      BY <3>1 DEF Fits
    <3> QED BY <3>1, <3>2
  <2>2. k[2] \in Nat
    BY <1>2
  <2>3. Output(c.pool, c.delta[k].val, k[2]) \in Seq(Nat)
    <3>1. PICK val, a : val = c.delta[k].val /\ a = k[2]
      OBVIOUS
    <3>2. Output(c.pool, val, a) \in Words
      BY <1>2, <2>1, <2>2, <3>1, OutputType
    <3> QED BY <3>1, <3>2 DEF Words
  <2> QED BY ONLY <2>1, <2>3
<1>7. t.delta \in [(0 .. c.n - 1) \X A -> [out : Seq(Nat), to : 0 .. c.n - 1]]
  BY ONLY <1>1, <1>6
<1>8. ASSUME NEW q \in 0 .. c.n - 1
      PROVE  c.pool[c.psi[q] + 1] \in Seq(Nat)
  <2>1. c.psi[q] \in Numbers(c.pool)
    BY DEF Fits
  <2> QED BY <1>2, <2>1, NumberedWord DEF Words
<1>9. t.psi \in [0 .. c.n - 1 -> Seq(Nat)]
  BY ONLY <1>1, <1>8
<1>10. t.initialOut \in Seq(Nat)
  <2>1. c.initialOut \in Numbers(c.pool)
    BY DEF Fits
  <2>2. c.pool[c.initialOut + 1] \in Words
    BY <1>2, <2>1, NumberedWord
  <2> QED BY <1>1, <2>2 DEF Words
<1> QED BY <1>1, <1>2, <1>3, <1>5, <1>7, <1>9, <1>10 DEF IsTotal

\* Two compressed transducers whose numbers stand for the same words.
LEMMA SameWords ==
    ASSUME NEW c, NEW d, NEW A, Fits(c, A), Fits(d, A), d.n = c.n,
           \A k \in (0 .. c.n - 1) \X A :
               /\ Output(d.pool, d.delta[k].val, k[2]) = Output(c.pool, c.delta[k].val, k[2])
               /\ d.delta[k].next = c.delta[k].next,
           \A q \in 0 .. c.n - 1 : d.pool[d.psi[q] + 1] = c.pool[c.psi[q] + 1],
           d.pool[d.initialOut + 1] = c.pool[c.initialOut + 1]
    PROVE  Expanded(d) = Expanded(c)
<1>1. PICK t, u : t = Expanded(c) /\ u = Expanded(d)
  OBVIOUS
<1>2. t = Total(t.n, t.delta, t.psi, t.initialOut) /\ u = Total(u.n, u.delta, u.psi, u.initialOut)
  BY <1>1 DEF Expanded, Total
<1>3. /\ t.n = c.n
      /\ t.delta = [k \in (0 .. c.n - 1) \X A |->
                            [out |-> Output(c.pool, c.delta[k].val, k[2]), to |-> c.delta[k].next]]
      /\ t.psi = [q \in 0 .. c.n - 1 |-> c.pool[c.psi[q] + 1]]
      /\ t.initialOut = c.pool[c.initialOut + 1]
  <2>1. IsExpansion(c, A, t)
    BY <1>1, ExpandedIs
  <2> QED BY <2>1 DEF IsExpansion
<1>4. /\ u.n = d.n
      /\ u.delta = [k \in (0 .. d.n - 1) \X A |->
                            [out |-> Output(d.pool, d.delta[k].val, k[2]), to |-> d.delta[k].next]]
      /\ u.psi = [q \in 0 .. d.n - 1 |-> d.pool[d.psi[q] + 1]]
      /\ u.initialOut = d.pool[d.initialOut + 1]
  <2>1. IsExpansion(d, A, u)
    BY <1>1, ExpandedIs
  <2> QED BY <2>1 DEF IsExpansion
<1>5. u.n = t.n /\ u.initialOut = t.initialOut
  BY <1>3, <1>4
<1>6. u.delta = t.delta
  BY <1>3, <1>4
<1>7. u.psi = t.psi
  BY <1>3, <1>4
<1>8. t = u
  BY ONLY <1>2, <1>5, <1>6, <1>7
<1> QED BY <1>1, <1>8

\* A pool that grows changes nothing.
LEMMA GrowingKeeps ==
    ASSUME NEW c, NEW A, Fits(c, A), NEW pool, IsPool(pool), Grows(c.pool, pool),
           NEW d, d = [c EXCEPT !.pool = pool]
    PROVE  Fits(d, A) /\ Expanded(d) = Expanded(c)
<1>1. /\ d.n = c.n /\ d.delta = c.delta /\ d.psi = c.psi /\ d.initialOut = c.initialOut /\ d.pool = pool
      /\ d = Compressed(d.n, d.delta, d.psi, d.initialOut, d.pool)
  BY DEF Fits, Compressed
<1>2. IsPool(c.pool) /\ Len(c.pool) \in Nat /\ Len(pool) \in Nat /\ Len(c.pool) <= Len(pool)
  BY DEF Fits, IsPool, Grows
<1>3. Numbers(c.pool) \subseteq Numbers(pool)
  BY <1>2 DEF Numbers
<1>4. \A id \in Numbers(c.pool) : pool[id + 1] = c.pool[id + 1]
  BY <1>2, NumberedWord DEF Grows
<1>5. Fits(d, A)
  BY <1>1, <1>3 DEF Fits
<1>6. ASSUME NEW k \in (0 .. c.n - 1) \X A
      PROVE  Output(d.pool, d.delta[k].val, k[2]) = Output(c.pool, c.delta[k].val, k[2])
  <2>1. CleanValue(c.delta[k].val) \in Numbers(c.pool)
    BY DEF Fits
  <2> QED BY <1>1, <1>4, <2>1 DEF Output
<1>7. \A q \in 0 .. c.n - 1 : d.pool[d.psi[q] + 1] = c.pool[c.psi[q] + 1]
  BY <1>1, <1>4 DEF Fits
<1>8. d.pool[d.initialOut + 1] = c.pool[c.initialOut + 1]
  BY <1>1, <1>4 DEF Fits
<1> QED BY <1>1, <1>5, <1>6, <1>7, <1>8, SameWords

\* Outputs that are read through the pool make it grow.
LEMMA MaterializedIs ==
    ASSUME NEW c, NEW A, Fits(c, A), NEW cells \in Seq((0 .. c.n - 1) \X A), NEW d, d = Materialized(c, cells)
    PROVE  /\ Fits(d, A) /\ Expanded(d) = Expanded(c)
           /\ IsPool(d.pool)
<1> DEFINE letters == [i \in DOMAIN cells |-> IF IsCompressed(c.delta[cells[i]].val) THEN <<cells[i][2]>> ELSE <<>>]
           outs == [i \in DOMAIN cells |-> FullOutput(c, cells[i][1], cells[i][2])]
<1>1. PICK n \in Nat : DOMAIN cells = 1 .. n /\ \A i \in 1 .. n : cells[i] \in (0 .. c.n - 1) \X A
  BY LenProperties, ElementOfSeq
<1>2. IsPool(c.pool) /\ A \subseteq Nat
  BY DEF Fits
<1>3. letters \in Seq(Words)
  <2>1. ASSUME NEW i \in 1 .. n
        PROVE  letters[i] \in Words
    <3>1. cells[i][2] \in Nat
      BY <1>1, <1>2
    <3>2. <<cells[i][2]>> \in Words /\ <<>> \in Words
      BY <3>1 DEF Words
    <3> QED BY <1>1, <3>2
  <2>2. letters \in [1 .. n -> Words]
    BY <1>1, <2>1
  <2> QED BY ONLY <2>2, n \in Nat
<1>4. outs \in Seq(Words)
  <2>1. ASSUME NEW i \in 1 .. n
        PROVE  outs[i] \in Words
    <3>1. PICK k : k = cells[i]
      OBVIOUS
    <3>2. k \in (0 .. c.n - 1) \X A /\ k = <<k[1], k[2]>> /\ k[2] \in Nat
      <4>1. k \in (0 .. c.n - 1) \X A
        BY <1>1, <3>1
      <4>2. k[2] \in A
        BY ONLY <4>1
      <4>3. k = <<k[1], k[2]>>
        BY ONLY <4>1
      <4> QED BY <1>2, <4>1, <4>2, <4>3
    <3>3. PICK val : val = c.delta[k].val
      OBVIOUS
    <3>4. val \in Nat /\ CleanValue(val) \in Numbers(c.pool)
      BY <3>2, <3>3 DEF Fits
    <3>5. FullOutput(c, k[1], k[2]) = Output(c.pool, val, k[2])
      BY <3>2, <3>3 DEF FullOutput, Output, Word
    <3>6. Output(c.pool, val, k[2]) \in Words
      BY <1>2, <3>2, <3>4, OutputType
    <3> QED BY <1>1, <3>1, <3>5, <3>6
  <2>2. outs \in [1 .. n -> Words]
    BY <1>1, <2>1
  <2> HIDE DEF outs
  <2> QED BY ONLY <2>2, n \in Nat
<1>5. d = [c EXCEPT !.pool = Interned(Interned(c.pool, letters), outs)]
  BY DEF Materialized
<1> HIDE DEF letters, outs
<1>6. PICK mid, end : mid = Interned(c.pool, letters) /\ end = Interned(mid, outs)
  OBVIOUS
<1>7. IsPool(mid) /\ Grows(c.pool, mid)
  BY <1>2, <1>3, <1>6, InternedIs
<1>8. IsPool(end) /\ Grows(mid, end)
  BY <1>4, <1>6, <1>7, InternedIs
<1>9. Grows(c.pool, end)
  BY <1>2, <1>7, <1>8, GrowsOn
<1>10. d = [c EXCEPT !.pool = end]
  BY <1>5, <1>6
<1>11. Fits(d, A) /\ Expanded(d) = Expanded(c)
  BY <1>8, <1>9, <1>10, GrowingKeeps
<1> QED BY <1>11 DEF Fits

\* The f() that returns numbers only lets the pool grow.
LEMMA EvaluatedIs ==
    ASSUME NEW c, NEW A, Fits(c, A), NEW word \in Seq(A), NEW d, d = Evaluated(c, word)
    PROVE  Fits(d, A) /\ Expanded(d) = Expanded(c)
<1> DEFINE cells == [i \in DOMAIN word |-> <<Read(Expanded(c), 0, SubSeq(word, 1, i - 1)).at, word[i]>>]
<1>1. PICK t : t = Expanded(c)
  OBVIOUS
<1>2. IsTotal(t) /\ Alphabet(t) = A /\ States(t) = 0 .. c.n - 1 /\ 0 \in States(t)
  BY <1>1, ExpandedIsTotal, TotalProperties
<1>3. PICK n \in Nat : Len(word) = n /\ DOMAIN word = 1 .. n
  BY LenProperties
<1>4. ASSUME NEW i \in 1 .. n
      PROVE  <<Read(Expanded(c), 0, SubSeq(word, 1, i - 1)).at, word[i]>> \in (0 .. c.n - 1) \X A
  <2>1. PICK part : part = SubSeq(word, 1, i - 1)
    OBVIOUS
  <2>2. i - 1 \in Nat /\ i - 1 <= Len(word) /\ 1 \in Nat /\ 1 >= 1
    BY <1>3
  <2>3. part \in Seq(A)
    BY <2>1, <2>2, PartOver
  <2>4. Read(t, 0, part).at \in States(t)
    BY <1>2, <2>3, ReadType
  <2>5. word[i] \in A
    BY <1>3, ElementOfSeq
  <2> QED BY <1>1, <1>2, <2>1, <2>4, <2>5
<1>5. cells \in [1 .. n -> (0 .. c.n - 1) \X A]
  BY <1>3, <1>4
<1> HIDE DEF cells
<1>6. PICK S : S = (0 .. c.n - 1) \X A
  OBVIOUS
<1>7. cells \in Seq(S)
  BY ONLY <1>5, <1>6, n \in Nat
<1>8. d = Materialized(c, cells)
  BY DEF Evaluated, cells
<1> QED BY <1>6, <1>7, <1>8, MaterializedIs

\* The numbers the machine uses are numbers of words, and all of them are live.
LEMMA LiveIs ==
    ASSUME NEW c, NEW A, Fits(c, A), NEW live, live = Live(c)
    PROVE  /\ live \subseteq Numbers(c.pool) /\ live \in SUBSET (0 .. Len(c.pool) - 1)
           /\ 0 \in live /\ c.initialOut \in live
           /\ \A k \in DOMAIN c.delta : CleanValue(c.delta[k].val) \in live
           /\ \A q \in DOMAIN c.psi : c.psi[q] \in live
<1>1. IsPool(c.pool) /\ c.initialOut \in Numbers(c.pool)
  BY DEF Fits
<1>2. \A k \in DOMAIN c.delta : CleanValue(c.delta[k].val) \in Numbers(c.pool)
  BY DEF Fits
<1>3. \A q \in DOMAIN c.psi : c.psi[q] \in Numbers(c.pool)
  BY DEF Fits
<1>4. 0 \in Numbers(c.pool)
  BY <1>1, FlagBitAssumption DEF Numbers, IsPool
<1>5. live \subseteq Numbers(c.pool)
  BY <1>1, <1>2, <1>3, <1>4 DEF Live
<1>6. \A id \in Numbers(c.pool) : id \in 0 .. Len(c.pool) - 1
  BY <1>1, NumberedWord
<1> QED BY <1>5, <1>6 DEF Live

\* A member of a set of numbers has a rank that is not greater.
LEMMA RankBelow ==
    ASSUME NEW S \in SUBSET Nat, NEW n \in Nat
    PROVE  Rank(S, n) \in Nat /\ Rank(S, n) <= n
<1>1. {m \in S : m < n} \subseteq 0 .. n - 1
  <2>1. ASSUME NEW m \in S, m < n
        PROVE  m \in 0 .. n - 1
    <3>1. m \in Nat
      OBVIOUS
    <3> QED BY <2>1, <3>1
  <2> QED BY <2>1
<1>2. IsFiniteSet(0 .. n - 1) /\ Cardinality(0 .. n - 1) = n
  <2>1. IsFiniteSet(0 .. n - 1) /\ Cardinality(0 .. n - 1) = IF 0 > n - 1 THEN 0 ELSE (n - 1) - 0 + 1
    BY FS_Interval
  <2> QED BY <2>1
<1>3. IsFiniteSet({m \in S : m < n}) /\ Cardinality({m \in S : m < n}) <= n
  BY <1>1, <1>2, FS_Subset
<1> QED BY <1>3, FS_CardinalityType DEF Rank

\* Words that are used keep their numbers' words when the numbers close up.
LEMMA CompactedWords ==
    ASSUME NEW pool, IsPool(pool), NEW live, live \subseteq Numbers(pool), live \in SUBSET (0 .. Len(pool) - 1),
           0 \in live, NEW new, new = Pack(pool, live)
    PROVE  /\ IsPool(new)
           /\ \A id \in live : Rank(live, id) \in Numbers(new) /\ new[Rank(live, id) + 1] = pool[id + 1]
<1>1. /\ IsFiniteSet(live) /\ live \in SUBSET Nat
      /\ new \in Seq(Words) /\ Len(new) = Cardinality(live)
  BY PackProperties DEF IsPool
<1>2. new = [i \in 1 .. Cardinality(live) |-> pool[Nth(live, i - 1) + 1]]
  BY DEF Pack
<1>3. Cardinality(live) \in Nat
  BY <1>1, FS_CardinalityType
<1>4. ASSUME NEW id \in live
      PROVE  Rank(live, id) \in Numbers(new) /\ new[Rank(live, id) + 1] = pool[id + 1]
  <2>1. PICK r : r = Rank(live, id)
    OBVIOUS
  <2>2. r \in 0 .. Cardinality(live) - 1 /\ Nth(live, r) = id
    BY <1>1, <2>1, RankOfMember
  <2>3. id \in Nat /\ id < FlagBit /\ FlagBit \in Nat
    BY FlagBitAssumption DEF Numbers
  <2>4. r \in Nat /\ r <= id
    BY <1>1, <2>1, <2>3, RankBelow
  <2>5. r \in Numbers(new)
    BY <1>1, <1>3, <2>2, <2>3, <2>4 DEF Numbers
  <2>6. r + 1 \in 1 .. Cardinality(live) /\ (r + 1) - 1 = r
    BY <1>3, <2>2
  <2>7. new[r + 1] = pool[Nth(live, r) + 1]
    BY ONLY <1>2, <2>6
  <2> QED BY <2>1, <2>2, <2>5, <2>7
<1>5. Rank(live, 0) = 0
  <2>1. Rank(live, 0) \in Nat /\ Rank(live, 0) <= 0
    BY <1>1, RankBelow
  <2> QED BY <2>1
<1>6. Len(new) \in Nat /\ Len(new) >= 1 /\ new[1] = <<>>
  <2>1. 0 \in Numbers(new) /\ new[0 + 1] = pool[0 + 1]
    BY <1>4, <1>5
  <2>2. Len(new) >= 1
    BY <1>1, <1>3, <2>1 DEF Numbers
  <2> QED BY <1>1, <1>3, <2>1, <2>2 DEF IsPool
<1> QED BY <1>1, <1>4, <1>6 DEF IsPool
--------------------------------------------------------------------------------
(* compactLabels().                                                        *)

\* A number with its flag, when the numbers have closed up.
Renumbered(live, val) == PackValue(Rank(live, CleanValue(val)), IsCompressed(val))

ClosesUp(pool, live, new) ==
    /\ IsPool(pool)
    /\ live \subseteq Numbers(pool) /\ live \in SUBSET (0 .. Len(pool) - 1) /\ 0 \in live
    /\ new = Pack(pool, live)

\* A number keeps its word and its flag.
LEMMA RenumberedIs ==
    ASSUME NEW pool, NEW live, NEW new, ClosesUp(pool, live, new),
           NEW val \in Nat, CleanValue(val) \in live, NEW a
    PROVE  /\ Renumbered(live, val) \in Nat
           /\ CleanValue(Renumbered(live, val)) \in Numbers(new)
           /\ Output(new, Renumbered(live, val), a) = Output(pool, val, a)
<1>1. PICK id, flag, r : id = CleanValue(val) /\ flag = IsCompressed(val) /\ r = Rank(live, id)
  OBVIOUS
<1>2. id \in live /\ flag \in BOOLEAN
  BY <1>1, CleanIs
<1>3. r \in Numbers(new) /\ new[r + 1] = pool[id + 1]
  <2>1. \A m \in live : Rank(live, m) \in Numbers(new) /\ new[Rank(live, m) + 1] = pool[m + 1]
    BY CompactedWords DEF ClosesUp
  <2> QED BY <1>1, <1>2, <2>1
<1>4. r \in Nat /\ r < FlagBit
  BY <1>3 DEF Numbers
<1>5. /\ PackValue(r, flag) \in Nat
      /\ CleanValue(PackValue(r, flag)) = r
      /\ IsCompressed(PackValue(r, flag)) <=> flag
  BY <1>2, <1>4, FlagIs
<1>6. Renumbered(live, val) = PackValue(r, flag)
  BY <1>1 DEF Renumbered
<1>7. IsCompressed(Renumbered(live, val)) <=> IsCompressed(val)
  BY <1>1, <1>5, <1>6
<1>8. Output(new, Renumbered(live, val), a) = Output(pool, val, a)
  <2>1. CleanValue(Renumbered(live, val)) = r
    BY <1>5, <1>6
  <2> QED BY <1>1, <1>3, <1>7, <2>1 DEF Output
<1> QED BY <1>3, <1>5, <1>6, <1>8

\* CompactLabels() changes no word.
LEMMA CompactedIs ==
    ASSUME NEW c, NEW A, Fits(c, A), NEW d, d = CompactLabels(c)
    PROVE  Fits(d, A) /\ Expanded(d) = Expanded(c)
<1> DEFINE S == (0 .. c.n - 1) \X A
<1>1. PICK live, new : live = Live(c) /\ new = Pack(c.pool, live)
  OBVIOUS
<1>2. /\ c.n \in Nat \ {0} /\ A \subseteq Nat /\ IsFiniteSet(A) /\ IsPool(c.pool)
      /\ c.delta \in [S -> [val : Nat, next : 0 .. c.n - 1]] /\ DOMAIN c.delta = S
      /\ DOMAIN c.psi = 0 .. c.n - 1
  BY DEF Fits
<1>3. /\ live \subseteq Numbers(c.pool) /\ live \in SUBSET (0 .. Len(c.pool) - 1)
      /\ 0 \in live /\ c.initialOut \in live
      /\ \A k \in S : CleanValue(c.delta[k].val) \in live
      /\ \A q \in 0 .. c.n - 1 : c.psi[q] \in live
  BY <1>1, <1>2, LiveIs
<1>4. d = Compressed(c.n,
                     [k \in S |-> [c.delta[k] EXCEPT !.val = PackValue(Rank(live, CleanValue(@)), IsCompressed(@))]],
                     [q \in 0 .. c.n - 1 |-> Rank(live, c.psi[q])], Rank(live, c.initialOut), new)
  BY <1>1, <1>2 DEF CompactLabels
<1>5. /\ d.n = c.n /\ d.pool = new /\ d.initialOut = Rank(live, c.initialOut)
      /\ d.psi = [q \in 0 .. c.n - 1 |-> Rank(live, c.psi[q])]
      /\ d.delta = [k \in S |-> [c.delta[k] EXCEPT !.val = PackValue(Rank(live, CleanValue(@)), IsCompressed(@))]]
      /\ d = Compressed(d.n, d.delta, d.psi, d.initialOut, d.pool)
  BY ONLY <1>4 DEF Compressed
<1>6. IsPool(new) /\ \A id \in live : Rank(live, id) \in Numbers(new) /\ new[Rank(live, id) + 1] = c.pool[id + 1]
  BY <1>1, <1>2, <1>3, CompactedWords
<1>7. ASSUME NEW k \in S
      PROVE  /\ d.delta[k].val = Renumbered(live, c.delta[k].val) /\ d.delta[k].next = c.delta[k].next
             /\ d.delta[k] \in [val : {d.delta[k].val}, next : 0 .. c.n - 1]
             /\ c.delta[k].val \in Nat
  <2>1. c.delta[k] \in [val : Nat, next : 0 .. c.n - 1]
    BY <1>2
  <2>2. d.delta[k] = [c.delta[k] EXCEPT !.val = PackValue(Rank(live, CleanValue(@)), IsCompressed(@))]
    BY <1>5
  <2> QED BY ONLY <2>1, <2>2 DEF Renumbered
<1>8. ASSUME NEW k \in S
      PROVE  /\ Renumbered(live, c.delta[k].val) \in Nat
             /\ CleanValue(Renumbered(live, c.delta[k].val)) \in Numbers(new)
             /\ Output(new, Renumbered(live, c.delta[k].val), k[2]) = Output(c.pool, c.delta[k].val, k[2])
  <2>1. PICK val, a, pool : val = c.delta[k].val /\ a = k[2] /\ pool = c.pool
    OBVIOUS
  <2>2. val \in Nat /\ CleanValue(val) \in live /\ ClosesUp(pool, live, new)
    BY <1>1, <1>2, <1>3, <1>7, <2>1 DEF ClosesUp
  <2>3. /\ Renumbered(live, val) \in Nat
        /\ CleanValue(Renumbered(live, val)) \in Numbers(new)
        /\ Output(new, Renumbered(live, val), a) = Output(pool, val, a)
    BY ONLY <2>2, RenumberedIs
  <2> QED BY <2>1, <2>3
<1>9. d.delta \in [S -> [val : Nat, next : 0 .. c.n - 1]] /\ DOMAIN d.delta = S
  <2>1. \A k \in S : d.delta[k] \in [val : Nat, next : 0 .. c.n - 1]
    BY <1>7, <1>8
  <2>2. d.delta = [k \in S |-> d.delta[k]]
    BY <1>5
  <2> QED BY ONLY <2>1, <2>2
<1>10. \A k \in S : CleanValue(d.delta[k].val) \in Numbers(d.pool)
  BY <1>5, <1>7, <1>8
<1>11. d.psi \in [0 .. c.n - 1 -> Numbers(d.pool)]
  BY <1>3, <1>5, <1>6
<1>12. Fits(d, A)
  <2>1. d.delta \in [(0 .. d.n - 1) \X A -> [val : Nat, next : 0 .. d.n - 1]] /\ d.psi \in [0 .. d.n - 1 -> Numbers(d.pool)]
    BY <1>5, <1>9, <1>11
  <2>2. d.n \in Nat \ {0} /\ IsPool(d.pool) /\ d.initialOut \in Numbers(d.pool)
    BY <1>2, <1>3, <1>5, <1>6
  <2> QED BY <1>2, <1>5, <1>9, <1>10, <2>1, <2>2 DEF Fits
<1>13. \A k \in S :
          /\ Output(d.pool, d.delta[k].val, k[2]) = Output(c.pool, c.delta[k].val, k[2])
          /\ d.delta[k].next = c.delta[k].next
  BY <1>5, <1>7, <1>8
<1>14. \A q \in 0 .. c.n - 1 : d.pool[d.psi[q] + 1] = c.pool[c.psi[q] + 1]
  BY <1>3, <1>5, <1>6
<1>15. d.pool[d.initialOut + 1] = c.pool[c.initialOut + 1]
  BY <1>3, <1>5, <1>6
<1> HIDE DEF S
<1>16. \A k \in (0 .. c.n - 1) \X A :
          /\ Output(d.pool, d.delta[k].val, k[2]) = Output(c.pool, c.delta[k].val, k[2])
          /\ d.delta[k].next = c.delta[k].next
  BY <1>13 DEF S
<1> QED BY <1>5, <1>12, <1>14, <1>15, <1>16, SameWords
--------------------------------------------------------------------------------
(* The builders.                                                           *)

\* A letter at the end of a word is left out and put back.
LEMMA StoredIs ==
    ASSUME NEW word \in Words, NEW x \in Nat
    PROVE  /\ Stored(x, word) \in Words
           /\ Stored(x, word) \o (IF EndsWithSymbol(word, x) THEN <<x>> ELSE <<>>) = word
           /\ EndsWithSymbol(word, x) \in BOOLEAN
<1>1. EndsWithSymbol(word, x) \in BOOLEAN
  BY DEF EndsWithSymbol
<1>2. PICK n \in Nat : Len(word) = n /\ DOMAIN word = 1 .. n /\ word \in [1 .. n -> Nat]
  BY LenProperties DEF Words
<1>3. CASE EndsWithSymbol(word, x)
  <2>1. n >= 1 /\ word[n] = x
    <3>1. word # <<>> /\ word[Len(word)] = x
      BY <1>3 DEF EndsWithSymbol, Last
    <3>2. n # 0
      BY <1>2, <3>1 DEF Words
    <3> QED BY <1>2, <3>1, <3>2
  <2>2. PICK front : front = Stored(x, word)
    OBVIOUS
  <2>3. front = SubSeq(word, 1, n - 1)
    BY <1>2, <1>3, <2>2 DEF Stored, Front
  <2>4. front = [i \in 1 .. n - 1 |-> word[i]]
    BY <1>2, <2>1, <2>3 DEF Words
  <2>5. front \in [1 .. n - 1 -> Nat] /\ n - 1 \in Nat
    BY <1>2, <2>1, <2>4
  <2>6. front \in Seq(Nat) /\ Len(front) = n - 1
    BY ONLY <2>5
  <2>7. PICK last : last = <<x>>
    OBVIOUS
  <2>8. last \in Seq(Nat) /\ Len(last) = 1 /\ last[1] = x
    BY <2>7
  <2>9. PICK both : both = front \o last
    OBVIOUS
  <2>10. /\ both \in Seq(Nat) /\ Len(both) = (n - 1) + 1
         /\ \A i \in 1 .. n : both[i] = IF i <= n - 1 THEN front[i] ELSE last[i - (n - 1)]
    <3>1. /\ both \in Seq(Nat) /\ Len(both) = Len(front) + Len(last)
          /\ \A i \in 1 .. Len(front) + Len(last) : both[i] = IF i <= Len(front) THEN front[i] ELSE last[i - Len(front)]
      BY <2>6, <2>8, <2>9, ConcatProperties
    <3>2. (n - 1) + 1 = n
      BY <2>1
    <3> QED BY ONLY <2>6, <2>8, <3>1, <3>2
  <2>11. Len(both) = n
    BY <2>10
  <2>12. \A i \in 1 .. n : both[i] = word[i]
    <3> TAKE i \in 1 .. n
    <3>1. CASE i <= n - 1
      <4>1. i \in 1 .. n - 1
        BY <3>1
      <4> QED BY <2>4, <2>10, <4>1
    <3>2. CASE i = n
      <4>1. ~(i <= n - 1) /\ i - (n - 1) = 1
        BY <3>2
      <4>2. both[i] = last[1]
        BY <2>10, <4>1
      <4> QED BY <2>1, <2>8, <3>2, <4>2
    <3> QED BY <3>1, <3>2
  <2>13. both = word
    BY <1>2, <2>10, <2>11, <2>12, SeqEqual DEF Words
  <2> QED BY <1>1, <1>3, <2>2, <2>6, <2>7, <2>9, <2>13 DEF Words
<1>4. CASE ~EndsWithSymbol(word, x)
  <2>1. Stored(x, word) = word
    BY <1>4 DEF Stored
  <2>2. word \o <<>> = word
    BY DEF Words
  <2> QED BY <1>1, <1>4, <2>1, <2>2
<1> QED BY <1>3, <1>4

\* A construction puts into the pool all that a transducer writes.
Supplies(pool, t) ==
    /\ IsPool(pool)
    /\ Holds(pool, t.initialOut)
    /\ \A q \in States(t) : Holds(pool, t.psi[q])
    /\ \A q \in States(t), a \in Alphabet(t) : Holds(pool, Stored(a, t.delta[<<q, a>>].out))

\* Built() puts all of it into the pool, and its numbers are those of the pool.
LEMMA SuppliesAll ==
    ASSUME NEW t, IsTotal(t), NEW pool, IsPool(pool), NEW c, c = Built(t, pool)
    PROVE  /\ Supplies(c.pool, t) /\ c.n = t.n /\ c.initialOut = Id(c.pool, t.initialOut)
           /\ c.delta = [k \in DOMAIN t.delta |-> AddTransition(c.pool, k[2], t.delta[k].out, t.delta[k].to)]
           /\ c.psi = [q \in DOMAIN t.psi |-> Id(c.pool, t.psi[q])]
           /\ c = Compressed(c.n, c.delta, c.psi, c.initialOut, c.pool)
<1> DEFINE cells == Cells(t.n, Alphabet(t))
           outs == [i \in DOMAIN cells |-> t.delta[cells[i]].out]
           parts == [i \in DOMAIN cells |-> Stored(cells[i][2], outs[i])]
           psis == [i \in 1 .. t.n |-> t.psi[i - 1]]
           with == Interned(Interned(Interned(Interned(pool, <<t.initialOut>>), psis), outs), parts)
<1>1. /\ c = Compressed(t.n, [k \in DOMAIN t.delta |-> AddTransition(with, k[2], t.delta[k].out, t.delta[k].to)],
                        [q \in DOMAIN t.psi |-> Id(with, t.psi[q])], Id(with, t.initialOut), with)
  BY DEF Built
<1>2. t.n \in Nat \ {0} /\ Alphabet(t) \in SUBSET Nat /\ IsFiniteSet(Alphabet(t)) /\ States(t) = 0 .. t.n - 1
  BY DEF IsTotal, States
<1>3. /\ t.initialOut \in Words
      /\ \A q \in States(t) : t.psi[q] \in Words
      /\ \A q \in States(t), a \in Alphabet(t) : t.delta[<<q, a>>].out \in Words
  BY TotalProperties
<1>4. PICK n \in Nat : /\ cells \in Seq((0 .. t.n - 1) \X Alphabet(t)) /\ Len(cells) = n /\ DOMAIN cells = 1 .. n
                       /\ \A q \in States(t), a \in Alphabet(t) : \E i \in 1 .. n : cells[i] = <<q, a>>
  <2>1. PICK cs, m, L : cs = cells /\ m = t.n /\ L = Alphabet(t)
    OBVIOUS
  <2>2. m \in Nat /\ L \in SUBSET Nat /\ IsFiniteSet(L) /\ cs = Cells(m, L)
    BY <1>2, <2>1
  <2>3. ListsAll(m, L, cs)
    BY <2>2, CellsAre
  <2>4. /\ cs \in Seq((0 .. m - 1) \X L) /\ Len(cs) \in Nat
        /\ \A q \in 0 .. m - 1, a \in L : \E i \in 1 .. Len(cs) : cs[i] = <<q, a>>
    BY ONLY <2>3 DEF ListsAll
  <2>5. DOMAIN cs = 1 .. Len(cs)
    BY ONLY <2>4
  <2> HIDE DEF cells
  <2>6. /\ cells \in Seq((0 .. t.n - 1) \X Alphabet(t)) /\ Len(cells) \in Nat /\ DOMAIN cells = 1 .. Len(cells)
        /\ \A q \in States(t), a \in Alphabet(t) : \E i \in 1 .. Len(cells) : cells[i] = <<q, a>>
    BY ONLY <1>2, <2>1, <2>4, <2>5
  <2> QED BY ONLY <2>6
<1> HIDE DEF cells
<1>5. ASSUME NEW i \in 1 .. n
      PROVE  outs[i] \in Words /\ parts[i] \in Words
  <2>1. cells[i] \in (0 .. t.n - 1) \X Alphabet(t)
    BY <1>4, ElementOfSeq
  <2>2. PICK q \in States(t), a \in Alphabet(t) : cells[i] = <<q, a>>
    BY <1>2, <2>1
  <2>3. outs[i] = t.delta[<<q, a>>].out /\ parts[i] = Stored(a, outs[i])
    <3>1. outs[i] = t.delta[cells[i]].out
      BY <1>4
    <3>2. parts[i] = Stored(cells[i][2], outs[i])
      BY <1>4
    <3> HIDE DEF outs, parts
    <3> QED BY ONLY <2>2, <3>1, <3>2
  <2>4. t.delta[<<q, a>>].out \in Words /\ a \in Nat
    BY <1>2, <1>3
  <2>5. PICK word : word = t.delta[<<q, a>>].out
    OBVIOUS
  <2>6. word \in Words /\ Stored(a, word) \in Words
    BY <2>4, <2>5, StoredIs
  <2> QED BY <2>3, <2>5, <2>6
<1>6. outs \in [1 .. n -> Words] /\ parts \in [1 .. n -> Words]
  BY <1>4, <1>5
<1>7. psis \in [1 .. t.n -> Words]
  <2>1. \A i \in 1 .. t.n : i - 1 \in States(t)
    BY <1>2
  <2> QED BY <1>3, <2>1
<1>8. \A q \in States(t) : q + 1 \in 1 .. t.n /\ psis[q + 1] = t.psi[q]
  BY <1>2
<1>9. ASSUME NEW q \in States(t), NEW a \in Alphabet(t)
      PROVE  \E i \in 1 .. n : parts[i] = Stored(a, t.delta[<<q, a>>].out)
  <2>1. PICK i \in 1 .. n : cells[i] = <<q, a>>
    BY <1>4
  <2> QED BY <1>4, <2>1
<1> HIDE DEF outs, parts, psis
<1>10. /\ outs \in Seq(Words) /\ Len(outs) = n /\ parts \in Seq(Words) /\ Len(parts) = n
       /\ psis \in Seq(Words) /\ Len(psis) = t.n
  BY ONLY <1>2, <1>6, <1>7, n \in Nat
<1>11. PICK first : first = <<t.initialOut>>
  OBVIOUS
<1>12. first \in Seq(Words) /\ Len(first) = 1 /\ first[1] = t.initialOut
  BY <1>3, <1>11
<1>13. PICK p1, p2, p3, p4 : /\ p1 = Interned(pool, first) /\ p2 = Interned(p1, psis)
                            /\ p3 = Interned(p2, outs) /\ p4 = Interned(p3, parts)
  OBVIOUS
<1>14. with = p4
  BY <1>11, <1>13
<1> HIDE DEF with
<1>15. IsPool(p1) /\ \A j \in 1 .. Len(first) : Holds(p1, first[j])
  BY <1>12, <1>13, InternedIs
<1>16. IsPool(p2) /\ (\A j \in 1 .. Len(psis) : Holds(p2, psis[j])) /\ \A word : Holds(p1, word) => Holds(p2, word)
  BY <1>10, <1>13, <1>15, InternedIs, InternedHolds
<1>17. IsPool(p3) /\ \A word : Holds(p2, word) => Holds(p3, word)
  BY <1>10, <1>13, <1>16, InternedIs, InternedHolds
<1>18. IsPool(p4) /\ (\A j \in 1 .. Len(parts) : Holds(p4, parts[j])) /\ \A word : Holds(p3, word) => Holds(p4, word)
  BY <1>10, <1>13, <1>17, InternedIs, InternedHolds
<1>19. Holds(p4, t.initialOut)
  BY <1>12, <1>15, <1>16, <1>17, <1>18
<1>20. \A q \in States(t) : Holds(p4, t.psi[q])
  BY <1>8, <1>10, <1>16, <1>17, <1>18
<1>21. \A q \in States(t), a \in Alphabet(t) : Holds(p4, Stored(a, t.delta[<<q, a>>].out))
  BY <1>9, <1>10, <1>18
<1>22. Supplies(p4, t)
  BY ONLY <1>18, <1>19, <1>20, <1>21 DEF Supplies
<1>23. c = Compressed(t.n, [k \in DOMAIN t.delta |-> AddTransition(p4, k[2], t.delta[k].out, t.delta[k].to)],
                      [q \in DOMAIN t.psi |-> Id(p4, t.psi[q])], Id(p4, t.initialOut), p4)
  BY <1>1, <1>14
<1>24. c.pool = p4
  BY ONLY <1>23 DEF Compressed
<1> QED BY ONLY <1>22, <1>23, <1>24 DEF Compressed
--------------------------------------------------------------------------------
(* What was built stands for what it was built from.                       *)

\* A word of a pool that leaves the flag free has a number that can be used.
LEMMA NumberOfWord ==
    ASSUME NEW pool, IsPool(pool), Len(pool) <= FlagBit, NEW word, Holds(pool, word)
    PROVE  Id(pool, word) \in Numbers(pool) /\ pool[Id(pool, word) + 1] = word
<1>1. Id(pool, word) \in 0 .. Len(pool) - 1 /\ pool[Id(pool, word) + 1] = word /\ Len(pool) \in Nat
  BY IdIs DEF IsPool
<1>2. Id(pool, word) \in Nat /\ Id(pool, word) < Len(pool) /\ Id(pool, word) < FlagBit
  BY <1>1, FlagBitAssumption
<1> QED BY <1>1, <1>2 DEF Numbers

\* An output that is added stands for itself.
LEMMA AddedTransition ==
    ASSUME NEW pool, IsPool(pool), Len(pool) <= FlagBit, NEW x \in Nat, NEW word \in Words, Holds(pool, Stored(x, word)),
           NEW val, val = PackValue(Id(pool, Stored(x, word)), EndsWithSymbol(word, x))
    PROVE  val \in Nat /\ CleanValue(val) \in Numbers(pool) /\ Output(pool, val, x) = word
<1>1. PICK id, flag : id = Id(pool, Stored(x, word)) /\ flag = EndsWithSymbol(word, x)
  OBVIOUS
<1>2. id \in Numbers(pool) /\ pool[id + 1] = Stored(x, word)
  BY <1>1, NumberOfWord
<1>3. flag \in BOOLEAN /\ Stored(x, word) \o (IF flag THEN <<x>> ELSE <<>>) = word
  BY <1>1, StoredIs
<1>4. id \in Nat /\ id < FlagBit
  BY <1>2 DEF Numbers
<1>5. val \in Nat /\ CleanValue(val) = id /\ (IsCompressed(val) <=> flag)
  BY <1>1, <1>3, <1>4, FlagIs
<1> QED BY <1>2, <1>3, <1>5 DEF Output

\* What a construction makes of a transducer stands for that transducer.
LEMMA BuiltIs ==
    ASSUME NEW t, IsTotal(t), NEW pool, IsPool(pool), NEW c, c = Built(t, pool), LeavesTheFlag(c)
    PROVE  Fits(c, Alphabet(t)) /\ IsExpansion(c, Alphabet(t), t)
<1>1. PICK p, S : p = c.pool /\ S = States(t) \X Alphabet(t)
  OBVIOUS
<1>2. /\ Supplies(p, t) /\ c.n = t.n /\ c.initialOut = Id(p, t.initialOut)
      /\ c.delta = [k \in DOMAIN t.delta |-> AddTransition(p, k[2], t.delta[k].out, t.delta[k].to)]
      /\ c.psi = [q \in DOMAIN t.psi |-> Id(p, t.psi[q])]
      /\ c = Compressed(c.n, c.delta, c.psi, c.initialOut, c.pool)
  BY <1>1, SuppliesAll
<1>3. IsPool(p) /\ Len(p) <= FlagBit
  BY <1>1, <1>2 DEF Supplies, LeavesTheFlag
<1>4. /\ t.n \in Nat \ {0} /\ Alphabet(t) \subseteq Nat /\ IsFiniteSet(Alphabet(t)) /\ States(t) = 0 .. t.n - 1
      /\ t.delta \in [S -> [out : Seq(Nat), to : States(t)]] /\ DOMAIN t.delta = S
      /\ t.psi \in [States(t) -> Seq(Nat)] /\ DOMAIN t.psi = States(t)
  BY <1>1 DEF IsTotal, States
<1>5. c.initialOut \in Numbers(p) /\ p[c.initialOut + 1] = t.initialOut
  BY <1>2, <1>3, NumberOfWord DEF Supplies
<1>6. \A q \in States(t) : c.psi[q] = Id(p, t.psi[q])
  BY ONLY <1>2, <1>4
<1>7. \A q \in States(t) : c.psi[q] \in Numbers(p) /\ p[c.psi[q] + 1] = t.psi[q]
  BY <1>2, <1>3, <1>6, NumberOfWord DEF Supplies
<1>8. c.psi \in [States(t) -> Numbers(p)]
  <2>1. c.psi = [q \in States(t) |-> c.psi[q]]
    BY ONLY <1>2, <1>4
  <2> QED BY ONLY <1>7, <2>1
<1>9. t.psi = [q \in States(t) |-> p[c.psi[q] + 1]]
  BY ONLY <1>4, <1>7
<1>10. ASSUME NEW k \in S
       PROVE  /\ c.delta[k] = [val |-> c.delta[k].val, next |-> t.delta[k].to]
              /\ c.delta[k].val \in Nat /\ CleanValue(c.delta[k].val) \in Numbers(p)
              /\ Output(p, c.delta[k].val, k[2]) = t.delta[k].out
              /\ t.delta[k].to \in States(t)
  <2>1. PICK q \in States(t), a \in Alphabet(t) : k = <<q, a>>
    BY <1>1
  <2>2. PICK word, to : word = t.delta[k].out /\ to = t.delta[k].to
    OBVIOUS
  <2>3. word \in Words /\ to \in States(t) /\ a \in Nat /\ k[2] = a
    BY <1>4, <2>1, <2>2 DEF Words
  <2>4. Holds(p, Stored(a, word))
    BY <1>2, <2>1, <2>2 DEF Supplies
  <2>5. c.delta[k] = AddTransition(p, k[2], t.delta[k].out, t.delta[k].to)
    BY ONLY <1>2, <1>4, k \in S
  <2>6. c.delta[k] = AddTransition(p, a, word, to)
    BY ONLY <2>2, <2>3, <2>5
  <2>7. PICK val : val = PackValue(Id(p, Stored(a, word)), EndsWithSymbol(word, a))
    OBVIOUS
  <2>8. c.delta[k] = [val |-> val, next |-> to]
    BY ONLY <2>6, <2>7 DEF AddTransition
  <2>9. val \in Nat /\ CleanValue(val) \in Numbers(p) /\ Output(p, val, a) = word
    BY <1>3, <2>3, <2>4, <2>7, AddedTransition
  <2>10. c.delta[k].val = val /\ c.delta[k] = [val |-> c.delta[k].val, next |-> to]
    BY ONLY <2>8
  <2> QED BY ONLY <2>2, <2>3, <2>9, <2>10
<1>11. c.delta = [k \in S |-> c.delta[k]]
  BY ONLY <1>2, <1>4
<1>12. c.delta \in [S -> [val : Nat, next : States(t)]] /\ DOMAIN c.delta = S
  <2>1. ASSUME NEW k \in S
        PROVE  c.delta[k] \in [val : Nat, next : States(t)]
    <3>1. PICK val, to : val = c.delta[k].val /\ to = t.delta[k].to
      OBVIOUS
    <3>2. c.delta[k] = [val |-> val, next |-> to]
      BY <1>10, <3>1
    <3>3. val \in Nat /\ to \in States(t)
      BY <1>10, <3>1
    <3> QED BY ONLY <3>2, <3>3
  <2> QED BY ONLY <1>11, <2>1
<1>13. ASSUME NEW k \in S
       PROVE  t.delta[k] = [out |-> Output(p, c.delta[k].val, k[2]), to |-> c.delta[k].next]
  <2>1. t.delta[k] \in [out : Seq(Nat), to : States(t)]
    BY <1>4
  <2>2. t.delta[k] = [out |-> t.delta[k].out, to |-> t.delta[k].to]
    BY ONLY <2>1
  <2>3. c.delta[k].next = t.delta[k].to /\ Output(p, c.delta[k].val, k[2]) = t.delta[k].out
    <3>1. c.delta[k] = [val |-> c.delta[k].val, next |-> t.delta[k].to]
      BY <1>10
    <3> QED BY <1>10, <3>1
  <2> QED BY ONLY <2>2, <2>3
<1>14. t.delta = [k \in S |-> [out |-> Output(p, c.delta[k].val, k[2]), to |-> c.delta[k].next]]
  <2>1. t.delta = [k \in S |-> t.delta[k]]
    BY ONLY <1>4
  <2> QED BY ONLY <1>13, <2>1
<1>15. S = (0 .. c.n - 1) \X Alphabet(t) /\ States(t) = 0 .. c.n - 1
  BY ONLY <1>1, <1>2, <1>4
<1>16. Fits(c, Alphabet(t))
  <2>1. c.delta \in [(0 .. c.n - 1) \X Alphabet(t) -> [val : Nat, next : 0 .. c.n - 1]]
    BY ONLY <1>12, <1>15
  <2>2. \A k \in DOMAIN c.delta : CleanValue(c.delta[k].val) \in Numbers(c.pool)
    BY <1>1, <1>10, <1>12
  <2>3. c.psi \in [0 .. c.n - 1 -> Numbers(c.pool)] /\ c.initialOut \in Numbers(c.pool) /\ IsPool(c.pool)
    BY ONLY <1>1, <1>3, <1>5, <1>8, <1>15
  <2>4. Alphabet(t) \subseteq Nat /\ IsFiniteSet(Alphabet(t)) /\ c.n \in Nat \ {0}
    BY ONLY <1>2, <1>4
  <2>5. c = Compressed(c.n, c.delta, c.psi, c.initialOut, c.pool)
    BY <1>2
  <2> QED BY ONLY <2>1, <2>2, <2>3, <2>4, <2>5 DEF Fits
<1>17. IsExpansion(c, Alphabet(t), t)
  BY ONLY <1>1, <1>2, <1>5, <1>9, <1>14, <1>15 DEF IsExpansion
<1> QED BY ONLY <1>16, <1>17

\* Two transducers that are made of the same parts.
IsRecord(t) == t = Total(t.n, t.delta, t.psi, t.initialOut)

\* Only one transducer is made of those parts.
LEMMA ExpansionIsUnique ==
    ASSUME NEW c, NEW A, NEW t, NEW u, IsRecord(t), IsRecord(u), IsExpansion(c, A, t), IsExpansion(c, A, u)
    PROVE  t = u
<1>1. t.n = u.n /\ t.delta = u.delta /\ t.psi = u.psi /\ t.initialOut = u.initialOut
  BY DEF IsExpansion
<1> QED BY ONLY IsRecord(t), IsRecord(u), <1>1 DEF IsRecord

\* So it stands for exactly that transducer.
LEMMA BuiltExpands ==
    ASSUME NEW t, IsTotal(t), IsRecord(t), NEW pool, IsPool(pool), NEW c, c = Built(t, pool), LeavesTheFlag(c)
    PROVE  Fits(c, Alphabet(t)) /\ Expanded(c) = t
<1>1. PICK u, A : u = Expanded(c) /\ A = Alphabet(t)
  OBVIOUS
<1>2. Fits(c, A) /\ IsExpansion(c, A, t)
  BY <1>1, BuiltIs
<1>3. IsExpansion(c, A, u)
  BY <1>1, <1>2, ExpandedIs
<1>4. IsRecord(u)
  BY <1>1 DEF IsRecord, Expanded, Total
<1> QED BY <1>1, <1>2, <1>3, <1>4, ExpansionIsUnique
--------------------------------------------------------------------------------
(* Trimming.                                                               *)

\* A set of states that holds the first one and all that follow those in it.
IsKept(t, kept) ==
    /\ kept \subseteq States(t) /\ kept \in SUBSET Nat /\ IsFiniteSet(kept) /\ 0 \in kept
    /\ \A q \in kept, a \in Alphabet(t) : ToOf(t, q, a) \in kept

\* The states that can be reached are such a set.
LEMMA ReachedIs ==
    ASSUME NEW t, IsTotal(t), NEW kept, kept = Reached(t)
    PROVE  IsKept(t, kept)
<1> DEFINE S == States(t)
           next == [q \in S |-> {ToOf(t, q, a) : a \in Alphabet(t)}]
<1>1. PICK order : order = Found(next, 0)
  OBVIOUS
<1>2. kept = Range(order)
  <2>1. next = [q \in States(t) |-> {t.delta[<<q, a>>].to : a \in Alphabet(t)}]
    BY DEF ToOf
  <2> QED BY <1>1, <2>1 DEF Reached
<1>3. S = 0 .. t.n - 1 /\ t.n \in Nat \ {0} /\ IsFiniteSet(S) /\ 0 \in S
  <2>1. S = 0 .. t.n - 1 /\ t.n \in Nat \ {0}
    BY DEF IsTotal, States
  <2> QED BY <2>1, FS_Interval
<1>4. \A q \in S, a \in Alphabet(t) : ToOf(t, q, a) \in S
  BY PartsType
<1>5. next \in [S -> SUBSET S]
  BY <1>4
<1> HIDE DEF S
<1>6. /\ order \in Seq(S) /\ Len(order) >= 1 /\ order[1] = 0
      /\ IsClosed(next, order)
  <2> HIDE DEF next
  <2> QED BY <1>1, <1>3, <1>5, FoundIsClosed
<1>7. Len(order) \in Nat /\ DOMAIN order = 1 .. Len(order) /\ kept = {order[i] : i \in 1 .. Len(order)}
  <2>1. Len(order) \in Nat /\ DOMAIN order = 1 .. Len(order)
    BY <1>6, LenProperties
  <2> QED BY <1>2, <2>1 DEF Range
<1>8. kept \subseteq S
  BY <1>6, <1>7, ElementOfSeq
<1>9. 0 \in kept
  <2>1. 1 \in 1 .. Len(order)
    BY <1>6, <1>7
  <2> QED BY <1>6, <1>7, <2>1
<1>10. ASSUME NEW q \in kept, NEW a \in Alphabet(t)
       PROVE  ToOf(t, q, a) \in kept
  <2>1. PICK j \in 1 .. Len(order) : order[j] = q
    BY <1>7
  <2>2. PICK to : to = ToOf(t, q, a)
    OBVIOUS
  <2>3. to \in next[q]
    BY <1>8, <2>2
  <2> HIDE DEF next
  <2>4. to \in next[order[j]]
    BY <2>1, <2>3
  <2>5. \E k \in 1 .. Len(order) : order[k] = to
    BY <1>6, <2>4 DEF IsClosed
  <2> QED BY <1>7, <2>2, <2>5
<1>11. IsFiniteSet(kept) /\ kept \in SUBSET Nat
  <2>1. S \subseteq Nat
    BY <1>3
  <2> QED BY <1>3, <1>8, <2>1, FS_Subset
<1> QED BY <1>8, <1>9, <1>10, <1>11 DEF IsKept, S

\* What is left when only a part of the states is kept.
IsPart(t, kept, r) ==
    /\ r.n = Cardinality(kept)
    /\ r.delta = [k \in (0 .. Cardinality(kept) - 1) \X Alphabet(t) |->
                     [out |-> OutOf(t, Nth(kept, k[1]), k[2]), to |-> Rank(kept, ToOf(t, Nth(kept, k[1]), k[2]))]]
    /\ r.psi = [i \in 0 .. Cardinality(kept) - 1 |-> PsiOf(t, Nth(kept, i))]
    /\ r.initialOut = InitialOf(t)
    /\ IsRecord(r)

\* Trim() keeps the states that can be reached.
LEMMA TrimIs ==
    ASSUME NEW t, NEW r, r = Trim(t)
    PROVE  IsPart(t, Reached(t), r)
BY DEF Trim, Total, IsPart, IsRecord, OutOf, ToOf, PsiOf, InitialOf

\* A kept state has a new number, and the first is still the first.
LEMMA KeptNumbers ==
    ASSUME NEW t, NEW kept, IsKept(t, kept)
    PROVE  /\ Cardinality(kept) \in Nat \ {0}
           /\ \A i \in 0 .. Cardinality(kept) - 1 : Nth(kept, i) \in kept
           /\ \A q \in kept : Rank(kept, q) \in 0 .. Cardinality(kept) - 1 /\ Nth(kept, Rank(kept, q)) = q
           /\ Nth(kept, 0) = 0
<1>1. kept \in SUBSET Nat /\ IsFiniteSet(kept) /\ 0 \in kept
  BY DEF IsKept
<1>2. \A q \in kept : Rank(kept, q) \in 0 .. Cardinality(kept) - 1 /\ Nth(kept, Rank(kept, q)) = q
  BY <1>1, RankOfMember
<1>3. \A i \in 0 .. Cardinality(kept) - 1 : Nth(kept, i) \in kept
  BY <1>1, NthProperties
<1>4. Cardinality(kept) \in Nat \ {0}
  BY <1>1, FS_CardinalityType, FS_EmptySet
<1>5. Rank(kept, 0) = 0
  <2>1. Rank(kept, 0) \in Nat /\ Rank(kept, 0) <= 0
    BY <1>1, RankBelow
  <2> QED BY <2>1
<1>6. Nth(kept, 0) = 0
  BY <1>1, <1>2, <1>5
<1> QED BY <1>2, <1>3, <1>4, <1>6

\* The part of a total transducer that is kept is total, and does what it did.
LEMMA PartIsTotal ==
    ASSUME NEW t, IsTotal(t), NEW kept, IsKept(t, kept), NEW r, IsPart(t, kept, r)
    PROVE  IsTotal(r) /\ Alphabet(r) = Alphabet(t) /\ States(r) = 0 .. Cardinality(kept) - 1
<1>1. PICK m, A : m = Cardinality(kept) /\ A = Alphabet(t)
  OBVIOUS
<1>2. m \in Nat \ {0} /\ (\A i \in 0 .. m - 1 : Nth(kept, i) \in kept) /\ \A q \in kept : Rank(kept, q) \in 0 .. m - 1
  BY <1>1, KeptNumbers
<1>3. /\ r.n = m
      /\ r.delta = [k \in (0 .. m - 1) \X A |->
                       [out |-> OutOf(t, Nth(kept, k[1]), k[2]), to |-> Rank(kept, ToOf(t, Nth(kept, k[1]), k[2]))]]
      /\ r.psi = [i \in 0 .. m - 1 |-> PsiOf(t, Nth(kept, i))]
      /\ r.initialOut = InitialOf(t)
  BY <1>1 DEF IsPart
<1>4. A \subseteq Nat /\ IsFiniteSet(A)
  BY <1>1 DEF IsTotal
<1>5. /\ \A q \in kept, a \in A : OutOf(t, q, a) \in Seq(Nat) /\ ToOf(t, q, a) \in kept
      /\ \A q \in kept : PsiOf(t, q) \in Seq(Nat)
      /\ InitialOf(t) \in Seq(Nat)
  BY <1>1, PartsType DEF IsKept, Words
<1>6. ASSUME NEW k \in (0 .. m - 1) \X A
      PROVE  [out |-> OutOf(t, Nth(kept, k[1]), k[2]), to |-> Rank(kept, ToOf(t, Nth(kept, k[1]), k[2]))]
                 \in [out : Seq(Nat), to : 0 .. m - 1]
  <2>1. PICK q, a : q = Nth(kept, k[1]) /\ a = k[2]
    OBVIOUS
  <2>2. q \in kept /\ a \in A
    BY <1>2, <2>1
  <2>3. PICK out, to : out = OutOf(t, q, a) /\ to = Rank(kept, ToOf(t, q, a))
    OBVIOUS
  <2>4. out \in Seq(Nat) /\ to \in 0 .. m - 1
    BY <1>2, <1>5, <2>2, <2>3
  <2> QED BY ONLY <2>1, <2>3, <2>4
<1>7. r.delta \in [(0 .. m - 1) \X A -> [out : Seq(Nat), to : 0 .. m - 1]]
  BY ONLY <1>3, <1>6
<1>8. \A i \in 0 .. m - 1 : PsiOf(t, Nth(kept, i)) \in Seq(Nat)
  BY <1>2, <1>5
<1>9. r.psi \in [0 .. m - 1 -> Seq(Nat)]
  BY ONLY <1>3, <1>8
<1>10. States(r) = 0 .. m - 1 /\ 0 \in 0 .. m - 1
  BY <1>2, <1>3 DEF States
<1>11. Alphabet(r) = A
  <2>1. DOMAIN r.delta = (0 .. m - 1) \X A
    BY ONLY <1>3
  <2> QED BY <1>2, <2>1, LettersOfTable
<1> QED BY <1>1, <1>2, <1>3, <1>4, <1>5, <1>7, <1>9, <1>10, <1>11 DEF IsTotal

\* A kept state writes what it wrote, and goes to the new number of where it went.
LEMMA PartSteps ==
    ASSUME NEW t, NEW kept, IsKept(t, kept), NEW r, IsPart(t, kept, r),
           NEW i \in 0 .. Cardinality(kept) - 1, NEW q, q = Nth(kept, i), NEW a \in Alphabet(t)
    PROVE  /\ OutOf(r, i, a) = OutOf(t, q, a)
           /\ ToOf(r, i, a) \in 0 .. Cardinality(kept) - 1 /\ Nth(kept, ToOf(r, i, a)) = ToOf(t, q, a)
<1>1. PICK m, out, to : m = Cardinality(kept) /\ out = OutOf(t, q, a) /\ to = ToOf(t, q, a)
  OBVIOUS
<1>2. q \in kept /\ \A p \in kept : Rank(kept, p) \in 0 .. m - 1 /\ Nth(kept, Rank(kept, p)) = p
  BY <1>1, KeptNumbers
<1>3. to \in kept
  BY <1>1, <1>2 DEF IsKept
<1>4. r.delta = [k \in (0 .. m - 1) \X Alphabet(t) |->
                     [out |-> OutOf(t, Nth(kept, k[1]), k[2]), to |-> Rank(kept, ToOf(t, Nth(kept, k[1]), k[2]))]]
  BY <1>1 DEF IsPart
<1>5. <<i, a>> \in (0 .. m - 1) \X Alphabet(t) /\ <<i, a>>[1] = i /\ <<i, a>>[2] = a
  BY <1>1
<1>6. PICK k : k = <<i, a>>
  OBVIOUS
<1>7. r.delta[k] = [out |-> OutOf(t, Nth(kept, k[1]), k[2]), to |-> Rank(kept, ToOf(t, Nth(kept, k[1]), k[2]))]
  BY ONLY <1>4, <1>5, <1>6
<1>8. k[1] = i /\ k[2] = a
  BY ONLY <1>5, <1>6
<1>9. r.delta[k] = [out |-> out, to |-> Rank(kept, to)]
  BY ONLY <1>1, <1>7, <1>8, q = Nth(kept, i)
<1>10. OutOf(r, i, a) = out /\ ToOf(r, i, a) = Rank(kept, to)
  BY ONLY <1>6, <1>9 DEF OutOf, ToOf
<1> QED BY <1>1, <1>2, <1>3, <1>10

\* Reading the same word, both write the same and are in the same state.
Besides(kept, p, given, i, done) ==
    i \in 0 .. Cardinality(kept) - 1 /\ p = Nth(kept, i) /\ done = given

\* After the beginning, the same is written for every word.
LEMMA PartReads ==
    ASSUME NEW t, NEW kept, IsKept(t, kept), NEW r, IsPart(t, kept, r), NEW word \in Seq(Alphabet(t))
    PROVE  Rest(r, word) = Rest(t, word)
<1>1. PICK n \in Nat : n = Len(word)
  BY LenProperties
<1>2. PICK old : Read(t, 0, word) = old[n] /\ AreReadings(t, 0, word, n, old)
  BY <1>1, ReadSteps
<1>3. PICK new : Read(r, 0, word) = new[n] /\ AreReadings(r, 0, word, n, new)
  BY <1>1, ReadSteps
<1>4. PICK m : m = Cardinality(kept)
  OBVIOUS
<1>5. m \in Nat \ {0} /\ Nth(kept, 0) = 0
  BY <1>4, KeptNumbers
<1> DEFINE T == {j \in 0 .. n : Besides(kept, old[j].at, old[j].out, new[j].at, new[j].out)}
<1>6. 0 \in T
  <2>1. old[0].at = 0 /\ old[0].out = <<>> /\ new[0].at = 0 /\ new[0].out = <<>>
    BY <1>2, <1>3, BeginningIs DEF AreReadings
  <2>2. Besides(kept, 0, <<>>, 0, <<>>)
    BY <1>4, <1>5 DEF Besides
  <2> QED BY <1>1, <2>1, <2>2
<1>7. ASSUME NEW j \in 0 .. n - 1, j \in T
      PROVE  j + 1 \in T
  <2>1. j + 1 \in 1 .. n /\ j + 1 \in 0 .. n /\ (j + 1) - 1 = j
    OBVIOUS
  <2>2. PICK a, x, x1, y, y1 : a = word[j + 1] /\ x = old[j] /\ x1 = old[j + 1] /\ y = new[j] /\ y1 = new[j + 1]
    OBVIOUS
  <2>3. a \in Alphabet(t)
    BY <1>1, <2>1, <2>2, ElementOfSeq
  <2>4. x1 = OneLetter(t, x, a) /\ y1 = OneLetter(r, y, a)
    BY ONLY <1>2, <1>3, <2>1, <2>2 DEF AreReadings
  <2>5. PICK p, given, i, done : p = x.at /\ given = x.out /\ i = y.at /\ done = y.out
    OBVIOUS
  <2>6. i \in 0 .. Cardinality(kept) - 1 /\ p = Nth(kept, i) /\ done = given
    BY <1>7, <2>2, <2>5 DEF Besides
  <2>7. /\ OutOf(r, i, a) = OutOf(t, p, a)
        /\ ToOf(r, i, a) \in 0 .. Cardinality(kept) - 1 /\ Nth(kept, ToOf(r, i, a)) = ToOf(t, p, a)
    BY <2>3, <2>6, PartSteps
  <2>8. x1.at = ToOf(t, p, a) /\ x1.out = given \o OutOf(t, p, a)
    BY ONLY <2>4, <2>5 DEF OneLetter, ToOf, OutOf
  <2>9. y1.at = ToOf(r, i, a) /\ y1.out = done \o OutOf(r, i, a)
    BY ONLY <2>4, <2>5 DEF OneLetter, ToOf, OutOf
  <2>10. Besides(kept, x1.at, x1.out, y1.at, y1.out)
    BY ONLY <2>6, <2>7, <2>8, <2>9 DEF Besides
  <2> QED BY <2>1, <2>2, <2>10
<1>8. T = 0 .. n
  <2>1. T \in SUBSET (0 .. n)
    OBVIOUS
  <2> HIDE DEF T
  <2> QED BY <1>6, <1>7, <2>1, Counting
<1>9. PICK p, given, i, done :
          p = ReadAt(t, 0, word) /\ given = ReadOut(t, 0, word) /\ i = ReadAt(r, 0, word) /\ done = ReadOut(r, 0, word)
  OBVIOUS
<1>10. i \in 0 .. m - 1 /\ p = Nth(kept, i) /\ done = given
  <2>1. n \in T
    BY <1>8
  <2>2. p = old[n].at /\ given = old[n].out /\ i = new[n].at /\ done = new[n].out
    BY <1>2, <1>3, <1>9 DEF ReadAt, ReadOut
  <2> QED BY <1>4, <2>1, <2>2 DEF Besides
<1>11. PsiOf(r, i) = PsiOf(t, p)
  <2>1. r.psi = [l \in 0 .. m - 1 |-> PsiOf(t, Nth(kept, l))]
    BY <1>4 DEF IsPart
  <2>2. r.psi[i] = PsiOf(t, Nth(kept, i))
    BY ONLY <1>10, <2>1
  <2> QED BY ONLY <1>10, <2>2 DEF PsiOf
<1> QED BY ONLY <1>9, <1>10, <1>11 DEF Rest

\* Trimming keeps the letters, the beginning and all that is written after it.
LEMMA TrimKeeps ==
    ASSUME NEW t, IsTotal(t), NEW r, r = Trim(t)
    PROVE  /\ IsTotal(r) /\ IsRecord(r) /\ Alphabet(r) = Alphabet(t) /\ InitialOf(r) = InitialOf(t)
           /\ \A word \in Seq(Alphabet(t)) : Rest(r, word) = Rest(t, word)
<1>1. PICK kept : kept = Reached(t)
  OBVIOUS
<1>2. IsKept(t, kept) /\ IsPart(t, kept, r)
  BY <1>1, ReachedIs, TrimIs
<1>3. IsTotal(r) /\ Alphabet(r) = Alphabet(t)
  BY <1>2, PartIsTotal
<1>4. \A word \in Seq(Alphabet(t)) : Rest(r, word) = Rest(t, word)
  BY <1>2, PartReads
<1>5. IsRecord(r) /\ InitialOf(r) = InitialOf(t)
  BY <1>2 DEF IsPart, InitialOf
<1> QED BY <1>3, <1>4, <1>5
--------------------------------------------------------------------------------
(* The life of a compressed transducer.                                    *)

\* A word is read by the transitions alone.
Walk(delta, q, word) ==
    LET Walked[i \in 0 .. Len(word)] ==
            IF i = 0 THEN [out |-> <<>>, at |-> q]
            ELSE LET before == Walked[i - 1]
                     c == delta[<<before.at, word[i]>>]
                 IN  [out |-> before.out \o c.out, at |-> c.to]
    IN  Walked[Len(word)]

\* Read() uses nothing else.
LEMMA ReadIsWalk ==
    ASSUME NEW t, NEW q, NEW word
    PROVE  Read(t, q, word) = Walk(t.delta, q, word)
BY DEF Read, Walk

\* The same transitions and ends write the same.
LEMMA SameRest ==
    ASSUME NEW t, NEW u, u.delta = t.delta, u.psi = t.psi, NEW word
    PROVE  Rest(u, word) = Rest(t, word)
<1>1. Read(u, 0, word) = Read(t, 0, word)
  BY ReadIsWalk
<1> QED BY <1>1 DEF Rest, ReadOut, ReadAt, PsiOf

\* What is computed is what is written first, and the rest.
LEMMA ComputedInTwo ==
    ASSUME NEW t, IsTotal(t), NEW word \in Seq(Alphabet(t))
    PROVE  F(t, word) = InitialOf(t) \o Rest(t, word)
<1>1. PICK first, out, q, psi : /\ first = InitialOf(t) /\ out = ReadOut(t, 0, word)
                               /\ q = ReadAt(t, 0, word) /\ psi = PsiOf(t, q)
  OBVIOUS
<1>2. 0 \in States(t) /\ first \in Words
  BY <1>1, PartsType
<1>3. out \in Words /\ q \in States(t)
  BY <1>1, <1>2, ReadPartsType
<1>4. psi \in Words
  BY <1>1, <1>3, PartsType
<1>5. (first \o out) \o psi = first \o (out \o psi)
  BY <1>2, <1>3, <1>4, ConcatRegroups
<1>6. F(t, word) = (first \o out) \o psi
  BY <1>1, ComputedIs
<1> QED BY ONLY <1>1, <1>5, <1>6 DEF Rest

\* What a compressed transducer is to the one it was made for.
Represents(c, t, initial) ==
    /\ Fits(c, Alphabet(t))
    /\ InitialOf(Expanded(c)) = initial
    /\ \A word \in Seq(Alphabet(t)) : Rest(Expanded(c), word) = Rest(t, word)

\* What it represents depends on what it stands for.
LEMMA SameExpansion ==
    ASSUME NEW c, NEW t, NEW initial, Represents(c, t, initial),
           NEW d, Fits(d, Alphabet(t)), Expanded(d) = Expanded(c)
    PROVE  Represents(d, t, initial)
BY DEF Represents

\* What was built represents what it was built from.
LEMMA BuiltRepresents ==
    ASSUME NEW t, IsTotal(t), IsRecord(t), NEW pool, IsPool(pool), NEW c, c = Built(t, pool), LeavesTheFlag(c)
    PROVE  Represents(c, t, InitialOf(t))
<1>1. Fits(c, Alphabet(t)) /\ Expanded(c) = t
  BY BuiltExpands
<1> QED BY <1>1 DEF Represents

\* Evaluating it changes nothing.
LEMMA EvaluatedRepresents ==
    ASSUME NEW c, NEW t, NEW initial, Represents(c, t, initial), NEW word \in Seq(Alphabet(t))
    PROVE  Represents(Evaluated(c, word), t, initial)
<1>1. PICK A, d : A = Alphabet(t) /\ d = Evaluated(c, word)
  OBVIOUS
<1>2. Fits(c, A) /\ word \in Seq(A)
  BY <1>1 DEF Represents
<1>3. Fits(d, A) /\ Expanded(d) = Expanded(c)
  BY <1>1, <1>2, EvaluatedIs
<1> QED BY <1>1, <1>3, SameExpansion

\* Compacting it changes nothing.
LEMMA CompactedRepresents ==
    ASSUME NEW c, NEW t, NEW initial, Represents(c, t, initial)
    PROVE  Represents(CompactLabels(c), t, initial)
<1>1. PICK A, d : A = Alphabet(t) /\ d = CompactLabels(c)
  OBVIOUS
<1>2. Fits(c, A)
  BY <1>1 DEF Represents
<1>3. Fits(d, A) /\ Expanded(d) = Expanded(c)
  BY <1>1, <1>2, CompactedIs
<1> QED BY <1>1, <1>3, SameExpansion

\* Trimming it changes nothing.
LEMMA TrimmedRepresents ==
    ASSUME NEW c, NEW t, NEW initial, Represents(c, t, initial), NEW d, d = Trimmed(c), LeavesTheFlag(d)
    PROVE  Represents(d, t, initial)
<1>1. PICK A, u, r : A = Alphabet(t) /\ u = Expanded(c) /\ r = Trim(u)
  OBVIOUS
<1>2. Fits(c, A) /\ InitialOf(u) = initial /\ \A word \in Seq(A) : Rest(u, word) = Rest(t, word)
  BY <1>1 DEF Represents
<1>3. IsTotal(u) /\ Alphabet(u) = A
  BY <1>1, <1>2, ExpandedIsTotal
<1>4. /\ IsTotal(r) /\ IsRecord(r) /\ Alphabet(r) = A /\ InitialOf(r) = initial
      /\ \A word \in Seq(A) : Rest(r, word) = Rest(u, word)
  BY <1>1, <1>2, <1>3, TrimKeeps
<1>5. c.n \in Nat \ {0} /\ A \in SUBSET Nat /\ IsFiniteSet(A) /\ DOMAIN c.delta = (0 .. c.n - 1) \X A
  BY <1>2 DEF Fits
<1>6. Alphabet(c) = A
  BY <1>5, LettersOfTable
<1>7. PICK n, cells, e : n = c.n /\ cells = Cells(n, A) /\ e = Materialized(c, cells)
  OBVIOUS
<1>8. ListsAll(n, A, cells)
  BY <1>5, <1>7, CellsAre
<1>9. cells \in Seq((0 .. c.n - 1) \X A)
  BY <1>7, <1>8 DEF ListsAll
<1>10. IsPool(e.pool)
  BY <1>2, <1>7, <1>9, MaterializedIs
<1>11. d = Built(r, e.pool)
  BY <1>1, <1>6, <1>7 DEF Trimmed
<1>12. Represents(d, r, InitialOf(r))
  BY <1>4, <1>10, <1>11, BuiltRepresents
<1> QED BY <1>1, <1>2, <1>4, <1>12 DEF Represents

\* Storing and loading it loses what is written first, and nothing else.
LEMMA ReloadedRepresents ==
    ASSUME NEW c, NEW t, NEW initial, Represents(c, t, initial)
    PROVE  Represents(Reloaded(c), t, <<>>)
<1>1. PICK A, d, u, v : A = Alphabet(t) /\ d = Reloaded(c) /\ u = Expanded(c) /\ v = Expanded(d)
  OBVIOUS
<1>2. Fits(c, A) /\ \A word \in Seq(A) : Rest(u, word) = Rest(t, word)
  BY <1>1 DEF Represents
<1>3. /\ d.n = c.n /\ d.delta = c.delta /\ d.psi = c.psi /\ d.pool = c.pool /\ d.initialOut = 0
      /\ d = Compressed(d.n, d.delta, d.psi, d.initialOut, d.pool)
  BY <1>1, <1>2 DEF Reloaded, Fits, Compressed
<1>4. IsPool(c.pool)
  BY <1>2 DEF Fits
<1>5. 0 \in Numbers(c.pool) /\ c.pool[0 + 1] = <<>>
  BY <1>4, FlagBitAssumption DEF Numbers, IsPool
<1>6. Fits(d, A)
  BY <1>2, <1>3, <1>5 DEF Fits
<1>7. IsExpansion(c, A, u) /\ IsExpansion(d, A, v)
  BY <1>1, <1>2, <1>6, ExpandedIs
<1>8. v.delta = u.delta /\ v.psi = u.psi /\ v.initialOut = <<>>
  BY <1>3, <1>5, <1>7 DEF IsExpansion
<1>9. \A word : Rest(v, word) = Rest(u, word)
  BY <1>8, SameRest
<1>10. InitialOf(v) = <<>>
  BY <1>8 DEF InitialOf
<1> QED BY <1>1, <1>2, <1>6, <1>9, <1>10 DEF Represents

\* Whatever it has been through, the compressed transducer stands for the result.
CompressedInv ==
    /\ ComposedInv
    /\ compressed = {} => ~stored
    /\ stored \in BOOLEAN
    /\ \A c \in compressed :
          /\ stage \in {"canonical", "composed"}
          /\ Represents(c, result, IF stored THEN <<>> ELSE InitialOf(result))

\* What a compressed transducer is asked for is total.
LEMMA ResultIs ==
    ASSUME ComposedInv, stage \in {"canonical", "composed"}
    PROVE  IsTotal(result) /\ IsRecord(result) /\ Alphabet(result) = Alphabet(fst) /\ fst \in Firsts
<1>1. IsTotal(result) /\ Alphabet(result) = Alphabet(fst)
  BY ResultIsTotal
<1>2. fst \in Firsts
  BY DEF ComposedInv, IInv
<1>3. CASE stage = "canonical"
  <2>1. result = Pushed(fst, estimate)
    BY <1>3 DEF ComposedInv, IInv
  <2>2. IsRecord(result)
    BY <2>1 DEF Pushed, Total, IsRecord
  <2> QED BY <1>1, <1>2, <2>2
<1>4. CASE stage = "composed"
  <2>1. result = ComposeFST(Pushed(fst, estimate), second)
    BY <1>4 DEF ComposedInv
  <2>2. IsRecord(result)
    BY <2>1 DEF ComposeFST, Total, IsRecord
  <2> QED BY <1>1, <1>2, <2>2
<1> QED BY <1>3, <1>4

\* Nobody has asked for one at the beginning.
LEMMA InitRepresents == CompressedInit => CompressedInv
BY InitComposed DEF CompressedInit, CompressedInv

\* Every call keeps what it represents.
LEMMA NextRepresents == CompressedInv /\ [CompressedNext]_compressedVars => CompressedInv'
<1> SUFFICES ASSUME CompressedInv, [CompressedNext]_compressedVars PROVE CompressedInv'
  OBVIOUS
<1>1. ASSUME UNCHANGED vars
      PROVE  ComposedInv' /\ stage' = stage /\ result' = result
  BY <1>1, NextComposed DEF CompressedInv, vars
<1> DEFINE initial == IF stored THEN <<>> ELSE InitialOf(result)
<1>2. \A c \in compressed : stage \in {"canonical", "composed"} /\ Represents(c, result, initial)
  BY DEF CompressedInv
<1> HIDE DEF initial
<1>3. CASE Transform
  BY <1>3, NextComposed DEF Transform, CompressedInv
<1>4. CASE AskForCompressed
  <2>1. PICK c : /\ c = Built(result, <<<<>>>>) /\ LeavesTheFlag(c) /\ compressed' = {c}
                 /\ stage \in {"canonical", "composed"} /\ compressed = {} /\ UNCHANGED vars /\ stored' = stored
    BY <1>4 DEF AskForCompressed
  <2>2. IsPool(<<<<>>>>)
    BY DEF IsPool, Words
  <2>3. IsTotal(result) /\ IsRecord(result)
    BY <2>1, ResultIs DEF CompressedInv
  <2>4. Represents(c, result, InitialOf(result))
    BY <2>1, <2>2, <2>3, BuiltRepresents
  <2>5. ~stored
    BY <2>1 DEF CompressedInv
  <2> QED BY <1>1, <2>1, <2>4, <2>5 DEF CompressedInv
<1>5. ASSUME NEW d, Call(d), stored' = stored, stage \in {"canonical", "composed"}, Represents(d, result, initial)
      PROVE  CompressedInv'
  <2>1. compressed' = {d} /\ UNCHANGED vars
    BY <1>5 DEF Call
  <2> QED BY <1>1, <1>5, <2>1 DEF CompressedInv, initial
<1>6. CASE Evaluate
  <2>1. PICK c \in compressed, w \in Asked : Call(Evaluated(c, w)) /\ stored' = stored
    BY <1>6 DEF Evaluate
  <2>2. Represents(c, result, initial) /\ stage \in {"canonical", "composed"}
    BY <1>2
  <2>3. w \in Seq(Alphabet(result))
    BY <2>2, ResultIs, AskedAssumption DEF CompressedInv
  <2>4. Represents(Evaluated(c, w), result, initial)
    BY <2>2, <2>3, EvaluatedRepresents
  <2> QED BY <1>5, <2>1, <2>2, <2>4
<1>7. CASE CompactItsLabels
  <2>1. PICK c \in compressed : Call(CompactLabels(c)) /\ stored' = stored
    BY <1>7 DEF CompactItsLabels
  <2>2. Represents(c, result, initial) /\ stage \in {"canonical", "composed"}
    BY <1>2
  <2>3. Represents(CompactLabels(c), result, initial)
    BY <2>2, CompactedRepresents
  <2> QED BY <1>5, <2>1, <2>2, <2>3
<1>8. CASE TrimIt
  <2>1. PICK c \in compressed : LeavesTheFlag(Trimmed(c)) /\ Call(CompactLabels(Trimmed(c))) /\ stored' = stored
    BY <1>8 DEF TrimIt
  <2>2. Represents(c, result, initial) /\ stage \in {"canonical", "composed"}
    BY <1>2
  <2>3. Represents(Trimmed(c), result, initial)
    BY <2>1, <2>2, TrimmedRepresents
  <2>4. Represents(CompactLabels(Trimmed(c)), result, initial)
    BY <2>3, CompactedRepresents
  <2> QED BY <1>5, <2>1, <2>2, <2>4
<1>9. CASE StoreAndLoad
  <2>1. PICK c \in compressed : Call(Reloaded(c)) /\ stored' = TRUE
    BY <1>9 DEF StoreAndLoad
  <2>2. compressed' = {Reloaded(c)} /\ UNCHANGED vars
    BY <2>1 DEF Call
  <2>3. Represents(c, result, initial) /\ stage \in {"canonical", "composed"}
    BY <1>2
  <2>4. Represents(Reloaded(c), result, <<>>)
    BY <2>3, ReloadedRepresents
  <2> QED BY <1>1, <2>1, <2>2, <2>3, <2>4 DEF CompressedInv
<1>10. CASE UNCHANGED compressedVars
  <2>1. UNCHANGED vars /\ compressed' = compressed /\ stored' = stored
    BY <1>10 DEF compressedVars
  <2> QED BY <1>1, <2>1 DEF CompressedInv
<1> QED BY <1>3, <1>4, <1>6, <1>7, <1>8, <1>9, <1>10 DEF CompressedNext

\* What the invariant says of the function.
LEMMA Represented == CompressedInv => CompressedKeepsTheFunction
<1> SUFFICES ASSUME CompressedInv, NEW c \in compressed, NEW w \in Inputs
             PROVE  CompressedF(c, w) = F(IF stored THEN [result EXCEPT !.initialOut = <<>>] ELSE result, w)
  BY DEF CompressedKeepsTheFunction
<1>1. PICK t, u, A, initial : /\ t = (IF stored THEN [result EXCEPT !.initialOut = <<>>] ELSE result)
                             /\ u = Expanded(c) /\ A = Alphabet(result)
                             /\ initial = (IF stored THEN <<>> ELSE InitialOf(result))
  OBVIOUS
<1>2. ComposedInv /\ stage \in {"canonical", "composed"} /\ Represents(c, result, initial)
  BY <1>1 DEF CompressedInv
<1>3. IsTotal(result) /\ IsRecord(result) /\ A = Alphabet(fst)
  BY <1>1, <1>2, ResultIs
<1>4. w \in Seq(A)
  BY <1>3, InputsAre
<1>5. Fits(c, A) /\ InitialOf(u) = initial /\ Rest(u, w) = Rest(result, w)
  BY <1>1, <1>2, <1>4 DEF Represents
<1>6. IsTotal(u) /\ Alphabet(u) = A
  BY <1>1, <1>5, ExpandedIsTotal
<1>7. F(u, w) = InitialOf(u) \o Rest(u, w)
  BY <1>4, <1>6, ComputedInTwo
<1>8. t.n = result.n /\ t.delta = result.delta /\ t.psi = result.psi /\ InitialOf(t) = initial
  BY <1>1, <1>3 DEF IsRecord, Total, InitialOf
<1>9. Alphabet(t) = A /\ States(t) = States(result)
  BY <1>1, <1>8 DEF Alphabet, States
<1>10. initial \in Seq(Nat)
  BY <1>1, <1>3 DEF IsTotal, InitialOf
<1>11. IsTotal(t)
  BY <1>1, <1>3, <1>8, <1>9, <1>10 DEF IsTotal, InitialOf
<1>12. F(t, w) = InitialOf(t) \o Rest(t, w)
  BY <1>4, <1>9, <1>11, ComputedInTwo
<1>13. Rest(t, w) = Rest(result, w)
  BY <1>8, SameRest
<1> QED BY <1>1, <1>5, <1>7, <1>8, <1>12, <1>13 DEF CompressedF

\* While a compressed transducer is used, what it was made for goes its own way.
THEOREM CompressedUsesCanonical == CompressedSpec => Spec
<1>1. CompressedInit => Init
  BY DEF CompressedInit
<1>2. [CompressedNext]_compressedVars => [Next]_vars
  BY DEF CompressedNext, compressedVars, Transform, AskForCompressed, Evaluate, CompactItsLabels, TrimIt, StoreAndLoad, Call
<1> QED BY <1>1, <1>2, PTL DEF CompressedSpec, Spec

\* Whatever a compressed transducer has been through, it computes what the one
\* computes that it was made for.
THEOREM CompressedIsRight == CompressedSpec => []CompressedKeepsTheFunction
<1>1. CompressedSpec => []CompressedInv
  BY InitRepresents, NextRepresents, PTL DEF CompressedSpec
<1> QED BY <1>1, Represented, PTL
================================================================================
