----------------------------- MODULE WordPoolsProofs -----------------------------
(***************************************************************************)
(* The clients of numbered words keep them.  First the machines: the       *)
(* inductive invariant of MachineLabels, and what it gives: whatever is    *)
(* multiplied, divided, shared, copied from another machine, trimmed,      *)
(* compacted or read back, each label and each output of a transducer      *)
(* still stands for the words that were put there.  Then the loop of       *)
(* compact(), which packs the live words, for every vector, every number   *)
(* of live words and every way their slices overlap; then the numbers of   *)
(* the word sets, which keep their words, for any words a client adds and  *)
(* sets of any size; and so each behaviour of WordPools, whichever client  *)
(* it is about, keeps the words of all of them.                            *)
(***************************************************************************)
EXTENDS WordPools, PoolLayoutProofs

--------------------------------------------------------------------------------
(* The labels and outputs of a machine.                                      *)

\* A monoid: a pool has the empty word first, and no word twice.
Monoids ==
    {c \in [kind : {"pool", "symbol", "count"}, pool : Seq(Seq(Sigma))] :
        c.kind = "pool" => /\ c.pool # <<>> /\ c.pool[1] = <<>>
                           /\ \A i, j \in DOMAIN c.pool : c.pool[i] = c.pool[j] => i = j}

HoldsValue(c, v) ==
    /\ c.kind = "pool" => v \in 0 .. Len(c.pool) - 1
    /\ c.kind = "symbol" => v \in Sigma \cup {Eps}
    /\ c.kind = "count" => v \in Nat

\* The words the values of a monoid stand for.
StandsFor(c, word) ==
    /\ c.kind = "count" => word \in Seq({1})
    /\ c.kind # "count" => word \in Seq(Sigma)
    /\ c.kind = "symbol" => Len(word) <= 1

\* d is c, with more words at the end of a pool.
Grows(c, d) ==
    /\ d.kind = c.kind
    /\ Len(c.pool) <= Len(d.pool)
    /\ \A i \in 1 .. Len(c.pool) : d.pool[i] = c.pool[i]

\* r is what an operation of the monoid c gives for the word.
Gives(c, r, word) ==
    /\ r.c \in Monoids /\ Grows(c, r.c)
    /\ HoldsValue(r.c, r.v) /\ Gen(r.c, r.v) = word

IsProduct(m) ==
    /\ m = Product(m.owned, m.slots)
    /\ m.slots \in {<<1, 1>>, <<1, 2>>}
    /\ m.owned \in [1 .. m.slots[2] -> Monoids]

\* n is m, and its pools have the words of those of m.
ProductGrows(m, n) == n.slots = m.slots /\ \A j \in 1 .. m.slots[2] : Grows(m.owned[j], n.owned[j])

HasShape(k, m) ==
    /\ m.slots = MonoidOf(k).slots
    /\ \A j \in 1 .. m.slots[2] : m.owned[j].kind = MonoidOf(k).owned[j].kind

IsLabelOf(m, label) ==
    /\ label = <<label[1], label[2]>>
    /\ HoldsValue(Tape(m, 1), label[1]) /\ HoldsValue(Tape(m, 2), label[2])

\* r is what an operation of the product m gives for the words of a label.
GivesLabel(m, r, texts) ==
    /\ IsProduct(r.m) /\ ProductGrows(m, r.m)
    /\ IsLabelOf(r.m, r.v) /\ \A t \in 1 .. 2 : Gen(Tape(r.m, t), r.v[t]) = texts[t]

Outputs(k) ==
    CASE k = "SparseSSFST" -> [States -> Nat \cup {NoValue}]
      [] k = "TotalSSFST" -> [States \cup {"initial"} -> Nat]
      [] k = "ExpandedFST" -> Seq(Nat)
      [] OTHER -> {<<>>}

IsMachine(k, m) ==
    /\ m = Machine(m.monoid, m.arcs, m.outs)
    /\ IsProduct(m.monoid) /\ HasShape(k, m.monoid)
    /\ m.arcs = [a \in Arcs |-> m.arcs[a]]
    /\ \A a \in Arcs : m.arcs[a] = NoValue \/ IsLabelOf(m.monoid, m.arcs[a])
    /\ m.outs \in Outputs(k)
    /\ \A o \in DOMAIN m.outs : m.outs[o] = NoValue \/ HoldsValue(OutputMonoid(m), m.outs[o])

LabelsInv ==
    /\ kind \in Kinds
    /\ IsMachine(kind, machine)
    /\ IsProduct(source.m) /\ HasShape(kind, source.m) /\ IsLabelOf(source.m, source.v)
    /\ meant = Denoted(machine)
--------------------------------------------------------------------------------

\* A monoid, a value of it and a word have their types.
LEMMA MonoidTypes ==
    ASSUME NEW c \in Monoids
    PROVE  /\ c.kind \in {"pool", "symbol", "count"} /\ c.pool \in Seq(Seq(Sigma)) /\ Len(c.pool) \in Nat
           /\ c = [kind |-> c.kind, pool |-> c.pool]
           /\ c.kind = "pool" => /\ c.pool # <<>> /\ Len(c.pool) > 0 /\ c.pool[1] = <<>>
                                 /\ \A i, j \in DOMAIN c.pool : c.pool[i] = c.pool[j] => i = j
<1>1. c \in [kind : {"pool", "symbol", "count"}, pool : Seq(Seq(Sigma))]
  BY DEF Monoids
<1>2. c.kind = "pool" => /\ c.pool # <<>> /\ c.pool[1] = <<>>
                         /\ \A i, j \in DOMAIN c.pool : c.pool[i] = c.pool[j] => i = j
  BY DEF Monoids
<1> QED BY <1>1, <1>2

\* A monoid grows from itself, and growing twice is growing.
LEMMA GrowsReflexive ==
    ASSUME NEW c \in Monoids
    PROVE  Grows(c, c)
  BY MonoidTypes DEF Grows

LEMMA GrowsTransitive ==
    ASSUME NEW c \in Monoids, NEW d \in Monoids, NEW e \in Monoids, Grows(c, d), Grows(d, e)
    PROVE  Grows(c, e)
<1>1. Len(c.pool) \in Nat /\ Len(d.pool) \in Nat /\ Len(e.pool) \in Nat
  BY MonoidTypes
<1> QED BY <1>1 DEF Grows

\* What a value stands for does not change when its pool grows.
LEMMA GrowsKeeps ==
    ASSUME NEW c \in Monoids, NEW d \in Monoids, Grows(c, d), NEW v, HoldsValue(c, v)
    PROVE  HoldsValue(d, v) /\ Gen(d, v) = Gen(c, v)
<1>1. /\ d.kind = c.kind /\ c.kind \in {"pool", "symbol", "count"}
      /\ Len(c.pool) \in Nat /\ Len(d.pool) \in Nat /\ Len(c.pool) <= Len(d.pool)
      /\ \A i \in 1 .. Len(c.pool) : d.pool[i] = c.pool[i]
  BY MonoidTypes DEF Grows
<1>2. CASE c.kind = "pool"
  <2>1. v \in 0 .. Len(c.pool) - 1
    BY <1>2 DEF HoldsValue
  <2>2. v + 1 \in 1 .. Len(c.pool) /\ v \in 0 .. Len(d.pool) - 1
    BY <1>1, <2>1
  <2> QED BY <1>1, <1>2, <2>2 DEF HoldsValue, Gen
<1>3. CASE c.kind # "pool"
  BY <1>1, <1>3 DEF HoldsValue, Gen
<1> QED BY <1>2, <1>3

\* A value stands for a word of its kind.
LEMMA GenStands ==
    ASSUME NEW c \in Monoids, NEW v, HoldsValue(c, v)
    PROVE  StandsFor(c, Gen(c, v))
<1>1. /\ c.kind \in {"pool", "symbol", "count"}
      /\ Len(c.pool) \in Nat /\ c.pool \in Seq(Seq(Sigma))
  BY MonoidTypes
<1>2. CASE c.kind = "pool"
  <2>1. v \in 0 .. Len(c.pool) - 1
    BY <1>2 DEF HoldsValue
  <2>2. c.pool[v + 1] \in Seq(Sigma)
    BY <1>1, <2>1
  <2> QED BY <1>2, <2>2 DEF StandsFor, Gen
<1>3. CASE c.kind = "symbol"
  <2>1. v \in Sigma \cup {Eps}
    BY <1>3 DEF HoldsValue
  <2>2. SymbolGen(v) \in Seq(Sigma) /\ Len(SymbolGen(v)) <= 1
    <3>1. CASE v = Eps
      BY <3>1 DEF SymbolGen
    <3>2. CASE v # Eps
      BY <2>1, <3>2 DEF SymbolGen
    <3> QED BY <3>1, <3>2
  <2> QED BY <1>3, <2>2 DEF StandsFor, Gen
<1>4. CASE c.kind = "count"
  <2>1. v \in Nat
    BY <1>4 DEF HoldsValue
  <2>2. CountGen(v) \in Seq({1})
    BY <2>1 DEF CountGen
  <2> QED BY <1>4, <2>2 DEF StandsFor, Gen
<1> QED BY <1>1, <1>2, <1>3, <1>4

--------------------------------------------------------------------------------
\* The operations of each kind of monoid.
LEMMA OfAPool ==
    ASSUME NEW c, c.kind = "pool"
    PROVE  /\ \A v : Gen(c, v) = c.pool[v + 1]
           /\ \A word : From(c, word) = Pooled(c, word)
           /\ \A v, w : Mul(c, v, w) = Pooled(c, Gen(c, v) \o Gen(c, w))
           /\ \A v, w : InvMul(c, v, w) = Pooled(c, SubSeq(Gen(c, w), Len(Gen(c, v)) + 1, Len(Gen(c, w))))
           /\ \A v, w : Gcp(c, v, w) = Pooled(c, Prefix(Gen(c, v), Gen(c, w)))
<1>1. \A v : Gen(c, v) = c.pool[v + 1]
  BY DEF Gen
<1>2. \A word : From(c, word) = Pooled(c, word)
  BY DEF From
<1>3. \A v, w : Mul(c, v, w) = Pooled(c, Gen(c, v) \o Gen(c, w))
  BY DEF Mul
<1>4. \A v, w : InvMul(c, v, w) = Pooled(c, SubSeq(Gen(c, w), Len(Gen(c, v)) + 1, Len(Gen(c, w))))
  BY DEF InvMul
<1>5. \A v, w : Gcp(c, v, w) = Pooled(c, Prefix(Gen(c, v), Gen(c, w)))
  BY DEF Gcp
<1> QED BY <1>1, <1>2, <1>3, <1>4, <1>5

LEMMA OfLetters ==
    ASSUME NEW c, c.kind = "symbol"
    PROVE  /\ \A v : Gen(c, v) = SymbolGen(v)
           /\ \A word : From(c, word) = [c |-> c, v |-> SymbolFrom(word)]
           /\ \A v, w : Mul(c, v, w) = [c |-> c, v |-> SymbolMul(v, w)]
           /\ \A v, w : InvMul(c, v, w) = [c |-> c, v |-> SymbolInvMul(v, w)]
           /\ \A v, w : Gcp(c, v, w) = [c |-> c, v |-> SymbolGcp(v, w)]
<1>1. \A v : Gen(c, v) = SymbolGen(v)
  BY DEF Gen
<1>2. \A word : From(c, word) = [c |-> c, v |-> SymbolFrom(word)]
  BY DEF From
<1>3. \A v, w : Mul(c, v, w) = [c |-> c, v |-> SymbolMul(v, w)]
  BY DEF Mul
<1>4. \A v, w : InvMul(c, v, w) = [c |-> c, v |-> SymbolInvMul(v, w)]
  BY DEF InvMul
<1>5. \A v, w : Gcp(c, v, w) = [c |-> c, v |-> SymbolGcp(v, w)]
  BY DEF Gcp
<1> QED BY <1>1, <1>2, <1>3, <1>4, <1>5

LEMMA OfCounts ==
    ASSUME NEW c, c.kind = "count"
    PROVE  /\ \A v : Gen(c, v) = CountGen(v)
           /\ \A word : From(c, word) = [c |-> c, v |-> Len(word)]
           /\ \A v, w : Mul(c, v, w) = [c |-> c, v |-> v + w]
           /\ \A v, w : InvMul(c, v, w) = [c |-> c, v |-> w - v]
           /\ \A v, w : Gcp(c, v, w) = [c |-> c, v |-> CountGcp(v, w)]
<1>1. \A v : Gen(c, v) = CountGen(v)
  BY DEF Gen
<1>2. \A word : From(c, word) = [c |-> c, v |-> Len(word)]
  BY DEF From
<1>3. \A v, w : Mul(c, v, w) = [c |-> c, v |-> v + w]
  BY DEF Mul
<1>4. \A v, w : InvMul(c, v, w) = [c |-> c, v |-> w - v]
  BY DEF InvMul
<1>5. \A v, w : Gcp(c, v, w) = [c |-> c, v |-> CountGcp(v, w)]
  BY DEF Gcp
<1> QED BY <1>1, <1>2, <1>3, <1>4, <1>5

\* A word of a pool gets its one number, which is new if the word is.
LEMMA PooledGives ==
    ASSUME NEW c \in Monoids, c.kind = "pool", NEW word \in Seq(Sigma)
    PROVE  Gives(c, Pooled(c, word), word)
<1> DEFINE d == IF Contains(c.pool, word) THEN c ELSE [c EXCEPT !.pool = Append(@, word)]
           n == CHOOSE i \in DOMAIN d.pool : d.pool[i] = word
<1>1. Pooled(c, word) = [c |-> d, v |-> n - 1]
  BY DEF Pooled
<1>2. /\ c.pool \in Seq(Seq(Sigma)) /\ Len(c.pool) \in Nat /\ c = [kind |-> c.kind, pool |-> c.pool]
      /\ c.pool # <<>> /\ Len(c.pool) > 0 /\ c.pool[1] = <<>>
      /\ \A i, j \in DOMAIN c.pool : c.pool[i] = c.pool[j] => i = j
  BY MonoidTypes
<1>3. d \in Monoids /\ Grows(c, d) /\ d.kind = "pool" /\ \E i \in DOMAIN d.pool : d.pool[i] = word
  <2>1. CASE Contains(c.pool, word)
    <3>1. d = c
      BY <2>1
    <3>2. \E i \in DOMAIN c.pool : c.pool[i] = word
      BY <1>2, <2>1 DEF Contains
    <3> QED BY <3>1, <3>2, GrowsReflexive
  <2>2. CASE ~Contains(c.pool, word)
    <3> DEFINE q == Append(c.pool, word)
    <3>1. d = [kind |-> c.kind, pool |-> q]
      BY <1>2, <2>2
    <3>2. /\ q \in Seq(Seq(Sigma)) /\ Len(q) = Len(c.pool) + 1 /\ q[Len(c.pool) + 1] = word
          /\ \A i \in 1 .. Len(c.pool) : q[i] = c.pool[i]
      BY <1>2, AppendProperties
    <3>3. \A i \in 1 .. Len(c.pool) : c.pool[i] # word
      BY <2>2 DEF Contains
    <3> HIDE DEF q
    <3>4. DOMAIN q = 1 .. Len(c.pool) + 1 /\ DOMAIN c.pool = 1 .. Len(c.pool)
      BY <1>2, <3>2
    <3>5. \A i, j \in DOMAIN q : q[i] = q[j] => i = j
      <4> SUFFICES ASSUME NEW i \in DOMAIN q, NEW j \in DOMAIN q, q[i] = q[j]
                   PROVE  i = j
        OBVIOUS
      <4>1. CASE i \in 1 .. Len(c.pool) /\ j \in 1 .. Len(c.pool)
        BY <1>2, <3>2, <3>4, <4>1
      <4>2. CASE i = Len(c.pool) + 1 /\ j \in 1 .. Len(c.pool)
        BY <3>2, <3>3, <4>2
      <4>3. CASE j = Len(c.pool) + 1 /\ i \in 1 .. Len(c.pool)
        BY <3>2, <3>3, <4>3
      <4>4. i \in 1 .. Len(c.pool) \/ i = Len(c.pool) + 1
        BY <1>2, <3>4
      <4>5. j \in 1 .. Len(c.pool) \/ j = Len(c.pool) + 1
        BY <1>2, <3>4
      <4> QED BY <4>1, <4>2, <4>3, <4>4, <4>5
    <3>6. q # <<>> /\ q[1] = <<>>
      <4>1. 1 \in 1 .. Len(c.pool) /\ Len(q) # 0
        BY <1>2, <3>2
      <4>2. q[1] = c.pool[1]
        BY <3>2, <4>1
      <4> QED BY <1>2, <4>1, <4>2
    <3>7. [kind |-> c.kind, pool |-> q] \in Monoids
      <4>1. [kind |-> c.kind, pool |-> q] \in [kind : {"pool", "symbol", "count"}, pool : Seq(Seq(Sigma))]
        BY <3>2
      <4> QED BY <3>5, <3>6, <4>1 DEF Monoids
    <3>8. Grows(c, [kind |-> c.kind, pool |-> q])
      BY <1>2, <3>2 DEF Grows
    <3>9. Len(c.pool) + 1 \in DOMAIN q
      BY <1>2, <3>4
    <3> QED
      <4> HIDE DEF d
      <4>1. d.pool = q /\ d.kind = c.kind
        BY <3>1
      <4> QED BY <3>1, <3>2, <3>7, <3>8, <3>9, <4>1
  <2> QED BY <2>1, <2>2
<1>4. n \in DOMAIN d.pool /\ d.pool[n] = word
  BY <1>3
<1> HIDE DEF d, n
<1>5. HoldsValue(d, n - 1) /\ Gen(d, n - 1) = word
  <2>1. Len(d.pool) \in Nat /\ DOMAIN d.pool = 1 .. Len(d.pool)
    BY <1>3, MonoidTypes
  <2>2. n - 1 \in 0 .. Len(d.pool) - 1 /\ (n - 1) + 1 = n
    BY <1>4, <2>1
  <2>3. Gen(d, n - 1) = d.pool[(n - 1) + 1]
    BY <1>3, OfAPool
  <2> QED BY <1>3, <1>4, <2>2, <2>3 DEF HoldsValue
<1>6. Pooled(c, word).c = d /\ Pooled(c, word).v = n - 1
  BY <1>1
<1> QED BY <1>3, <1>5, <1>6 DEF Gives


\* A monoid that keeps no words gives a value as it is.
LEMMA ValueGives ==
    ASSUME NEW c \in Monoids, NEW v, HoldsValue(c, v), NEW word, Gen(c, v) = word
    PROVE  Gives(c, [c |-> c, v |-> v], word)
  BY GrowsReflexive DEF Gives

\* The number of a word of the right kind stands for it; a count, for as many ones.
LEMMA FromGives ==
    ASSUME NEW c \in Monoids, NEW word, StandsFor(c, word)
    PROVE  Gives(c, From(c, word), word)
<1>1. c.kind \in {"pool", "symbol", "count"}
  BY MonoidTypes
<1>2. CASE c.kind = "pool"
  <2>1. word \in Seq(Sigma)
    BY <1>2 DEF StandsFor
  <2> QED BY <1>2, <2>1, PooledGives, OfAPool
<1>3. CASE c.kind = "symbol"
  <2>1. word \in Seq(Sigma) /\ Len(word) <= 1 /\ Len(word) \in Nat
    BY <1>3 DEF StandsFor
  <2>2. SymbolFrom(word) \in Sigma \cup {Eps} /\ SymbolGen(SymbolFrom(word)) = word
    <3>1. CASE word = <<>>
      BY <3>1 DEF SymbolFrom, SymbolGen
    <3>2. CASE word # <<>>
      <4>1. Len(word) = 1 /\ word[1] \in Sigma /\ word = <<word[1]>>
        BY <2>1, <3>2
      <4>2. word[1] # Eps
        BY <4>1, ValuesAssumption
      <4> QED BY <3>2, <4>1, <4>2 DEF SymbolFrom, SymbolGen
    <3> QED BY <3>1, <3>2
  <2>3. HoldsValue(c, SymbolFrom(word)) /\ Gen(c, SymbolFrom(word)) = word
    BY <1>3, <2>2, OfLetters DEF HoldsValue
  <2>4. Gives(c, [c |-> c, v |-> SymbolFrom(word)], word)
    BY ONLY c \in Monoids, <2>3, ValueGives, Zenon
  <2>5. From(c, word) = [c |-> c, v |-> SymbolFrom(word)]
    BY <1>3, OfLetters, Zenon
  <2> QED BY ONLY <2>4, <2>5
<1>4. CASE c.kind = "count"
  <2>1. word \in Seq({1}) /\ Len(word) \in Nat
    BY <1>4 DEF StandsFor
  <2>2. CountGen(Len(word)) = word
    BY <2>1 DEF CountGen
  <2>3. HoldsValue(c, Len(word)) /\ Gen(c, Len(word)) = word
    BY <1>4, <2>1, <2>2, OfCounts DEF HoldsValue
  <2> QED BY <1>4, <2>3, OfCounts, ValueGives
<1> QED BY <1>1, <1>2, <1>3, <1>4

\* A count gives as many ones as a word has letters.
LEMMA FromCounts ==
    ASSUME NEW c \in Monoids, c.kind = "count", NEW word \in Seq(Sigma)
    PROVE  Gives(c, From(c, word), [i \in DOMAIN word |-> 1])
<1>1. Len(word) \in Nat /\ DOMAIN word = 1 .. Len(word)
  OBVIOUS
<1>2. Gen(c, Len(word)) = [i \in DOMAIN word |-> 1] /\ HoldsValue(c, Len(word))
  BY <1>1, OfCounts DEF CountGen, HoldsValue
<1> QED BY <1>2, OfCounts, ValueGives

\* A product is the word of the left operand, and then that of the right.
LEMMA MulGives ==
    ASSUME NEW c \in Monoids, NEW v, NEW w, HoldsValue(c, v), HoldsValue(c, w), MulAllowed(c, v, w)
    PROVE  Gives(c, Mul(c, v, w), Gen(c, v) \o Gen(c, w))
<1>1. c.kind \in {"pool", "symbol", "count"}
  BY MonoidTypes
<1>2. CASE c.kind = "pool"
  <2>1. Gen(c, v) \in Seq(Sigma) /\ Gen(c, w) \in Seq(Sigma)
    BY <1>2, GenStands DEF StandsFor
  <2>2. Gen(c, v) \o Gen(c, w) \in Seq(Sigma)
    BY <2>1
  <2>3. Gives(c, Pooled(c, Gen(c, v) \o Gen(c, w)), Gen(c, v) \o Gen(c, w))
    BY ONLY c \in Monoids, <1>2, <2>2, PooledGives
  <2>4. Mul(c, v, w) = Pooled(c, Gen(c, v) \o Gen(c, w))
    BY <1>2, OfAPool, Zenon
  <2> QED BY ONLY <2>3, <2>4
<1>3. CASE c.kind = "symbol"
  <2>1. v \in Sigma \cup {Eps} /\ w \in Sigma \cup {Eps} /\ Eps \in {v, w}
    BY <1>3 DEF HoldsValue, MulAllowed
  <2>2. SymbolMul(v, w) \in Sigma \cup {Eps} /\ SymbolGen(SymbolMul(v, w)) = SymbolGen(v) \o SymbolGen(w)
    <3>1. CASE v = Eps /\ w = Eps
      BY <3>1 DEF SymbolMul, SymbolGen
    <3>2. CASE v = Eps /\ w # Eps
      BY <2>1, <3>2 DEF SymbolMul, SymbolGen
    <3>3. CASE v # Eps /\ w = Eps
      BY <2>1, <3>3 DEF SymbolMul, SymbolGen
    <3> QED BY <2>1, <3>1, <3>2, <3>3
  <2>3. HoldsValue(c, SymbolMul(v, w)) /\ Gen(c, SymbolMul(v, w)) = Gen(c, v) \o Gen(c, w)
    BY <1>3, <2>2, OfLetters DEF HoldsValue
  <2>4. Gives(c, [c |-> c, v |-> SymbolMul(v, w)], Gen(c, v) \o Gen(c, w))
    BY ONLY c \in Monoids, <2>3, ValueGives, Zenon
  <2>5. Mul(c, v, w) = [c |-> c, v |-> SymbolMul(v, w)]
    BY <1>3, OfLetters, Zenon
  <2> QED BY ONLY <2>4, <2>5
<1>4. CASE c.kind = "count"
  <2>1. v \in Nat /\ w \in Nat
    BY <1>4 DEF HoldsValue
  <2>2. v + w \in Nat /\ CountGen(v + w) = CountGen(v) \o CountGen(w)
    <3>1. CountGen(v) \in Seq({1}) /\ Len(CountGen(v)) = v /\ CountGen(w) \in Seq({1}) /\ Len(CountGen(w)) = w
      BY <2>1 DEF CountGen
    <3>2. /\ CountGen(v + w) \in Seq({1}) /\ Len(CountGen(v + w)) = v + w
          /\ \A i \in 1 .. v + w : CountGen(v + w)[i] = 1
      BY <2>1 DEF CountGen
    <3>3. /\ CountGen(v) \o CountGen(w) \in Seq({1})
          /\ Len(CountGen(v) \o CountGen(w)) = v + w
      BY <3>1
    <3>4. \A i \in 1 .. v + w : (CountGen(v) \o CountGen(w))[i] = 1
      BY <3>3
    <3> QED BY ONLY <2>1, <3>2, <3>3, <3>4, SeqEqual
  <2>3. HoldsValue(c, v + w) /\ Gen(c, v + w) = Gen(c, v) \o Gen(c, w)
    BY <1>4, <2>2, OfCounts DEF HoldsValue
  <2>4. Gives(c, [c |-> c, v |-> v + w], Gen(c, v) \o Gen(c, w))
    BY ONLY c \in Monoids, <2>3, ValueGives, Zenon
  <2>5. Mul(c, v, w) = [c |-> c, v |-> v + w]
    BY <1>4, OfCounts, Zenon
  <2> QED BY ONLY <2>4, <2>5
<1> QED BY <1>1, <1>2, <1>3, <1>4


\* A prefix: the letters are those of the other word.
LEMMA PrefixAgrees ==
    ASSUME NEW S, NEW v \in Seq(S), NEW w \in Seq(S)
    PROVE  IsPrefix(v, w) <=> Len(v) <= Len(w) /\ \A i \in 1 .. Len(v) : v[i] = w[i]
<1>1. Len(v) \in Nat /\ Len(w) \in Nat /\ SubSeq(v, 1, Len(v)) = v
  OBVIOUS
<1>2. ASSUME Len(v) <= Len(w)
      PROVE  /\ SubSeq(w, 1, Len(v)) \in Seq(S) /\ Len(SubSeq(w, 1, Len(v))) = Len(v)
             /\ \A i \in 1 .. Len(v) : SubSeq(w, 1, Len(v))[i] = w[i]
  BY <1>1, <1>2
<1>3. ASSUME IsPrefix(v, w)
      PROVE  Len(v) <= Len(w) /\ \A i \in 1 .. Len(v) : v[i] = w[i]
  <2>1. Len(v) <= Len(w) /\ SubSeq(w, 1, Len(v)) = v
    BY <1>1, <1>3 DEF IsPrefix
  <2> QED BY <1>2, <2>1
<1>4. ASSUME Len(v) <= Len(w), \A i \in 1 .. Len(v) : v[i] = w[i]
      PROVE  IsPrefix(v, w)
  <2> DEFINE p == SubSeq(w, 1, Len(v))
  <2>1. p \in Seq(S) /\ Len(p) = Len(v) /\ \A i \in 1 .. Len(v) : v[i] = p[i]
    BY <1>2, <1>4
  <2> HIDE DEF p
  <2>2. v = p
    BY <2>1, SeqEqual
  <2> QED BY <1>1, <1>4, <2>2 DEF p, IsPrefix
<1> QED BY <1>3, <1>4

\* The longest common prefix of a word and one that goes on from it is the word.
LEMMA PrefixOfLonger ==
    ASSUME NEW S, NEW v \in Seq(S), NEW w \in Seq(S), IsPrefix(v, w)
    PROVE  Prefix(v, w) = v /\ Prefix(w, v) = v
<1> DEFINE C == CommonPrefixes({v, w})
<1>1. C = {p \in Prefixes(v) \cup Prefixes(w) : IsPrefix(p, v) /\ IsPrefix(p, w)}
  <2>1. UNION {Prefixes(seq) : seq \in {v, w}} = Prefixes(v) \cup Prefixes(w)
    OBVIOUS
  <2> QED BY <2>1 DEF CommonPrefixes
<1>2. Len(v) \in Nat /\ Len(w) \in Nat /\ SubSeq(v, 1, Len(v)) = v
  OBVIOUS
<1>3. v \in Prefixes(v) /\ IsPrefix(v, v)
  <2>1. Len(v) \in 0 .. Len(v)
    BY <1>2
  <2>2. v \in Prefixes(v)
    BY <1>2, <2>1 DEF Prefixes
  <2> QED BY <1>2, <2>2 DEF IsPrefix
<1>4. v \in C
  BY <1>1, <1>3
<1>5. \A p \in Prefixes(v) \cup Prefixes(w) : p \in Seq(S)
  BY DEF Prefixes
<1>6. \A p \in C : p \in Seq(S) /\ IsPrefix(p, v)
  BY <1>1, <1>5
<1>7. \A p \in C : Len(p) <= Len(v)
  BY <1>6, PrefixAgrees
<1>8. ASSUME NEW p \in C, \A q \in C : Len(q) <= Len(p)
      PROVE  p = v
  <2> HIDE DEF C
  <2>1. p \in Seq(S) /\ Len(p) <= Len(v) /\ \A i \in 1 .. Len(p) : p[i] = v[i]
    BY <1>6, PrefixAgrees
  <2>2. Len(v) <= Len(p) /\ Len(p) \in Nat
    BY <1>4, <1>8, <2>1
  <2>3. Len(p) = Len(v)
    BY <1>2, <2>1, <2>2
  <2> QED BY <2>1, <2>3, SeqEqual
<1> HIDE DEF C
<1>9. (CHOOSE p \in C : \A q \in C : Len(q) <= Len(p)) = v
  BY <1>4, <1>7, <1>8
<1>10. Prefix(v, w) = v
  BY <1>9 DEF Prefix, C
<1>11. {w, v} = {v, w}
  OBVIOUS
<1> QED BY <1>9, <1>10, <1>11 DEF Prefix, C

\* The longest common prefix of two words is a word over their letters.
LEMMA PrefixIsWord ==
    ASSUME NEW S, NEW v \in Seq(S), NEW w \in Seq(S)
    PROVE  Prefix(v, w) \in Seq(S)
<1> DEFINE C == CommonPrefixes({v, w})
           D == {l \in 0 .. Len(v) : SubSeq(v, 1, l) \in C}
<1>1. C = {p \in Prefixes(v) \cup Prefixes(w) : IsPrefix(p, v) /\ IsPrefix(p, w)}
  <2>1. UNION {Prefixes(seq) : seq \in {v, w}} = Prefixes(v) \cup Prefixes(w)
    OBVIOUS
  <2> QED BY <2>1 DEF CommonPrefixes
<1>2. Len(v) \in Nat /\ Len(w) \in Nat
  OBVIOUS
<1>3. \A p \in Prefixes(v) \cup Prefixes(w) : p \in Seq(S)
  BY DEF Prefixes
<1>4. \A p \in C : p \in Seq(S) /\ IsPrefix(p, v)
  BY <1>1, <1>3
<1>5. 0 \in D
  <2>1. SubSeq(v, 1, 0) = <<>> /\ <<>> \in Seq(S) /\ Len(<<>>) = 0
    OBVIOUS
  <2>2. <<>> \in Prefixes(v)
    BY <1>2, <2>1 DEF Prefixes
  <2>3. IsPrefix(<<>>, v) /\ IsPrefix(<<>>, w)
    <3>1. SubSeq(<<>>, 1, 0) = <<>> /\ SubSeq(v, 1, 0) = <<>> /\ SubSeq(w, 1, 0) = <<>>
      OBVIOUS
    <3> QED BY <1>2, <2>1, <3>1 DEF IsPrefix
  <2>4. <<>> \in C
    BY <1>1, <2>2, <2>3
  <2> HIDE DEF C
  <2>5. SubSeq(v, 1, 0) \in C
    BY ONLY <2>1, <2>4, Zenon
  <2>6. 0 \in 0 .. Len(v)
    BY <1>2
  <2> QED BY ONLY <2>5, <2>6
<1>6. D \in SUBSET Nat /\ D # {}
  <2>1. D \subseteq 0 .. Len(v)
    OBVIOUS
  <2> HIDE DEF D
  <2> QED BY <1>2, <1>5, <2>1
<1>7. IsFiniteSet(D)
  <2>1. IsFiniteSet(0 .. Len(v)) /\ D \subseteq 0 .. Len(v)
    BY <1>2, FS_Interval
  <2> HIDE DEF D
  <2> QED BY ONLY <2>1, FS_Subset
<1>8. PICK l \in D : \A k \in D : k <= l
  <2> HIDE DEF D
  <2> QED BY ONLY <1>6, <1>7, LargestMember
<1>9. \A q \in C : Len(q) \in D
  <2> SUFFICES ASSUME NEW q \in C
               PROVE  Len(q) \in D
    OBVIOUS
  <2>1. q \in Seq(S) /\ IsPrefix(q, v)
    BY <1>4
  <2>2. Len(q) \in Nat /\ Len(q) <= Len(v) /\ SubSeq(q, 1, Len(q)) = SubSeq(v, 1, Len(q)) /\ SubSeq(q, 1, Len(q)) = q
    BY <2>1 DEF IsPrefix
  <2>3. Len(q) \in 0 .. Len(v) /\ SubSeq(v, 1, Len(q)) = q
    BY <1>2, <2>2
  <2> HIDE DEF C
  <2> QED BY <2>3
<1>10. SubSeq(v, 1, l) \in C /\ Len(SubSeq(v, 1, l)) = l
  <2>1. l \in 0 .. Len(v) /\ SubSeq(v, 1, l) \in C
    BY <1>8
  <2> HIDE DEF C, D
  <2> QED BY <1>2, <2>1
<1> HIDE DEF C, D
<1>11. (CHOOSE p \in C : \A q \in C : Len(q) <= Len(p)) \in C
  <2>1. \A q \in C : Len(q) <= Len(SubSeq(v, 1, l))
    BY <1>8, <1>9, <1>10
  <2> QED BY <1>10, <2>1
<1> QED BY <1>4, <1>11 DEF Prefix, C


\* A value divided by another is what is left of its word.
LEMMA InvMulGives ==
    ASSUME NEW c \in Monoids, NEW v, NEW w, HoldsValue(c, v), HoldsValue(c, w), InvMulAllowed(c, v, w)
    PROVE  Gives(c, InvMul(c, v, w), SubSeq(Gen(c, w), Len(Gen(c, v)) + 1, Len(Gen(c, w))))
<1> DEFINE rest == SubSeq(Gen(c, w), Len(Gen(c, v)) + 1, Len(Gen(c, w)))
<1>1. c.kind \in {"pool", "symbol", "count"}
  BY MonoidTypes
<1>2. CASE c.kind = "pool"
  <2>1. Gen(c, v) \in Seq(Sigma) /\ Gen(c, w) \in Seq(Sigma)
    BY <1>2, GenStands DEF StandsFor
  <2>2. rest \in Seq(Sigma)
    BY <2>1
  <2>3. InvMul(c, v, w) = Pooled(c, rest)
    BY <1>2, OfAPool, Zenon
  <2> HIDE DEF rest
  <2>4. Gives(c, Pooled(c, rest), rest)
    BY <1>2, <2>2, PooledGives
  <2> QED BY <2>3, <2>4 DEF rest
<1>3. CASE c.kind = "symbol"
  <2>1. v \in Sigma \cup {Eps} /\ w \in Sigma \cup {Eps} /\ Gen(c, v) = SymbolGen(v) /\ Gen(c, w) = SymbolGen(w)
    BY <1>3, OfLetters DEF HoldsValue
  <2>2. SymbolInvMul(v, w) \in Sigma \cup {Eps} /\ SymbolGen(SymbolInvMul(v, w)) = rest
    <3>1. CASE v = Eps
      <4>1. Gen(c, v) = <<>> /\ SymbolInvMul(v, w) = w
        BY <2>1, <3>1 DEF SymbolGen, SymbolInvMul
      <4>2. rest = Gen(c, w)
        <5>1. Gen(c, w) \in Seq(Sigma)
          BY <1>3, GenStands DEF StandsFor
        <5> QED BY <4>1, <5>1
      <4> QED BY <2>1, <4>1, <4>2
    <3>2. CASE v # Eps
      <4>1. Gen(c, v) = <<v>> /\ SymbolInvMul(v, w) = Eps
        BY <2>1, <3>2 DEF SymbolGen, SymbolInvMul
      <4>2. Len(Gen(c, v)) <= Len(Gen(c, w)) /\ Len(Gen(c, v)) = 1
        BY <4>1 DEF InvMulAllowed, IsPrefix
      <4>3. Gen(c, w) \in Seq(Sigma) /\ Len(Gen(c, w)) \in Nat /\ Len(Gen(c, w)) <= 1
        BY <1>3, GenStands DEF StandsFor
      <4>4. rest = <<>>
        BY <4>2, <4>3
      <4> QED BY <4>1, <4>4 DEF SymbolGen
    <3> QED BY <3>1, <3>2
  <2> HIDE DEF rest
  <2>3. HoldsValue(c, SymbolInvMul(v, w)) /\ Gen(c, SymbolInvMul(v, w)) = rest
    BY <1>3, <2>2, OfLetters DEF HoldsValue
  <2>4. Gives(c, [c |-> c, v |-> SymbolInvMul(v, w)], rest)
    BY <2>3, ValueGives
  <2>5. InvMul(c, v, w) = [c |-> c, v |-> SymbolInvMul(v, w)]
    BY <1>3, OfLetters, Zenon
  <2> QED BY <2>4, <2>5 DEF rest
<1>4. CASE c.kind = "count"
  <2>1. v \in Nat /\ w \in Nat /\ Gen(c, v) = CountGen(v) /\ Gen(c, w) = CountGen(w)
    BY <1>4, OfCounts DEF HoldsValue
  <2>2. /\ CountGen(v) \in Seq({1}) /\ Len(CountGen(v)) = v /\ CountGen(w) \in Seq({1}) /\ Len(CountGen(w)) = w
        /\ \A i \in 1 .. w : CountGen(w)[i] = 1
    BY <2>1 DEF CountGen
  <2>3. v <= w
    BY <2>1, <2>2 DEF InvMulAllowed, IsPrefix
  <2>4. w - v \in Nat
    BY <2>1, <2>3
  <2>5. CountGen(w - v) = rest
    <3>1. rest = SubSeq(CountGen(w), v + 1, w)
      BY <2>1, <2>2
    <3>2. /\ CountGen(w - v) \in Seq({1}) /\ Len(CountGen(w - v)) = w - v
          /\ \A i \in 1 .. w - v : CountGen(w - v)[i] = 1
      BY <2>4 DEF CountGen
    <3> HIDE DEF rest
    <3>3. rest \in Seq({1}) /\ Len(rest) = w - v /\ \A i \in 1 .. w - v : rest[i] = 1
      BY <2>1, <2>2, <2>3, <3>1
    <3> QED BY ONLY <2>4, <3>2, <3>3, SeqEqual
  <2> HIDE DEF rest
  <2>6. HoldsValue(c, w - v) /\ Gen(c, w - v) = rest
    BY <1>4, <2>4, <2>5, OfCounts DEF HoldsValue
  <2>7. Gives(c, [c |-> c, v |-> w - v], rest)
    BY ONLY c \in Monoids, <2>6, ValueGives, Zenon
  <2>8. InvMul(c, v, w) = [c |-> c, v |-> w - v]
    BY <1>4, OfCounts, Zenon
  <2> QED BY <2>7, <2>8 DEF rest
<1> QED BY <1>1, <1>2, <1>3, <1>4

\* The greatest common prefix of two values is that of their words.
LEMMA GcpGives ==
    ASSUME NEW c \in Monoids, NEW v, NEW w, HoldsValue(c, v), HoldsValue(c, w), GcpAllowed(c, v, w)
    PROVE  Gives(c, Gcp(c, v, w), Prefix(Gen(c, v), Gen(c, w)))
<1>1. c.kind \in {"pool", "symbol", "count"}
  BY MonoidTypes
<1> DEFINE common == Prefix(Gen(c, v), Gen(c, w))
<1>2. CASE c.kind = "pool"
  <2>1. Gen(c, v) \in Seq(Sigma) /\ Gen(c, w) \in Seq(Sigma)
    BY <1>2, GenStands DEF StandsFor
  <2>2. common \in Seq(Sigma)
    BY <2>1, PrefixIsWord
  <2>3. Gcp(c, v, w) = Pooled(c, common)
    BY <1>2, OfAPool, Zenon
  <2> HIDE DEF common
  <2>4. Gives(c, Pooled(c, common), common)
    BY <1>2, <2>2, PooledGives
  <2> QED BY <2>3, <2>4 DEF common
<1>3. CASE c.kind = "symbol"
  <2>1. v \in Sigma \cup {Eps} /\ w \in Sigma \cup {Eps} /\ Gen(c, v) = SymbolGen(v) /\ Gen(c, w) = SymbolGen(w)
    BY <1>3, OfLetters DEF HoldsValue
  <2>2. Gen(c, v) \in Seq(Sigma) /\ Gen(c, w) \in Seq(Sigma)
    BY <1>3, GenStands DEF StandsFor
  <2>3. Eps \in {v, w} \/ v = w
    BY <1>3 DEF GcpAllowed
  <2>4. \A word \in Seq(Sigma) : IsPrefix(<<>>, word) /\ IsPrefix(word, word)
    BY DEF IsPrefix
  <2>5. SymbolGcp(v, w) \in Sigma \cup {Eps} /\ SymbolGen(SymbolGcp(v, w)) = common
    <3>1. CASE Eps \in {v, w}
      <4>1. SymbolGcp(v, w) = Eps /\ SymbolGen(Eps) = <<>> /\ (Gen(c, v) = <<>> \/ Gen(c, w) = <<>>)
        BY <2>1, <3>1 DEF SymbolGcp, SymbolGen
      <4>2. common = <<>>
        BY <2>2, <2>4, <4>1, PrefixOfLonger
      <4> QED BY <4>1, <4>2
    <3>2. CASE Eps \notin {v, w}
      <4>1. v = w /\ SymbolGcp(v, w) = v
        BY <2>3, <3>2 DEF SymbolGcp
      <4>2. common = Gen(c, v)
        BY <2>2, <2>4, <4>1, PrefixOfLonger
      <4> QED BY <2>1, <4>1, <4>2
    <3> QED BY <3>1, <3>2
  <2> HIDE DEF common
  <2>6. HoldsValue(c, SymbolGcp(v, w)) /\ Gen(c, SymbolGcp(v, w)) = common
    BY <1>3, <2>5, OfLetters DEF HoldsValue
  <2>7. Gives(c, [c |-> c, v |-> SymbolGcp(v, w)], common)
    BY <2>6, ValueGives
  <2>8. Gcp(c, v, w) = [c |-> c, v |-> SymbolGcp(v, w)]
    BY <1>3, OfLetters, Zenon
  <2> QED BY <2>7, <2>8 DEF common
<1>4. CASE c.kind = "count"
  <2>1. v \in Nat /\ w \in Nat /\ Gen(c, v) = CountGen(v) /\ Gen(c, w) = CountGen(w)
    BY <1>4, OfCounts DEF HoldsValue
  <2>2. \A m, n \in Nat : m <= n => IsPrefix(CountGen(m), CountGen(n))
    <3> SUFFICES ASSUME NEW m \in Nat, NEW n \in Nat, m <= n
                 PROVE  IsPrefix(CountGen(m), CountGen(n))
      OBVIOUS
    <3>1. CountGen(m) \in Seq({1}) /\ Len(CountGen(m)) = m /\ CountGen(n) \in Seq({1}) /\ Len(CountGen(n)) = n
      BY DEF CountGen
    <3>2. \A i \in 1 .. m : CountGen(m)[i] = CountGen(n)[i]
      BY DEF CountGen
    <3> QED BY ONLY m <= n, <3>1, <3>2, PrefixAgrees
  <2>3. CountGen(v) \in Seq({1}) /\ CountGen(w) \in Seq({1})
    BY <2>1 DEF CountGen
  <2>4. CountGcp(v, w) \in Nat /\ CountGen(CountGcp(v, w)) = common
    <3>1. CASE v < w
      <4>1. IsPrefix(CountGen(v), CountGen(w)) /\ CountGcp(v, w) = v
        BY <2>1, <2>2, <3>1 DEF CountGcp
      <4> QED BY <2>1, <2>3, <4>1, PrefixOfLonger
    <3>2. CASE ~(v < w)
      <4>1. IsPrefix(CountGen(w), CountGen(v)) /\ CountGcp(v, w) = w
        BY <2>1, <2>2, <3>2 DEF CountGcp
      <4> QED BY <2>1, <2>3, <4>1, PrefixOfLonger
    <3> QED BY <3>1, <3>2
  <2> HIDE DEF common
  <2>5. HoldsValue(c, CountGcp(v, w)) /\ Gen(c, CountGcp(v, w)) = common
    BY <1>4, <2>4, OfCounts DEF HoldsValue
  <2>6. Gives(c, [c |-> c, v |-> CountGcp(v, w)], common)
    BY <2>5, ValueGives
  <2>7. Gcp(c, v, w) = [c |-> c, v |-> CountGcp(v, w)]
    BY <1>4, OfCounts, Zenon
  <2> QED BY <2>6, <2>7 DEF common
<1> QED BY <1>1, <1>2, <1>3, <1>4

--------------------------------------------------------------------------------
\* The tapes of a product.
LEMMA ProductTypes ==
    ASSUME NEW m, IsProduct(m)
    PROVE  /\ m = Product(m.owned, m.slots) /\ Tapes(m) = 1 .. 2
           /\ m.slots[1] = 1 /\ m.slots[2] \in 1 .. 2
           /\ DOMAIN m.owned = 1 .. m.slots[2]
           /\ \A t \in 1 .. 2 : m.slots[t] \in 1 .. m.slots[2]
           /\ \A j \in 1 .. m.slots[2] : m.owned[j] \in Monoids
           /\ \A t \in 1 .. 2 : Tape(m, t) = m.owned[m.slots[t]] /\ Tape(m, t) \in Monoids
<1>1. /\ m = Product(m.owned, m.slots) /\ m.slots \in {<<1, 1>>, <<1, 2>>}
      /\ m.owned \in [1 .. m.slots[2] -> Monoids]
  BY DEF IsProduct
<1>2. DOMAIN m.slots = 1 .. 2 /\ m.slots[1] = 1 /\ m.slots[2] \in 1 .. 2
  <2>1. CASE m.slots = <<1, 1>>
    BY <2>1
  <2>2. CASE m.slots = <<1, 2>>
    BY <2>2
  <2> QED BY <1>1, <2>1, <2>2
<1>3. \A t \in 1 .. 2 : m.slots[t] \in 1 .. m.slots[2]
  BY <1>2
<1>4. DOMAIN m.owned = 1 .. m.slots[2] /\ \A j \in 1 .. m.slots[2] : m.owned[j] \in Monoids
  BY <1>1
<1>5. \A t \in 1 .. 2 : Tape(m, t) = m.owned[m.slots[t]] /\ Tape(m, t) \in Monoids
  BY <1>3, <1>4 DEF Tape
<1> QED BY <1>1, <1>2, <1>3, <1>4, <1>5 DEF Tapes

\* A product grows from itself, and growing twice is growing.
LEMMA ProductGrowsReflexive ==
    ASSUME NEW m, IsProduct(m)
    PROVE  ProductGrows(m, m)
  BY ProductTypes, GrowsReflexive DEF ProductGrows

LEMMA ProductGrowsTransitive ==
    ASSUME NEW m, NEW n, NEW o, IsProduct(m), IsProduct(n), IsProduct(o), ProductGrows(m, n), ProductGrows(n, o)
    PROVE  ProductGrows(m, o)
<1>1. n.slots = m.slots /\ o.slots = m.slots
  BY DEF ProductGrows
<1>2. \A j \in 1 .. m.slots[2] : /\ m.owned[j] \in Monoids /\ n.owned[j] \in Monoids /\ o.owned[j] \in Monoids
                                 /\ Grows(m.owned[j], n.owned[j]) /\ Grows(n.owned[j], o.owned[j])
  BY <1>1, ProductTypes DEF ProductGrows
<1>3. \A j \in 1 .. m.slots[2] : Grows(m.owned[j], o.owned[j])
  BY <1>2, GrowsTransitive
<1> QED BY <1>1, <1>3 DEF ProductGrows

\* The tapes of a product grow with it, and it keeps its shape.
LEMMA TapesGrow ==
    ASSUME NEW m, NEW n, IsProduct(m), IsProduct(n), ProductGrows(m, n)
    PROVE  /\ \A t \in 1 .. 2 : Grows(Tape(m, t), Tape(n, t))
           /\ \A k : HasShape(k, m) => HasShape(k, n)
<1>1. n.slots = m.slots /\ \A j \in 1 .. m.slots[2] : Grows(m.owned[j], n.owned[j])
  BY DEF ProductGrows
<1>2. \A t \in 1 .. 2 : Grows(Tape(m, t), Tape(n, t))
  BY <1>1, ProductTypes
<1>3. \A j \in 1 .. m.slots[2] : n.owned[j].kind = m.owned[j].kind
  BY <1>1 DEF Grows
<1> QED BY <1>1, <1>2, <1>3 DEF HasShape

\* A label stands for the same words when the pools grow.
LEMMA LabelIsKept ==
    ASSUME NEW m, NEW n, IsProduct(m), IsProduct(n), ProductGrows(m, n), NEW label, IsLabelOf(m, label)
    PROVE  IsLabelOf(n, label) /\ WordsOf(n, label) = WordsOf(m, label)
<1>1. \A t \in 1 .. 2 : Tape(m, t) \in Monoids /\ Tape(n, t) \in Monoids /\ Grows(Tape(m, t), Tape(n, t))
  BY ProductTypes, TapesGrow
<1>2. label = <<label[1], label[2]>> /\ \A t \in 1 .. 2 : HoldsValue(Tape(m, t), label[t])
  BY DEF IsLabelOf
<1>3. \A t \in 1 .. 2 : HoldsValue(Tape(n, t), label[t]) /\ Gen(Tape(n, t), label[t]) = Gen(Tape(m, t), label[t])
  BY <1>1, <1>2, GrowsKeeps
<1>4. Tapes(m) = 1 .. 2 /\ Tapes(n) = 1 .. 2
  BY ProductTypes
<1> QED BY <1>2, <1>3, <1>4 DEF IsLabelOf, WordsOf

\* The product with a grown monoid at one of its tapes.
LEMMA WithTapeGrows ==
    ASSUME NEW m, IsProduct(m), NEW t \in 1 .. 2, NEW d \in Monoids, Grows(Tape(m, t), d)
    PROVE  /\ IsProduct(WithTape(m, t, d)) /\ ProductGrows(m, WithTape(m, t, d))
           /\ Tape(WithTape(m, t, d), t) = d
<1> DEFINE j == m.slots[t]
           owned == [m.owned EXCEPT ![j] = d]
<1>1. /\ j \in 1 .. m.slots[2] /\ Tape(m, t) = m.owned[j]
      /\ \A i \in 1 .. m.slots[2] : m.owned[i] \in Monoids
      /\ m.owned \in [1 .. m.slots[2] -> Monoids]
      /\ m.slots \in {<<1, 1>>, <<1, 2>>}
  BY ProductTypes DEF IsProduct
<1>2. WithTape(m, t, d) = [owned |-> owned, slots |-> m.slots]
  BY DEF WithTape, Product
<1> HIDE DEF j
<1>3. owned \in [1 .. m.slots[2] -> Monoids] /\ owned[j] = d /\ \A i \in 1 .. m.slots[2] : i # j => owned[i] = m.owned[i]
  BY <1>1
<1>4. \A i \in 1 .. m.slots[2] : Grows(m.owned[i], owned[i])
  BY <1>1, <1>3, GrowsReflexive
<1> HIDE DEF owned
<1> DEFINE n == WithTape(m, t, d)
<1>5. n.owned = owned /\ n.slots = m.slots /\ n = Product(n.owned, n.slots)
  BY <1>2 DEF Product
<1> HIDE DEF n
<1>6. IsProduct(n)
  BY <1>1, <1>3, <1>5 DEF IsProduct
<1>7. ProductGrows(m, n)
  BY <1>4, <1>5 DEF ProductGrows
<1>8. Tape(n, t) = d
  BY <1>3, <1>5 DEF Tape, j
<1> QED BY <1>6, <1>7, <1>8 DEF n

\* An operation on the first tape, and then on the second, gives a label, also
\* when both are values of one pool.
LEMMA BothTapesGive ==
    ASSUME NEW m, IsProduct(m), NEW texts, NEW first, Gives(Tape(m, 1), first, texts[1]),
           NEW second, Gives(Tape(WithTape(m, 1, first.c), 2), second, texts[2])
    PROVE  GivesLabel(m, [m |-> WithTape(WithTape(m, 1, first.c), 2, second.c), v |-> <<first.v, second.v>>], texts)
<1> DEFINE n == WithTape(m, 1, first.c)
           o == WithTape(n, 2, second.c)
           r == [m |-> o, v |-> <<first.v, second.v>>]
<1>1. /\ first.c \in Monoids /\ Grows(Tape(m, 1), first.c)
      /\ HoldsValue(first.c, first.v) /\ Gen(first.c, first.v) = texts[1]
  BY DEF Gives
<1>2. IsProduct(n) /\ ProductGrows(m, n) /\ Tape(n, 1) = first.c
  BY <1>1, WithTapeGrows
<1>3. /\ second.c \in Monoids /\ Grows(Tape(n, 2), second.c)
      /\ HoldsValue(second.c, second.v) /\ Gen(second.c, second.v) = texts[2]
  BY DEF Gives
<1> HIDE DEF n
<1>4. IsProduct(o) /\ ProductGrows(n, o) /\ Tape(o, 2) = second.c
  BY <1>2, <1>3, WithTapeGrows
<1>5. r.m = o /\ r.v[1] = first.v /\ r.v[2] = second.v /\ r.v = <<r.v[1], r.v[2]>>
  OBVIOUS
<1> HIDE DEF o, r
<1>6. ProductGrows(m, o)
  BY <1>2, <1>4, ProductGrowsTransitive
<1>7. Tape(n, 1) \in Monoids /\ Tape(o, 1) \in Monoids /\ Grows(Tape(n, 1), Tape(o, 1))
  BY <1>2, <1>4, ProductTypes, TapesGrow
<1>8. HoldsValue(Tape(o, 1), first.v) /\ Gen(Tape(o, 1), first.v) = texts[1]
  BY <1>1, <1>2, <1>7, GrowsKeeps
<1>9. IsLabelOf(r.m, r.v)
  BY <1>3, <1>4, <1>5, <1>8 DEF IsLabelOf
<1>10. \A t \in 1 .. 2 : Gen(Tape(r.m, t), r.v[t]) = texts[t]
  BY <1>3, <1>4, <1>5, <1>8
<1>11. GivesLabel(m, r, texts)
  BY <1>4, <1>5, <1>6, <1>9, <1>10 DEF GivesLabel
<1> QED BY <1>11 DEF r, o, n


\* The second tape, after the operation on the first.
LEMMA SecondTape ==
    ASSUME NEW m, IsProduct(m), NEW word, NEW first, Gives(Tape(m, 1), first, word)
    PROVE  /\ Tape(WithTape(m, 1, first.c), 2) \in Monoids
           /\ Grows(Tape(m, 2), Tape(WithTape(m, 1, first.c), 2))
           /\ Tape(WithTape(m, 1, first.c), 2).kind = Tape(m, 2).kind
<1>1. first.c \in Monoids /\ Grows(Tape(m, 1), first.c)
  BY DEF Gives
<1> DEFINE n == WithTape(m, 1, first.c)
<1>2. IsProduct(n) /\ ProductGrows(m, n)
  BY <1>1, WithTapeGrows
<1> HIDE DEF n
<1>3. Tape(n, 2) \in Monoids /\ Grows(Tape(m, 2), Tape(n, 2))
  BY <1>2, ProductTypes, TapesGrow
<1> QED BY <1>3 DEF Grows, n

\* from() gives a label for words the tapes can hold; a count counts their letters.
Counted(c, word) == IF c.kind = "count" THEN [i \in DOMAIN word |-> 1] ELSE word

LEMMA FromGivesCounted ==
    ASSUME NEW c \in Monoids, NEW word,
           StandsFor(c, word) \/ (word \in Seq(Sigma) /\ (c.kind = "symbol" => Len(word) <= 1))
    PROVE  Gives(c, From(c, word), Counted(c, word))
<1>1. CASE c.kind = "count" /\ word \in Seq(Sigma)
  BY <1>1, FromCounts DEF Counted
<1>2. CASE c.kind = "count" /\ StandsFor(c, word)
  <2>1. word \in Seq({1})
    BY <1>2 DEF StandsFor
  <2>2. Counted(c, word) = word
    BY <1>2, <2>1 DEF Counted
  <2> QED BY <1>2, <2>2, FromGives
<1>3. CASE c.kind # "count"
  <2>1. StandsFor(c, word)
    BY <1>3 DEF StandsFor
  <2> QED BY <1>3, <2>1, FromGives DEF Counted
<1> QED BY <1>1, <1>2, <1>3

LEMMA LabelOfGives ==
    ASSUME NEW m, IsProduct(m), NEW texts,
           \A t \in 1 .. 2 : \/ StandsFor(Tape(m, t), texts[t])
                             \/ texts[t] \in Seq(Sigma) /\ (Tape(m, t).kind = "symbol" => Len(texts[t]) <= 1)
    PROVE  GivesLabel(m, LabelOf(m, texts), [t \in 1 .. 2 |-> Counted(Tape(m, t), texts[t])])
<1> DEFINE counted == [t \in 1 .. 2 |-> Counted(Tape(m, t), texts[t])]
           first == From(Tape(m, 1), texts[1])
           n == WithTape(m, 1, first.c)
           second == From(Tape(n, 2), texts[2])
<1>1. Gives(Tape(m, 1), first, counted[1])
  <2>1. Tape(m, 1) \in Monoids
    BY ProductTypes
  <2>2. Gives(Tape(m, 1), From(Tape(m, 1), texts[1]), Counted(Tape(m, 1), texts[1]))
    BY <2>1, FromGivesCounted
  <2> QED BY <2>2
<1> HIDE DEF first
<1>2. Tape(n, 2) \in Monoids /\ Tape(n, 2).kind = Tape(m, 2).kind
  BY <1>1, SecondTape
<1>3. Gives(Tape(n, 2), second, counted[2])
  <2> HIDE DEF n
  <2>1. \/ StandsFor(Tape(n, 2), texts[2])
        \/ texts[2] \in Seq(Sigma) /\ (Tape(n, 2).kind = "symbol" => Len(texts[2]) <= 1)
    BY <1>2 DEF StandsFor
  <2>2. Gives(Tape(n, 2), From(Tape(n, 2), texts[2]), Counted(Tape(n, 2), texts[2]))
    BY <1>2, <2>1, FromGivesCounted
  <2>3. counted[2] = Counted(Tape(n, 2), texts[2])
    BY <1>2 DEF Counted
  <2> QED BY <2>2, <2>3
<1>4. LabelOf(m, texts) = [m |-> WithTape(n, 2, second.c), v |-> <<first.v, second.v>>]
  BY DEF LabelOf, OnTapes, first
<1> HIDE DEF second, counted
<1>5. GivesLabel(m, [m |-> WithTape(n, 2, second.c), v |-> <<first.v, second.v>>], counted)
  BY <1>1, <1>3, BothTapesGive
<1> QED BY <1>4, <1>5 DEF counted

\* The products, the quotients and the common prefixes of two labels.
LEMMA TimesGives ==
    ASSUME NEW m, IsProduct(m), NEW a, NEW b, IsLabelOf(m, a), IsLabelOf(m, b),
           \A t \in 1 .. 2 : MulAllowed(Tape(m, t), a[t], b[t])
    PROVE  GivesLabel(m, Times(m, a, b), [t \in 1 .. 2 |-> WordsOf(m, a)[t] \o WordsOf(m, b)[t]])
<1> DEFINE texts == [t \in 1 .. 2 |-> WordsOf(m, a)[t] \o WordsOf(m, b)[t]]
           first == Mul(Tape(m, 1), a[1], b[1])
           n == WithTape(m, 1, first.c)
           second == Mul(Tape(n, 2), a[2], b[2])
<1>1. \A t \in 1 .. 2 : /\ Tape(m, t) \in Monoids /\ HoldsValue(Tape(m, t), a[t]) /\ HoldsValue(Tape(m, t), b[t])
                        /\ WordsOf(m, a)[t] = Gen(Tape(m, t), a[t]) /\ WordsOf(m, b)[t] = Gen(Tape(m, t), b[t])
  BY ProductTypes DEF IsLabelOf, WordsOf
<1>2. Gives(Tape(m, 1), first, texts[1])
  BY <1>1, MulGives
<1> HIDE DEF first
<1>3. Tape(n, 2) \in Monoids /\ Grows(Tape(m, 2), Tape(n, 2)) /\ Tape(n, 2).kind = Tape(m, 2).kind
  BY <1>2, SecondTape
<1>4. Gives(Tape(n, 2), second, texts[2])
  <2> HIDE DEF n
  <2>1. /\ HoldsValue(Tape(n, 2), a[2]) /\ Gen(Tape(n, 2), a[2]) = WordsOf(m, a)[2]
        /\ HoldsValue(Tape(n, 2), b[2]) /\ Gen(Tape(n, 2), b[2]) = WordsOf(m, b)[2]
    BY <1>1, <1>3, GrowsKeeps
  <2>2. MulAllowed(Tape(n, 2), a[2], b[2])
    BY <1>3 DEF MulAllowed
  <2>3. Gives(Tape(n, 2), Mul(Tape(n, 2), a[2], b[2]), Gen(Tape(n, 2), a[2]) \o Gen(Tape(n, 2), b[2]))
    BY <1>3, <2>1, <2>2, MulGives
  <2> QED BY <2>1, <2>3
<1>5. Times(m, a, b) = [m |-> WithTape(n, 2, second.c), v |-> <<first.v, second.v>>]
  BY DEF Times, OnTapes, first
<1> HIDE DEF second, texts
<1>6. GivesLabel(m, [m |-> WithTape(n, 2, second.c), v |-> <<first.v, second.v>>], texts)
  BY <1>2, <1>4, BothTapesGive
<1> QED BY <1>5, <1>6 DEF texts

LEMMA WithoutGives ==
    ASSUME NEW m, IsProduct(m), NEW a, NEW b, IsLabelOf(m, a), IsLabelOf(m, b),
           \A t \in 1 .. 2 : InvMulAllowed(Tape(m, t), a[t], b[t])
    PROVE  GivesLabel(m, Without(m, a, b),
               [t \in 1 .. 2 |-> SubSeq(WordsOf(m, b)[t], Len(WordsOf(m, a)[t]) + 1, Len(WordsOf(m, b)[t]))])
<1> DEFINE texts == [t \in 1 .. 2 |-> SubSeq(WordsOf(m, b)[t], Len(WordsOf(m, a)[t]) + 1, Len(WordsOf(m, b)[t]))]
           first == InvMul(Tape(m, 1), a[1], b[1])
           n == WithTape(m, 1, first.c)
           second == InvMul(Tape(n, 2), a[2], b[2])
<1>1. \A t \in 1 .. 2 : /\ Tape(m, t) \in Monoids /\ HoldsValue(Tape(m, t), a[t]) /\ HoldsValue(Tape(m, t), b[t])
                        /\ WordsOf(m, a)[t] = Gen(Tape(m, t), a[t]) /\ WordsOf(m, b)[t] = Gen(Tape(m, t), b[t])
  BY ProductTypes DEF IsLabelOf, WordsOf
<1>2. Gives(Tape(m, 1), first, texts[1])
  BY <1>1, InvMulGives
<1> HIDE DEF first
<1>3. Tape(n, 2) \in Monoids /\ Grows(Tape(m, 2), Tape(n, 2))
  BY <1>2, SecondTape
<1>4. Gives(Tape(n, 2), second, texts[2])
  <2> HIDE DEF n
  <2>1. /\ HoldsValue(Tape(n, 2), a[2]) /\ Gen(Tape(n, 2), a[2]) = WordsOf(m, a)[2]
        /\ HoldsValue(Tape(n, 2), b[2]) /\ Gen(Tape(n, 2), b[2]) = WordsOf(m, b)[2]
    BY <1>1, <1>3, GrowsKeeps
  <2>2. InvMulAllowed(Tape(n, 2), a[2], b[2])
    BY <1>1, <2>1 DEF InvMulAllowed
  <2>3. Gives(Tape(n, 2), InvMul(Tape(n, 2), a[2], b[2]),
              SubSeq(Gen(Tape(n, 2), b[2]), Len(Gen(Tape(n, 2), a[2])) + 1, Len(Gen(Tape(n, 2), b[2]))))
    BY <1>3, <2>1, <2>2, InvMulGives
  <2> QED BY <2>1, <2>3
<1>5. Without(m, a, b) = [m |-> WithTape(n, 2, second.c), v |-> <<first.v, second.v>>]
  BY DEF Without, OnTapes, first
<1> HIDE DEF second, texts
<1>6. GivesLabel(m, [m |-> WithTape(n, 2, second.c), v |-> <<first.v, second.v>>], texts)
  BY <1>2, <1>4, BothTapesGive
<1> QED BY <1>5, <1>6 DEF texts

LEMMA CommonGives ==
    ASSUME NEW m, IsProduct(m), NEW a, NEW b, IsLabelOf(m, a), IsLabelOf(m, b),
           \A t \in 1 .. 2 : GcpAllowed(Tape(m, t), a[t], b[t])
    PROVE  GivesLabel(m, Common(m, a, b), [t \in 1 .. 2 |-> Prefix(WordsOf(m, a)[t], WordsOf(m, b)[t])])
<1> DEFINE texts == [t \in 1 .. 2 |-> Prefix(WordsOf(m, a)[t], WordsOf(m, b)[t])]
           first == Gcp(Tape(m, 1), a[1], b[1])
           n == WithTape(m, 1, first.c)
           second == Gcp(Tape(n, 2), a[2], b[2])
<1>1. \A t \in 1 .. 2 : /\ Tape(m, t) \in Monoids /\ HoldsValue(Tape(m, t), a[t]) /\ HoldsValue(Tape(m, t), b[t])
                        /\ WordsOf(m, a)[t] = Gen(Tape(m, t), a[t]) /\ WordsOf(m, b)[t] = Gen(Tape(m, t), b[t])
  BY ProductTypes DEF IsLabelOf, WordsOf
<1>2. Gives(Tape(m, 1), first, texts[1])
  BY <1>1, GcpGives
<1> HIDE DEF first
<1>3. Tape(n, 2) \in Monoids /\ Grows(Tape(m, 2), Tape(n, 2)) /\ Tape(n, 2).kind = Tape(m, 2).kind
  BY <1>2, SecondTape
<1>4. Gives(Tape(n, 2), second, texts[2])
  <2> HIDE DEF n
  <2>1. /\ HoldsValue(Tape(n, 2), a[2]) /\ Gen(Tape(n, 2), a[2]) = WordsOf(m, a)[2]
        /\ HoldsValue(Tape(n, 2), b[2]) /\ Gen(Tape(n, 2), b[2]) = WordsOf(m, b)[2]
    BY <1>1, <1>3, GrowsKeeps
  <2>2. GcpAllowed(Tape(n, 2), a[2], b[2])
    BY <1>3 DEF GcpAllowed
  <2>3. Gives(Tape(n, 2), Gcp(Tape(n, 2), a[2], b[2]), Prefix(Gen(Tape(n, 2), a[2]), Gen(Tape(n, 2), b[2])))
    BY <1>3, <2>1, <2>2, GcpGives
  <2> QED BY <2>1, <2>3
<1>5. Common(m, a, b) = [m |-> WithTape(n, 2, second.c), v |-> <<first.v, second.v>>]
  BY DEF Common, OnTapes, first
<1> HIDE DEF second, texts
<1>6. GivesLabel(m, [m |-> WithTape(n, 2, second.c), v |-> <<first.v, second.v>>], texts)
  BY <1>2, <1>4, BothTapesGive
<1> QED BY <1>5, <1>6 DEF texts

--------------------------------------------------------------------------------
\* The fields of a machine.
LEMMA MachineTypes ==
    ASSUME NEW k, NEW m, IsMachine(k, m)
    PROVE  /\ m = Machine(m.monoid, m.arcs, m.outs)
           /\ IsProduct(m.monoid) /\ HasShape(k, m.monoid)
           /\ DOMAIN m.arcs = Arcs /\ m.arcs = [a \in Arcs |-> m.arcs[a]]
           /\ \A a \in Arcs : m.arcs[a] = NoValue \/ IsLabelOf(m.monoid, m.arcs[a])
           /\ m.outs \in Outputs(k)
           /\ \A o \in DOMAIN m.outs : m.outs[o] = NoValue \/ HoldsValue(OutputMonoid(m), m.outs[o])
           /\ OutputMonoid(m) = Tape(m.monoid, 2)
  BY DEF IsMachine, OutputMonoid

LEMMA MachineFields ==
    ASSUME NEW monoid, NEW arcs, NEW outs
    PROVE  /\ Machine(monoid, arcs, outs).monoid = monoid
           /\ Machine(monoid, arcs, outs).arcs = arcs
           /\ Machine(monoid, arcs, outs).outs = outs
           /\ Meaning(arcs, outs).arcs = arcs
           /\ Meaning(arcs, outs).outs = outs
  BY DEF Machine, Meaning

\* A label is not the sign that there is none.
LEMMA LabelIsThere ==
    ASSUME NEW m, IsProduct(m), NEW label, IsLabelOf(m, label)
    PROVE  label # NoValue
<1> DEFINE V == Nat \cup Sigma \cup {Eps}
<1>1. \A c \in Monoids : \A v : HoldsValue(c, v) => v \in V
  <2> SUFFICES ASSUME NEW c \in Monoids, NEW v, HoldsValue(c, v)
               PROVE  v \in V
    OBVIOUS
  <2>1. c.kind \in {"pool", "symbol", "count"} /\ Len(c.pool) \in Nat
    BY MonoidTypes
  <2>2. CASE c.kind = "pool"
    BY <2>1, <2>2 DEF HoldsValue
  <2>3. CASE c.kind = "symbol"
    BY <2>3 DEF HoldsValue
  <2>4. CASE c.kind = "count"
    BY <2>4 DEF HoldsValue
  <2> QED BY <2>1, <2>2, <2>3, <2>4
<1>2. label = <<label[1], label[2]>> /\ label[1] \in V /\ label[2] \in V
  <2> HIDE DEF V
  <2> QED BY <1>1, ProductTypes DEF IsLabelOf
<1>3. NoValue \notin Seq(V)
  BY ValuesAssumption
<1> HIDE DEF V
<1>4. <<label[1], label[2]>> \in Seq(V)
  BY <1>2
<1> QED BY <1>2, <1>3, <1>4

\* A machine keeps its meaning when its pools grow.
LEMMA GrownKeeps ==
    ASSUME NEW k, NEW m, IsMachine(k, m), NEW n, IsProduct(n), ProductGrows(m.monoid, n)
    PROVE  /\ IsMachine(k, Machine(n, m.arcs, m.outs))
           /\ Denoted(Machine(n, m.arcs, m.outs)) = Denoted(m)
<1> DEFINE o == Machine(n, m.arcs, m.outs)
<1>1. o.monoid = n /\ o.arcs = m.arcs /\ o.outs = m.outs
  BY MachineFields
<1> HIDE DEF o
<1>2. IsProduct(m.monoid) /\ HasShape(k, n)
  <2>1. IsProduct(m.monoid) /\ HasShape(k, m.monoid)
    BY MachineTypes
  <2> QED BY <2>1, TapesGrow
<1>3. \A a \in Arcs : m.arcs[a] = NoValue \/ IsLabelOf(n, m.arcs[a])
  <2>1. \A a \in Arcs : m.arcs[a] = NoValue \/ IsLabelOf(m.monoid, m.arcs[a])
    BY MachineTypes
  <2> QED BY <1>2, <2>1, LabelIsKept
<1>4. OutputMonoid(m) \in Monoids /\ OutputMonoid(o) \in Monoids /\ Grows(OutputMonoid(m), OutputMonoid(o))
  BY <1>1, <1>2, ProductTypes, TapesGrow DEF OutputMonoid
<1>5. \A i \in DOMAIN m.outs : m.outs[i] # NoValue =>
         HoldsValue(OutputMonoid(o), m.outs[i]) /\ Gen(OutputMonoid(o), m.outs[i]) = Gen(OutputMonoid(m), m.outs[i])
  <2>1. \A i \in DOMAIN m.outs : m.outs[i] = NoValue \/ HoldsValue(OutputMonoid(m), m.outs[i])
    BY MachineTypes
  <2> QED BY <1>4, <2>1, GrowsKeeps
<1>6. IsMachine(k, o)
  <2>1. o = Machine(o.monoid, o.arcs, o.outs)
    BY <1>1 DEF o
  <2> QED BY <1>1, <1>2, <1>3, <1>5, <2>1, MachineTypes DEF IsMachine
<1>7. ArcWords(o) = ArcWords(m)
  <2>1. \A a \in Arcs : m.arcs[a] # NoValue => WordsOf(n, m.arcs[a]) = WordsOf(m.monoid, m.arcs[a])
    <3>1. \A a \in Arcs : m.arcs[a] = NoValue \/ IsLabelOf(m.monoid, m.arcs[a])
      BY MachineTypes
    <3> QED BY <1>2, <3>1, LabelIsKept
  <2> QED BY <1>1, <2>1 DEF ArcWords
<1>8. [i \in DOMAIN o.outs |-> OutWord(o, i)] = [i \in DOMAIN m.outs |-> OutWord(m, i)]
  BY <1>1, <1>5 DEF OutWord
<1> QED BY <1>6, <1>7, <1>8 DEF Denoted, o

\* A label that is put at a transition stands there, and nothing else changes.
LEMMA ArcIsPut ==
    ASSUME NEW k, NEW m, IsMachine(k, m), NEW a \in Arcs, NEW label, IsLabelOf(m.monoid, label)
    PROVE  LET n == Machine(m.monoid, [m.arcs EXCEPT ![a] = label], m.outs)
           IN  /\ IsMachine(k, n)
               /\ Denoted(n) = Meaning([Denoted(m).arcs EXCEPT ![a] = WordsOf(m.monoid, label)], Denoted(m).outs)
<1> DEFINE arcs == [m.arcs EXCEPT ![a] = label]
           n == Machine(m.monoid, arcs, m.outs)
<1>1. n.monoid = m.monoid /\ n.arcs = arcs /\ n.outs = m.outs
  BY MachineFields
<1>2. /\ arcs = [b \in Arcs |-> arcs[b]] /\ arcs[a] = label
      /\ \A b \in Arcs : b # a => arcs[b] = m.arcs[b]
  BY MachineTypes
<1>3. label # NoValue
  BY MachineTypes, LabelIsThere
<1> HIDE DEF arcs
<1>4. n = Machine(n.monoid, n.arcs, n.outs)
  BY <1>1
<1> HIDE DEF n
<1>5. OutputMonoid(n) = OutputMonoid(m)
  BY <1>1 DEF OutputMonoid
<1>6. IsMachine(k, n)
  BY <1>1, <1>2, <1>4, <1>5, MachineTypes DEF IsMachine
<1>7. ArcWords(n) = [ArcWords(m) EXCEPT ![a] = WordsOf(m.monoid, label)]
  BY <1>1, <1>2, <1>3 DEF ArcWords
<1>8. [i \in DOMAIN n.outs |-> OutWord(n, i)] = [i \in DOMAIN m.outs |-> OutWord(m, i)]
  BY <1>1, <1>5 DEF OutWord
<1>9. Denoted(m).arcs = ArcWords(m) /\ Denoted(m).outs = [i \in DOMAIN m.outs |-> OutWord(m, i)]
  BY MachineFields DEF Denoted
<1>10. Denoted(n) = Meaning([Denoted(m).arcs EXCEPT ![a] = WordsOf(m.monoid, label)], Denoted(m).outs)
  BY <1>7, <1>8, <1>9 DEF Denoted
<1> QED BY <1>6, <1>10 DEF n, arcs

\* Outputs are given another value, or get one more.
LEMMA OutsArePut ==
    ASSUME NEW k, NEW m, IsMachine(k, m), NEW outs \in Outputs(k),
           \A o \in DOMAIN outs : outs[o] = NoValue \/ HoldsValue(OutputMonoid(m), outs[o])
    PROVE  LET n == Machine(m.monoid, m.arcs, outs)
           IN  /\ IsMachine(k, n)
               /\ Denoted(n) = Meaning(Denoted(m).arcs,
                      [o \in DOMAIN outs |-> IF outs[o] = NoValue THEN NoValue ELSE Gen(OutputMonoid(m), outs[o])])
<1> DEFINE n == Machine(m.monoid, m.arcs, outs)
<1>1. n.monoid = m.monoid /\ n.arcs = m.arcs /\ n.outs = outs
  BY MachineFields
<1>2. n = Machine(n.monoid, n.arcs, n.outs)
  BY <1>1
<1> HIDE DEF n
<1>3. OutputMonoid(n) = OutputMonoid(m)
  BY <1>1 DEF OutputMonoid
<1>4. IsMachine(k, n)
  BY <1>1, <1>2, <1>3, MachineTypes DEF IsMachine
<1>5. Denoted(m).arcs = ArcWords(m) /\ ArcWords(n) = ArcWords(m)
  BY <1>1, MachineFields DEF Denoted, ArcWords
<1>6. [o \in DOMAIN n.outs |-> OutWord(n, o)]
        = [o \in DOMAIN outs |-> IF outs[o] = NoValue THEN NoValue ELSE Gen(OutputMonoid(m), outs[o])]
  BY <1>1, <1>3 DEF OutWord
<1>7. Denoted(n) = Meaning(Denoted(m).arcs,
          [o \in DOMAIN outs |-> IF outs[o] = NoValue THEN NoValue ELSE Gen(OutputMonoid(m), outs[o])])
  BY <1>5, <1>6 DEF Denoted
<1> QED BY <1>4, <1>7 DEF n

--------------------------------------------------------------------------------
\* An operation that adds a transition keeps the invariant, when its label is
\* what the words say.
LEMMA AddTransitionKeeps ==
    ASSUME LabelsInv, NEW a \in Arcs, NEW result, NEW texts, texts = [t \in 1 .. 2 |-> texts[t]],
           GivesLabel(machine.monoid, result, texts), AddTransition(a, result, texts)
    PROVE  LabelsInv'
<1> DEFINE n == result.m
           grown == Machine(n, machine.arcs, machine.outs)
<1>1. /\ machine' = Machine(n, [machine.arcs EXCEPT ![a] = result.v], machine.outs)
      /\ meant' = Meaning([meant.arcs EXCEPT ![a] = texts], meant.outs)
      /\ kind' = kind /\ source' = source
  BY DEF AddTransition
<1>2. /\ IsProduct(n) /\ ProductGrows(machine.monoid, n) /\ IsLabelOf(n, result.v)
      /\ \A t \in 1 .. 2 : Gen(Tape(n, t), result.v[t]) = texts[t]
  BY DEF GivesLabel
<1> HIDE DEF n
<1>3. IsMachine(kind, machine) /\ meant = Denoted(machine) /\ kind \in Kinds
      /\ IsProduct(source.m) /\ HasShape(kind, source.m) /\ IsLabelOf(source.m, source.v)
  BY DEF LabelsInv
<1>4. WordsOf(n, result.v) = texts
  BY <1>2, ProductTypes DEF WordsOf
<1>5. IsMachine(kind, grown) /\ Denoted(grown) = meant
  BY <1>2, <1>3, GrownKeeps
<1>6. grown.monoid = n /\ grown.arcs = machine.arcs /\ grown.outs = machine.outs
  BY MachineFields
<1> HIDE DEF grown
<1>7. machine' = Machine(grown.monoid, [grown.arcs EXCEPT ![a] = result.v], grown.outs)
  BY <1>1, <1>6
<1>8. /\ IsMachine(kind, machine')
      /\ Denoted(machine') = Meaning([Denoted(grown).arcs EXCEPT ![a] = WordsOf(grown.monoid, result.v)], Denoted(grown).outs)
  BY <1>2, <1>5, <1>6, <1>7, ArcIsPut
<1>9. meant' = Denoted(machine')
  BY <1>1, <1>4, <1>5, <1>6, <1>8
<1> QED BY <1>1, <1>3, <1>8, <1>9 DEF LabelsInv

\* Machines of one type have monoids of the same kinds.
LEMMA SameKinds ==
    ASSUME NEW k, NEW m, NEW n, IsProduct(m), IsProduct(n), HasShape(k, m), HasShape(k, n)
    PROVE  \A t \in 1 .. 2 : Tape(m, t).kind = Tape(n, t).kind
  BY ProductTypes DEF HasShape

\* What a transition is known to stand for.
LEMMA ArcMeans ==
    ASSUME LabelsInv, NEW a \in Arcs, IsLabel(a)
    PROVE  IsLabelOf(machine.monoid, machine.arcs[a]) /\ meant.arcs[a] = WordsOf(machine.monoid, machine.arcs[a])
<1>1. IsMachine(kind, machine) /\ meant = Denoted(machine)
  BY DEF LabelsInv
<1>2. IsLabelOf(machine.monoid, machine.arcs[a])
  BY <1>1, MachineTypes DEF IsLabel
<1>3. meant.arcs = ArcWords(machine)
  BY <1>1, MachineFields DEF Denoted
<1> QED BY <1>2, <1>3 DEF ArcWords, IsLabel

LEMMA AddWordsKeeps ==
    ASSUME LabelsInv, NEW a \in Arcs, NEW v \in Texts, NEW w \in Texts, AddWords(a, <<v, w>>)
    PROVE  LabelsInv'
<1> DEFINE m == machine.monoid
           texts == <<v, w>>
           counted == [t \in 1 .. 2 |-> Counted(Tape(m, t), texts[t])]
<1>1. IsProduct(m) /\ Tapes(m) = 1 .. 2
  BY MachineTypes, ProductTypes DEF LabelsInv
<1>2. /\ \A t \in 1 .. 2 : texts[t] \in Seq(Sigma)
      /\ texts[1] = v /\ texts[2] = w
  BY TextsAssumption
<1> HIDE DEF m, texts
<1>3. \A t \in 1 .. 2 : Tape(m, t).kind = "symbol" => Len(texts[t]) <= 1
  BY <1>1 DEF AddWords, m, texts
<1>4. GivesLabel(m, LabelOf(m, texts), counted)
  BY <1>1, <1>2, <1>3, LabelOfGives
<1>5. AddTransition(a, LabelOf(m, texts), counted)
  BY <1>1 DEF AddWords, m, texts, Counted
<1>6. counted = [t \in 1 .. 2 |-> counted[t]]
  OBVIOUS
<1> HIDE DEF counted
<1> QED BY <1>4, <1>5, <1>6, AddTransitionKeeps DEF m

LEMMA MultiplyKeeps ==
    ASSUME LabelsInv, NEW a \in Arcs, NEW b \in Arcs, NEW to \in Arcs, Multiply(a, b, to)
    PROVE  LabelsInv'
<1> DEFINE m == machine.monoid
           x == machine.arcs[a]
           y == machine.arcs[b]
           texts == [t \in 1 .. 2 |-> WordsOf(m, x)[t] \o WordsOf(m, y)[t]]
<1>1. IsProduct(m) /\ Tapes(m) = 1 .. 2
  BY MachineTypes, ProductTypes DEF LabelsInv
<1>2. /\ IsLabel(a) /\ IsLabel(b)
      /\ \A t \in 1 .. 2 : MulAllowed(Tape(m, t), x[t], y[t])
      /\ AddTransition(to, Times(m, x, y), [t \in 1 .. 2 |-> meant.arcs[a][t] \o meant.arcs[b][t]])
  BY <1>1 DEF Multiply
<1>3. IsLabelOf(m, x) /\ meant.arcs[a] = WordsOf(m, x) /\ IsLabelOf(m, y) /\ meant.arcs[b] = WordsOf(m, y)
  BY <1>2, ArcMeans
<1> HIDE DEF m, x, y
<1>4. GivesLabel(m, Times(m, x, y), texts)
  BY <1>1, <1>2, <1>3, TimesGives
<1>5. AddTransition(to, Times(m, x, y), texts)
  BY <1>2, <1>3
<1>6. texts = [t \in 1 .. 2 |-> texts[t]]
  OBVIOUS
<1> HIDE DEF texts
<1> QED BY <1>4, <1>5, <1>6, AddTransitionKeeps DEF m

LEMMA DivideKeeps ==
    ASSUME LabelsInv, NEW a \in Arcs, NEW b \in Arcs, NEW to \in Arcs, Divide(a, b, to)
    PROVE  LabelsInv'
<1> DEFINE m == machine.monoid
           x == machine.arcs[a]
           y == machine.arcs[b]
           texts == [t \in 1 .. 2 |-> SubSeq(WordsOf(m, y)[t], Len(WordsOf(m, x)[t]) + 1, Len(WordsOf(m, y)[t]))]
<1>1. IsProduct(m) /\ Tapes(m) = 1 .. 2
  BY MachineTypes, ProductTypes DEF LabelsInv
<1>2. /\ IsLabel(a) /\ IsLabel(b)
      /\ \A t \in 1 .. 2 : InvMulAllowed(Tape(m, t), x[t], y[t])
      /\ AddTransition(to, Without(m, x, y),
             [t \in 1 .. 2 |-> SubSeq(meant.arcs[b][t], Len(meant.arcs[a][t]) + 1, Len(meant.arcs[b][t]))])
  BY <1>1 DEF Divide
<1>3. IsLabelOf(m, x) /\ meant.arcs[a] = WordsOf(m, x) /\ IsLabelOf(m, y) /\ meant.arcs[b] = WordsOf(m, y)
  BY <1>2, ArcMeans
<1> HIDE DEF m, x, y
<1>4. GivesLabel(m, Without(m, x, y), texts)
  BY <1>1, <1>2, <1>3, WithoutGives
<1>5. AddTransition(to, Without(m, x, y), texts)
  BY <1>2, <1>3
<1>6. texts = [t \in 1 .. 2 |-> texts[t]]
  OBVIOUS
<1> HIDE DEF texts
<1> QED BY <1>4, <1>5, <1>6, AddTransitionKeeps DEF m

LEMMA ShareKeeps ==
    ASSUME LabelsInv, NEW a \in Arcs, NEW b \in Arcs, NEW to \in Arcs, Share(a, b, to)
    PROVE  LabelsInv'
<1> DEFINE m == machine.monoid
           x == machine.arcs[a]
           y == machine.arcs[b]
           texts == [t \in 1 .. 2 |-> Prefix(WordsOf(m, x)[t], WordsOf(m, y)[t])]
<1>1. IsProduct(m) /\ Tapes(m) = 1 .. 2
  BY MachineTypes, ProductTypes DEF LabelsInv
<1>2. /\ IsLabel(a) /\ IsLabel(b)
      /\ \A t \in 1 .. 2 : GcpAllowed(Tape(m, t), x[t], y[t])
      /\ AddTransition(to, Common(m, x, y), [t \in 1 .. 2 |-> Prefix(meant.arcs[a][t], meant.arcs[b][t])])
  BY <1>1 DEF Share
<1>3. IsLabelOf(m, x) /\ meant.arcs[a] = WordsOf(m, x) /\ IsLabelOf(m, y) /\ meant.arcs[b] = WordsOf(m, y)
  BY <1>2, ArcMeans
<1> HIDE DEF m, x, y
<1>4. GivesLabel(m, Common(m, x, y), texts)
  BY <1>1, <1>2, <1>3, CommonGives
<1>5. AddTransition(to, Common(m, x, y), texts)
  BY <1>2, <1>3
<1>6. texts = [t \in 1 .. 2 |-> texts[t]]
  OBVIOUS
<1> HIDE DEF texts
<1> QED BY <1>4, <1>5, <1>6, AddTransitionKeeps DEF m

LEMMA ReinternKeeps ==
    ASSUME LabelsInv, NEW a \in Arcs, Reintern(a)
    PROVE  LabelsInv'
<1> DEFINE m == machine.monoid
           texts == WordsOf(source.m, source.v)
           counted == [t \in 1 .. 2 |-> Counted(Tape(m, t), texts[t])]
<1>1. IsProduct(m) /\ IsProduct(source.m) /\ IsLabelOf(source.m, source.v)
  BY MachineTypes DEF LabelsInv
<1>2. \A t \in 1 .. 2 : Tape(m, t).kind = Tape(source.m, t).kind
  <2>1. HasShape(kind, m) /\ HasShape(kind, source.m)
    BY MachineTypes DEF LabelsInv
  <2> QED BY <1>1, <2>1, SameKinds
<1>3. texts = [t \in 1 .. 2 |-> texts[t]] /\ \A t \in 1 .. 2 : texts[t] = Gen(Tape(source.m, t), source.v[t])
  BY <1>1, ProductTypes DEF WordsOf
<1>4. \A t \in 1 .. 2 : Tape(source.m, t) \in Monoids /\ HoldsValue(Tape(source.m, t), source.v[t])
  BY <1>1, ProductTypes DEF IsLabelOf
<1>5. AddTransition(a, LabelOf(m, texts), texts)
  BY DEF Reintern, Owned
<1> HIDE DEF m, texts
<1>6. \A t \in 1 .. 2 : StandsFor(Tape(source.m, t), texts[t])
  BY <1>3, <1>4, GenStands
<1>7. \A t \in 1 .. 2 : StandsFor(Tape(m, t), texts[t])
  BY <1>2, <1>6 DEF StandsFor
<1>8. GivesLabel(m, LabelOf(m, texts), counted)
  BY <1>1, <1>7, LabelOfGives
<1>9. \A t \in 1 .. 2 : counted[t] = texts[t]
  <2> SUFFICES ASSUME NEW t \in 1 .. 2
               PROVE  counted[t] = texts[t]
    OBVIOUS
  <2>1. CASE Tape(m, t).kind = "count"
    <3>1. texts[t] \in Seq({1})
      BY <1>7, <2>1 DEF StandsFor
    <3> QED BY <2>1, <3>1 DEF Counted
  <2>2. CASE Tape(m, t).kind # "count"
    BY <2>2 DEF Counted
  <2> QED BY <2>1, <2>2
<1>10. counted = texts
  BY <1>3, <1>9
<1> HIDE DEF counted
<1> QED BY <1>3, <1>5, <1>8, <1>10, AddTransitionKeeps DEF m

--------------------------------------------------------------------------------
\* A machine with outputs keeps them in the pool of its second tape.
LEMMA OutputsInPool ==
    ASSUME NEW k, k \in {"SparseSSFST", "TotalSSFST", "ExpandedFST"}, NEW m, IsProduct(m), HasShape(k, m)
    PROVE  /\ m.slots = <<1, 2>> /\ m.owned[1].kind = "symbol" /\ m.owned[2].kind = "pool"
           /\ Tape(m, 1) = m.owned[1] /\ Tape(m, 2) = m.owned[2] /\ Tape(m, 2).kind = "pool"
<1>1. MonoidOf(k) = Product(<<Letters, EmptyPool>>, <<1, 2>>)
  BY DEF MonoidOf
<1>2. MonoidOf(k).slots = <<1, 2>> /\ MonoidOf(k).owned = <<Letters, EmptyPool>>
  BY <1>1 DEF Product
<1>3. m.slots = <<1, 2>> /\ \A j \in 1 .. 2 : m.owned[j].kind = <<Letters, EmptyPool>>[j].kind
  BY <1>2 DEF HasShape
<1>4. m.owned[1].kind = "symbol" /\ m.owned[2].kind = "pool"
  BY <1>3 DEF Letters, EmptyPool, Pool
<1> QED BY <1>3, <1>4 DEF Tape

\* The outputs of each type.
LEMMA OutputTypes ==
    ASSUME NEW k
    PROVE  /\ k = "SparseSSFST" => Outputs(k) = [States -> Nat \cup {NoValue}]
           /\ k = "TotalSSFST" => Outputs(k) = [States \cup {"initial"} -> Nat]
           /\ k = "ExpandedFST" => Outputs(k) = Seq(Nat)
           /\ k \notin {"SparseSSFST", "TotalSSFST", "ExpandedFST"} => Outputs(k) = {<<>>}
  BY DEF Outputs

LEMMA OutputFunction ==
    ASSUME NEW k, NEW outs \in Outputs(k)
    PROVE  outs = [o \in DOMAIN outs |-> outs[o]]
<1>1. CASE k = "SparseSSFST"
  BY <1>1, OutputTypes
<1>2. CASE k = "TotalSSFST"
  BY <1>2, OutputTypes
<1>3. CASE k = "ExpandedFST"
  <2>1. outs \in Seq(Nat)
    BY <1>3, OutputTypes
  <2> QED BY <2>1
<1>4. CASE k \notin {"SparseSSFST", "TotalSSFST", "ExpandedFST"}
  <2>1. outs = <<>>
    BY <1>4, OutputTypes
  <2> QED BY <2>1
<1> QED BY <1>1, <1>2, <1>3, <1>4

\* A word of the client, as a value of the monoid of the outputs.
LEMMA OutputGives ==
    ASSUME NEW k, k \in {"SparseSSFST", "TotalSSFST", "ExpandedFST"}, NEW m, IsMachine(k, m), NEW word \in Texts
    PROVE  LET r == From(OutputMonoid(m), word)
               n == Machine(WithTape(m.monoid, 2, r.c), m.arcs, m.outs)
           IN  /\ IsMachine(k, n) /\ Denoted(n) = Denoted(m)
               /\ OutputMonoid(n) = r.c /\ r.c \in Monoids /\ r.c.kind = "pool"
               /\ HoldsValue(r.c, r.v) /\ Gen(r.c, r.v) = word /\ r.v \in Nat
<1> DEFINE r == From(OutputMonoid(m), word)
           p == WithTape(m.monoid, 2, r.c)
           n == Machine(p, m.arcs, m.outs)
<1>1. IsProduct(m.monoid) /\ HasShape(k, m.monoid) /\ OutputMonoid(m) = Tape(m.monoid, 2)
  BY MachineTypes
<1>2. Tape(m.monoid, 2) \in Monoids /\ Tape(m.monoid, 2).kind = "pool"
  BY <1>1, ProductTypes, OutputsInPool
<1>3. StandsFor(Tape(m.monoid, 2), word)
  BY <1>2, TextsAssumption DEF StandsFor
<1>4. Gives(Tape(m.monoid, 2), r, word)
  BY <1>1, <1>2, <1>3, FromGives
<1> HIDE DEF r
<1>5. r.c \in Monoids /\ Grows(Tape(m.monoid, 2), r.c) /\ HoldsValue(r.c, r.v) /\ Gen(r.c, r.v) = word
  BY <1>4 DEF Gives
<1>6. r.c.kind = "pool" /\ r.v \in Nat
  <2>1. r.c.kind = "pool" /\ Len(r.c.pool) \in Nat
    BY <1>2, <1>5, MonoidTypes DEF Grows
  <2> QED BY <1>5, <2>1 DEF HoldsValue
<1>7. IsProduct(p) /\ ProductGrows(m.monoid, p) /\ Tape(p, 2) = r.c
  BY <1>1, <1>5, WithTapeGrows
<1> HIDE DEF p
<1>8. IsMachine(k, n) /\ Denoted(n) = Denoted(m)
  BY <1>7, GrownKeeps
<1>9. OutputMonoid(n) = r.c
  BY <1>7, MachineFields DEF OutputMonoid
<1> QED BY <1>5, <1>6, <1>8, <1>9 DEF n, p, r

LEMMA SetOutputKeeps ==
    ASSUME LabelsInv, NEW o, NEW word \in Texts, SetOutput(o, word)
    PROVE  LabelsInv'
<1> DEFINE r == From(OutputMonoid(machine), word)
           n == Machine(WithTape(machine.monoid, 2, r.c), machine.arcs, machine.outs)
           outs == [machine.outs EXCEPT ![o] = r.v]
<1>1. /\ kind # "ExpandedFST" /\ o \in DOMAIN machine.outs
      /\ machine' = Machine(WithTape(machine.monoid, 2, r.c), machine.arcs, outs)
      /\ meant' = Meaning(meant.arcs, [meant.outs EXCEPT ![o] = word])
      /\ kind' = kind /\ source' = source
  BY DEF SetOutput, HasFEps
<1>2. /\ IsMachine(kind, machine) /\ meant = Denoted(machine) /\ kind \in Kinds
      /\ IsProduct(source.m) /\ HasShape(kind, source.m) /\ IsLabelOf(source.m, source.v)
      /\ machine.outs \in Outputs(kind)
  BY MachineTypes DEF LabelsInv
<1>3. kind \in {"SparseSSFST", "TotalSSFST"}
  BY <1>1, <1>2, OutputTypes
<1>4. /\ IsMachine(kind, n) /\ Denoted(n) = meant
      /\ OutputMonoid(n) = r.c /\ HoldsValue(r.c, r.v) /\ Gen(r.c, r.v) = word /\ r.v \in Nat
  BY <1>2, <1>3, OutputGives
<1>5. n.monoid = WithTape(machine.monoid, 2, r.c) /\ n.arcs = machine.arcs /\ n.outs = machine.outs
  BY MachineFields
<1> HIDE DEF r, n
<1>6. outs \in Outputs(kind)
  <2>1. CASE kind = "SparseSSFST"
    BY <1>1, <1>2, <1>4, <2>1, OutputTypes
  <2>2. CASE kind = "TotalSSFST"
    BY <1>1, <1>2, <1>4, <2>2, OutputTypes
  <2> QED BY <1>3, <2>1, <2>2
<1>7. /\ DOMAIN outs = DOMAIN machine.outs /\ outs[o] = r.v
      /\ \A i \in DOMAIN outs : i # o => outs[i] = machine.outs[i]
  BY <1>1
<1> HIDE DEF outs
<1>8. \A i \in DOMAIN outs : outs[i] = NoValue \/ HoldsValue(OutputMonoid(n), outs[i])
  <2>1. \A i \in DOMAIN machine.outs : machine.outs[i] = NoValue \/ HoldsValue(r.c, machine.outs[i])
    BY <1>4, <1>5, MachineTypes
  <2> QED BY <1>4, <1>7, <2>1
<1>9. machine' = Machine(n.monoid, n.arcs, outs)
  BY <1>1, <1>5
<1>10. /\ IsMachine(kind, machine')
       /\ Denoted(machine') = Meaning(Denoted(n).arcs,
              [i \in DOMAIN outs |-> IF outs[i] = NoValue THEN NoValue ELSE Gen(OutputMonoid(n), outs[i])])
  BY <1>4, <1>6, <1>8, <1>9, OutsArePut
<1>11. meant.outs = [i \in DOMAIN machine.outs |-> IF machine.outs[i] = NoValue THEN NoValue ELSE Gen(OutputMonoid(n), machine.outs[i])]
  BY <1>4, <1>5, MachineFields DEF Denoted, OutWord
<1>12. [meant.outs EXCEPT ![o] = word]
         = [i \in DOMAIN outs |-> IF outs[i] = NoValue THEN NoValue ELSE Gen(OutputMonoid(n), outs[i])]
  BY <1>1, <1>4, <1>7, <1>11, ValuesAssumption
<1>13. meant' = Denoted(machine')
  BY <1>1, <1>4, <1>10, <1>12
<1> QED BY <1>1, <1>2, <1>10, <1>13 DEF LabelsInv

\* f_eps has a number once if and only if it has the word once: the pool has no word twice.
LEMMA AddFEpsKeeps ==
    ASSUME LabelsInv, NEW word \in Texts, AddFEps(word)
    PROVE  LabelsInv'
<1> DEFINE r == From(OutputMonoid(machine), word)
           n == Machine(WithTape(machine.monoid, 2, r.c), machine.arcs, machine.outs)
           outs == IF Contains(machine.outs, r.v) THEN machine.outs ELSE Append(machine.outs, r.v)
           texts == IF Contains(meant.outs, word) THEN meant.outs ELSE Append(meant.outs, word)
<1>1. /\ kind = "ExpandedFST"
      /\ machine' = Machine(WithTape(machine.monoid, 2, r.c), machine.arcs, outs)
      /\ meant' = Meaning(meant.arcs, texts)
      /\ kind' = kind /\ source' = source
  BY DEF AddFEps, HasFEps
<1>2. /\ IsMachine(kind, machine) /\ meant = Denoted(machine) /\ kind \in Kinds
      /\ IsProduct(source.m) /\ HasShape(kind, source.m) /\ IsLabelOf(source.m, source.v)
      /\ machine.outs \in Seq(Nat)
  BY <1>1, MachineTypes, OutputTypes DEF LabelsInv
<1>3. /\ IsMachine(kind, n) /\ Denoted(n) = meant /\ OutputMonoid(n) = r.c /\ r.c \in Monoids /\ r.c.kind = "pool"
      /\ HoldsValue(r.c, r.v) /\ Gen(r.c, r.v) = word /\ r.v \in Nat
  BY <1>1, <1>2, OutputGives
<1>4. n.monoid = WithTape(machine.monoid, 2, r.c) /\ n.arcs = machine.arcs /\ n.outs = machine.outs
  BY MachineFields
<1> HIDE DEF r, n
<1>5. \A i \in 1 .. Len(machine.outs) : machine.outs[i] \in Nat /\ machine.outs[i] # NoValue
  BY <1>2, ValuesAssumption
<1>6. \A i \in 1 .. Len(machine.outs) : HoldsValue(r.c, machine.outs[i])
  <2>1. DOMAIN n.outs = 1 .. Len(machine.outs)
    BY <1>2, <1>4
  <2>2. \A i \in 1 .. Len(machine.outs) : n.outs[i] = NoValue \/ HoldsValue(OutputMonoid(n), n.outs[i])
    BY <1>3, <2>1, MachineTypes
  <2> QED BY <1>3, <1>4, <1>5, <2>2
<1>7. meant.outs = [i \in 1 .. Len(machine.outs) |-> Gen(r.c, machine.outs[i])]
  <2>1. meant.outs = [i \in DOMAIN n.outs |-> OutWord(n, i)]
    BY <1>3, MachineFields DEF Denoted
  <2>2. DOMAIN n.outs = 1 .. Len(machine.outs)
    BY <1>2, <1>4
  <2>3. \A i \in 1 .. Len(machine.outs) : OutWord(n, i) = Gen(r.c, machine.outs[i])
    BY <1>3, <1>4, <1>5 DEF OutWord
  <2> QED BY <2>1, <2>2, <2>3
<1>8. \A i \in 1 .. Len(machine.outs) : meant.outs[i] \in Seq(Sigma)
  BY <1>3, <1>6, <1>7, GenStands DEF StandsFor
<1>9. meant.outs \in Seq(Seq(Sigma)) /\ Len(meant.outs) = Len(machine.outs)
  <2> DEFINE l == Len(machine.outs)
             f == [i \in 1 .. l |-> Gen(r.c, machine.outs[i])]
  <2>1. l \in Nat
    BY <1>2
  <2>2. \A i \in 1 .. l : Gen(r.c, machine.outs[i]) \in Seq(Sigma)
    BY <1>7, <1>8
  <2> HIDE DEF l
  <2>3. f \in Seq(Seq(Sigma)) /\ Len(f) = l
    BY <2>1, <2>2
  <2> QED BY <1>7, <2>3 DEF l
<1>10. \A i \in 1 .. Len(machine.outs) : machine.outs[i] = r.v <=> meant.outs[i] = word
  <2>1. \A i, j \in DOMAIN r.c.pool : r.c.pool[i] = r.c.pool[j] => i = j
    BY <1>3, MonoidTypes
  <2>2. Len(r.c.pool) \in Nat /\ r.c.pool \in Seq(Seq(Sigma))
    BY <1>3, MonoidTypes
  <2>3. \A v : HoldsValue(r.c, v) => v \in 0 .. Len(r.c.pool) - 1
    BY <1>3 DEF HoldsValue
  <2>4. \A v : HoldsValue(r.c, v) => v + 1 \in DOMAIN r.c.pool /\ v \in Nat
    BY <2>2, <2>3
  <2>5. \A v : Gen(r.c, v) = r.c.pool[v + 1]
    BY <1>3, OfAPool
  <2> SUFFICES ASSUME NEW i \in 1 .. Len(machine.outs), meant.outs[i] = word
               PROVE  machine.outs[i] = r.v
    BY <1>3, <1>7
  <2>6. r.c.pool[machine.outs[i] + 1] = r.c.pool[r.v + 1]
    BY <1>3, <1>7, <2>5
  <2>7. machine.outs[i] + 1 = r.v + 1
    BY <1>3, <1>6, <2>1, <2>4, <2>6
  <2> QED BY <1>3, <1>5, <2>7
<1>11. Contains(machine.outs, r.v) <=> Contains(meant.outs, word)
  BY <1>9, <1>10 DEF Contains
<1>12. /\ outs \in Seq(Nat)
       /\ \A i \in DOMAIN outs : outs[i] # NoValue /\ HoldsValue(r.c, outs[i])
       /\ texts = [i \in DOMAIN outs |-> Gen(r.c, outs[i])]
  <2>1. CASE Contains(machine.outs, r.v)
    <3>1. outs = machine.outs /\ texts = meant.outs
      BY <1>11, <2>1
    <3>2. DOMAIN machine.outs = 1 .. Len(machine.outs)
      BY <1>2
    <3> QED BY <1>2, <1>5, <1>6, <1>7, <3>1, <3>2
  <2>2. CASE ~Contains(machine.outs, r.v)
    <3>1. outs = Append(machine.outs, r.v) /\ texts = Append(meant.outs, word)
      BY <1>11, <2>2
    <3>2. /\ outs \in Seq(Nat) /\ Len(outs) = Len(machine.outs) + 1 /\ outs[Len(machine.outs) + 1] = r.v
          /\ \A i \in 1 .. Len(machine.outs) : outs[i] = machine.outs[i]
      BY <1>2, <1>3, <3>1, AppendProperties
    <3>3. word \in Seq(Sigma)
      BY TextsAssumption
    <3>4. /\ texts \in Seq(Seq(Sigma)) /\ Len(texts) = Len(machine.outs) + 1 /\ texts[Len(machine.outs) + 1] = word
          /\ \A i \in 1 .. Len(machine.outs) : texts[i] = meant.outs[i]
      BY <1>9, <3>1, <3>3, AppendProperties
    <3> HIDE DEF outs, texts
    <3>5. Len(machine.outs) \in Nat /\ DOMAIN outs = 1 .. Len(machine.outs) + 1 /\ DOMAIN texts = 1 .. Len(machine.outs) + 1
      BY <1>2, <3>2, <3>4
    <3>6. \A i \in 1 .. Len(machine.outs) + 1 : i \in 1 .. Len(machine.outs) \/ i = Len(machine.outs) + 1
      BY <3>5
    <3>7. \A i \in DOMAIN outs : outs[i] # NoValue /\ HoldsValue(r.c, outs[i]) /\ texts[i] = Gen(r.c, outs[i])
      <4>1. r.v # NoValue
        BY <1>3, ValuesAssumption
      <4> SUFFICES ASSUME NEW i \in DOMAIN outs
                   PROVE  outs[i] # NoValue /\ HoldsValue(r.c, outs[i]) /\ texts[i] = Gen(r.c, outs[i])
        OBVIOUS
      <4>2. CASE i \in 1 .. Len(machine.outs)
        <5>1. outs[i] = machine.outs[i] /\ texts[i] = meant.outs[i]
          BY <3>2, <3>4, <4>2
        <5> QED BY <1>5, <1>6, <1>7, <4>2, <5>1
      <4>3. CASE i = Len(machine.outs) + 1
        BY <1>3, <3>2, <3>4, <4>1, <4>3
      <4> QED BY <3>5, <3>6, <4>2, <4>3
    <3>8. texts = [i \in DOMAIN texts |-> texts[i]]
      BY <3>4
    <3> QED BY <3>2, <3>5, <3>7, <3>8
  <2> QED BY <2>1, <2>2
<1> HIDE DEF outs, texts
<1>13. machine' = Machine(n.monoid, n.arcs, outs)
  BY <1>1, <1>4
<1>14. outs \in Outputs(kind)
  BY <1>1, <1>12, OutputTypes
<1>15. /\ IsMachine(kind, machine')
       /\ Denoted(machine') = Meaning(Denoted(n).arcs,
              [i \in DOMAIN outs |-> IF outs[i] = NoValue THEN NoValue ELSE Gen(OutputMonoid(n), outs[i])])
  BY <1>3, <1>12, <1>13, <1>14, OutsArePut
<1>16. meant' = Denoted(machine')
  BY <1>1, <1>3, <1>12, <1>15
<1> QED BY <1>1, <1>2, <1>15, <1>16 DEF LabelsInv

--------------------------------------------------------------------------------
\* A pool that is packed holds the words of the live ids, under their new numbers.
LEMMA PackedGives ==
    ASSUME NEW c \in Monoids, c.kind = "pool", NEW used, used \subseteq 0 .. Len(c.pool) - 1
    PROVE  /\ Packed(c, used) \in Monoids /\ Packed(c, used).kind = "pool"
           /\ \A v \in used : /\ NewId(used, v) \in Nat
                              /\ HoldsValue(Packed(c, used), NewId(used, v))
                              /\ Gen(Packed(c, used), NewId(used, v)) = Gen(c, v)
<1> DEFINE L == Live(used)
           N == Cardinality(L)
           texts == [i \in 1 .. N |-> c.pool[Nth(L, i - 1) + 1]]
           d == Packed(c, used)
<1>1. /\ c.pool \in Seq(Seq(Sigma)) /\ Len(c.pool) \in Nat /\ Len(c.pool) > 0 /\ c.pool[1] = <<>>
      /\ \A i, j \in DOMAIN c.pool : c.pool[i] = c.pool[j] => i = j
  BY MonoidTypes
<1>2. L \subseteq 0 .. Len(c.pool) - 1 /\ L \in SUBSET Nat /\ 0 \in L
  BY <1>1 DEF Live
<1>3. IsFiniteSet(L)
  <2>1. IsFiniteSet(0 .. Len(c.pool) - 1)
    BY <1>1, FS_Interval
  <2> HIDE DEF L
  <2> QED BY ONLY <1>2, <2>1, FS_Subset
<1>4. d.kind = "pool" /\ d.pool = texts
  BY DEF Packed, Pool
<1> HIDE DEF L
<1>5. N \in Nat
  BY <1>3, FS_CardinalityType
<1>6. \A v \in L : Rank(L, v) \in 0 .. N - 1 /\ Nth(L, Rank(L, v)) = v
  BY <1>2, <1>3, RankOfMember
<1>7. \A n \in 0 .. N - 1 : Nth(L, n) \in L /\ Rank(L, Nth(L, n)) = n
  BY <1>2, <1>3, NthProperties
<1>8. Rank(L, 0) = 0
  <2>1. {m \in L : m < 0} = {}
    <3>1. \A m \in L : m \in Nat /\ ~(m < 0)
      BY <1>2
    <3> QED BY ONLY <3>1
  <2> QED BY <2>1, FS_EmptySet DEF Rank
<1>9. N > 0 /\ Nth(L, 0) = 0
  BY <1>2, <1>5, <1>6, <1>8
<1>10. d = [kind |-> "pool", pool |-> texts]
  BY DEF Packed, Pool, L
<1> HIDE DEF N, d
<1>11. \A i \in 1 .. N : /\ i - 1 \in 0 .. N - 1 /\ Nth(L, i - 1) \in 0 .. Len(c.pool) - 1
                         /\ Nth(L, i - 1) + 1 \in 1 .. Len(c.pool)
  <2> SUFFICES ASSUME NEW i \in 1 .. N
               PROVE  /\ i - 1 \in 0 .. N - 1 /\ Nth(L, i - 1) \in 0 .. Len(c.pool) - 1
                      /\ Nth(L, i - 1) + 1 \in 1 .. Len(c.pool)
    OBVIOUS
  <2>1. i - 1 \in 0 .. N - 1
    BY <1>5
  <2>2. Nth(L, i - 1) \in 0 .. Len(c.pool) - 1
    BY <1>2, <1>7, <2>1
  <2> QED BY <1>1, <2>1, <2>2
<1>12. \A i \in 1 .. N : texts[i] \in Seq(Sigma)
  BY <1>1, <1>11
<1>13. texts \in Seq(Seq(Sigma)) /\ Len(texts) = N /\ DOMAIN texts = 1 .. N
  BY <1>5, <1>12
<1>14. \A i, j \in 1 .. N : texts[i] = texts[j] => i = j
  <2> SUFFICES ASSUME NEW i \in 1 .. N, NEW j \in 1 .. N, texts[i] = texts[j]
               PROVE  i = j
    OBVIOUS
  <2>1. DOMAIN c.pool = 1 .. Len(c.pool) /\ c.pool[Nth(L, i - 1) + 1] = c.pool[Nth(L, j - 1) + 1]
    BY <1>1
  <2>2. Nth(L, i - 1) + 1 = Nth(L, j - 1) + 1
    BY ONLY <1>1, <1>11, <2>1
  <2>3. Nth(L, i - 1) = Nth(L, j - 1)
    BY <1>11, <2>2
  <2>4. Rank(L, Nth(L, i - 1)) = i - 1 /\ Rank(L, Nth(L, j - 1)) = j - 1
    BY <1>7, <1>11
  <2>5. i - 1 = j - 1
    BY <2>3, <2>4
  <2> QED BY <1>5, <2>5
<1>15. texts # <<>> /\ texts[1] = <<>>
  <2>1. 1 \in 1 .. N /\ N # 0
    BY <1>5, <1>9
  <2>2. texts[1] = c.pool[Nth(L, 1 - 1) + 1]
    BY <2>1
  <2>3. texts[1] = c.pool[1]
    BY <1>9, <2>2
  <2> HIDE DEF texts
  <2> QED BY <1>1, <1>13, <2>1, <2>3
<1>16. \A v \in L : /\ Rank(L, v) \in 0 .. N - 1 /\ Rank(L, v) + 1 \in 1 .. N
                    /\ texts[Rank(L, v) + 1] = c.pool[v + 1]
  <2> SUFFICES ASSUME NEW v \in L
               PROVE  /\ Rank(L, v) \in 0 .. N - 1 /\ Rank(L, v) + 1 \in 1 .. N
                      /\ texts[Rank(L, v) + 1] = c.pool[v + 1]
    OBVIOUS
  <2>1. Rank(L, v) \in 0 .. N - 1 /\ Nth(L, Rank(L, v)) = v
    BY <1>6 DEF N
  <2>2. Rank(L, v) + 1 \in 1 .. N /\ (Rank(L, v) + 1) - 1 = Rank(L, v)
    BY <1>5, <2>1
  <2> QED BY <2>1, <2>2
<1> HIDE DEF texts
<1>17. d \in Monoids
  <2>1. d \in [kind : {"pool", "symbol", "count"}, pool : Seq(Seq(Sigma))]
    BY <1>10, <1>13
  <2> QED BY <1>4, <1>13, <1>14, <1>15, <2>1 DEF Monoids
<1>18. \A v \in used : NewId(used, v) \in Nat /\ HoldsValue(d, NewId(used, v)) /\ Gen(d, NewId(used, v)) = Gen(c, v)
  <2> SUFFICES ASSUME NEW v \in used
               PROVE  NewId(used, v) \in Nat /\ HoldsValue(d, NewId(used, v)) /\ Gen(d, NewId(used, v)) = Gen(c, v)
    OBVIOUS
  <2>1. v \in L /\ NewId(used, v) = Rank(L, v)
    BY DEF L, Live, NewId
  <2>2. /\ Rank(L, v) \in 0 .. N - 1 /\ texts[Rank(L, v) + 1] = c.pool[v + 1]
    BY <1>16, <2>1
  <2>3. HoldsValue(d, Rank(L, v)) /\ Rank(L, v) \in Nat
    BY <1>4, <1>5, <1>13, <2>2 DEF HoldsValue
  <2>4. Gen(d, Rank(L, v)) = d.pool[Rank(L, v) + 1] /\ Gen(c, v) = c.pool[v + 1]
    BY <1>4, OfAPool
  <2> QED BY <1>4, <2>1, <2>2, <2>3, <2>4
<1> QED BY <1>4, <1>17, <1>18 DEF d

\* A compaction is handed every value of a pool, and so no label and no output
\* loses its words.
LEMMA CompactedKeeps ==
    ASSUME NEW k, NEW m, IsMachine(k, m)
    PROVE  IsMachine(k, Compacted(m)) /\ Denoted(Compacted(m)) = Denoted(m)
<1> DEFINE p == m.monoid
           Ren(t, v) == IF IsPool(m, p.slots[t]) THEN NewId(Ranges(m, p.slots[t]), v) ELSE v
           owned == [j \in DOMAIN p.owned |-> IF IsPool(m, j) THEN Packed(p.owned[j], Ranges(m, j)) ELSE p.owned[j]]
           arcs == [a \in Arcs |-> IF m.arcs[a] = NoValue THEN NoValue
                                   ELSE <<Ren(1, m.arcs[a][1]), Ren(2, m.arcs[a][2])>>]
           outs == [o \in DOMAIN m.outs |-> IF m.outs[o] = NoValue THEN NoValue ELSE Ren(2, m.outs[o])]
           q == Product(owned, p.slots)
           n == Machine(q, arcs, outs)
           Used(t) == ArcValues(m, t) \cup IF t = 2 THEN OutValues(m) ELSE {}
<1>1. Compacted(m) = n
  BY DEF Compacted
<1>2. /\ IsProduct(p) /\ HasShape(k, p) /\ m.outs \in Outputs(k)
      /\ \A a \in Arcs : m.arcs[a] = NoValue \/ IsLabelOf(p, m.arcs[a])
      /\ \A o \in DOMAIN m.outs : m.outs[o] = NoValue \/ HoldsValue(Tape(p, 2), m.outs[o])
  BY MachineTypes
<1>3. /\ p.slots[1] = 1 /\ p.slots[2] \in 1 .. 2 /\ DOMAIN p.owned = 1 .. p.slots[2] /\ Tapes(p) = 1 .. 2
      /\ \A t \in 1 .. 2 : p.slots[t] \in 1 .. p.slots[2] /\ Tape(p, t) = p.owned[p.slots[t]]
      /\ \A j \in 1 .. p.slots[2] : p.owned[j] \in Monoids
  BY <1>2, ProductTypes
<1>4. \A t \in 1 .. 2 : \A v \in Used(t) : HoldsValue(Tape(p, t), v)
  <2> SUFFICES ASSUME NEW t \in 1 .. 2, NEW v \in Used(t)
               PROVE  HoldsValue(Tape(p, t), v)
    OBVIOUS
  <2>1. CASE v \in ArcValues(m, t)
    <3>1. PICK a \in Arcs : m.arcs[a] # NoValue /\ v = m.arcs[a][t]
      BY <2>1 DEF ArcValues
    <3>2. IsLabelOf(p, m.arcs[a])
      BY <1>2, <3>1
    <3> QED BY <3>1, <3>2 DEF IsLabelOf
  <2>2. CASE t = 2 /\ v \in OutValues(m)
    <3>1. PICK o \in DOMAIN m.outs : v = m.outs[o]
      BY <2>2 DEF OutValues
    <3>2. v # NoValue
      BY <2>2 DEF OutValues
    <3> QED BY <1>2, <2>2, <3>1, <3>2
  <2> QED BY <2>1, <2>2
<1>5. \A j \in 1 .. p.slots[2] : \A v : v \in Ranges(m, j) <=> \E t \in 1 .. 2 : p.slots[t] = j /\ v \in Used(t)
  BY <1>3 DEF Ranges
<1> HIDE DEF Used
<1>6. \A j \in 1 .. p.slots[2] : IsPool(m, j) => /\ p.owned[j].kind = "pool"
                                                 /\ Ranges(m, j) \subseteq 0 .. Len(p.owned[j].pool) - 1
  <2> SUFFICES ASSUME NEW j \in 1 .. p.slots[2], IsPool(m, j)
               PROVE  p.owned[j].kind = "pool" /\ Ranges(m, j) \subseteq 0 .. Len(p.owned[j].pool) - 1
    OBVIOUS
  <2>1. p.owned[j].kind = "pool"
    BY DEF IsPool
  <2>2. ASSUME NEW v \in Ranges(m, j)
        PROVE  v \in 0 .. Len(p.owned[j].pool) - 1
    <3>1. PICK t \in 1 .. 2 : p.slots[t] = j /\ v \in Used(t)
      BY <1>5
    <3>2. HoldsValue(p.owned[j], v)
      BY <1>3, <1>4, <3>1
    <3> QED BY <2>1, <3>2 DEF HoldsValue
  <2> QED BY <2>1, <2>2
<1>7. \A j \in 1 .. p.slots[2] :
         /\ IsPool(m, j) => /\ Packed(p.owned[j], Ranges(m, j)) \in Monoids
                            /\ Packed(p.owned[j], Ranges(m, j)).kind = "pool"
                            /\ \A v \in Ranges(m, j) :
                                  /\ NewId(Ranges(m, j), v) \in Nat
                                  /\ HoldsValue(Packed(p.owned[j], Ranges(m, j)), NewId(Ranges(m, j), v))
                                  /\ Gen(Packed(p.owned[j], Ranges(m, j)), NewId(Ranges(m, j), v)) = Gen(p.owned[j], v)
         /\ IsPool(m, j) => p.owned[j].kind = "pool"
  BY <1>3, <1>6, PackedGives
<1>8. \A j \in 1 .. p.slots[2] : owned[j] \in Monoids /\ owned[j].kind = p.owned[j].kind
  BY <1>3, <1>7
<1>9. IsProduct(q) /\ HasShape(k, q) /\ q.owned = owned /\ q.slots = p.slots
  <2>1. q.owned = owned /\ q.slots = p.slots /\ q = Product(q.owned, q.slots)
    BY DEF Product
  <2>2. owned \in [1 .. p.slots[2] -> Monoids]
    BY <1>3, <1>8
  <2> HIDE DEF q, owned
  <2> QED BY <1>2, <1>8, <2>1, <2>2 DEF IsProduct, HasShape
<1>10. \A t \in 1 .. 2 : \A v \in Used(t) : /\ HoldsValue(Tape(q, t), Ren(t, v))
                                            /\ Gen(Tape(q, t), Ren(t, v)) = Gen(Tape(p, t), v)
                                            /\ v \in Nat => Ren(t, v) \in Nat
  <2> SUFFICES ASSUME NEW t \in 1 .. 2, NEW v \in Used(t)
               PROVE  /\ HoldsValue(Tape(q, t), Ren(t, v))
                      /\ Gen(Tape(q, t), Ren(t, v)) = Gen(Tape(p, t), v)
                      /\ v \in Nat => Ren(t, v) \in Nat
    OBVIOUS
  <2> DEFINE j == p.slots[t]
  <2>1. j \in 1 .. p.slots[2] /\ Tape(p, t) = p.owned[j] /\ v \in Ranges(m, j)
    BY <1>3, <1>5
  <2>2. Tape(q, t) = owned[j]
    BY <1>9 DEF Tape
  <2>3. CASE IsPool(m, j)
    <3>1. Ren(t, v) = NewId(Ranges(m, j), v) /\ owned[j] = Packed(p.owned[j], Ranges(m, j))
      BY <1>3, <2>1, <2>3
    <3> QED
      <4> HIDE DEF Ren, owned, q, p, j
      <4> QED BY <1>7, <2>1, <2>2, <2>3, <3>1
  <2>4. CASE ~IsPool(m, j)
    <3>1. Ren(t, v) = v /\ owned[j] = p.owned[j]
      BY <1>3, <2>1, <2>4
    <3>2. HoldsValue(Tape(p, t), v)
      BY <1>4
    <3> QED
      <4> HIDE DEF Ren, owned, q, p, j
      <4> QED BY <2>1, <2>2, <3>1, <3>2
  <2> QED BY <2>3, <2>4
<1>11. \A a \in Arcs : m.arcs[a] # NoValue => m.arcs[a][1] \in Used(1) /\ m.arcs[a][2] \in Used(2)
  BY DEF Used, ArcValues
<1>12. \A o \in DOMAIN m.outs : m.outs[o] # NoValue => m.outs[o] \in Used(2)
  BY DEF Used, OutValues
<1>13. n.monoid = q /\ n.arcs = arcs /\ n.outs = outs /\ n = Machine(n.monoid, n.arcs, n.outs)
  BY MachineFields
<1> HIDE DEF Ren, q, n, owned
<1>14. \A a \in Arcs : m.arcs[a] # NoValue =>
          /\ IsLabelOf(q, arcs[a]) /\ arcs[a] # NoValue
          /\ WordsOf(q, arcs[a]) = WordsOf(p, m.arcs[a])
  <2> SUFFICES ASSUME NEW a \in Arcs, m.arcs[a] # NoValue
               PROVE  IsLabelOf(q, arcs[a]) /\ arcs[a] # NoValue /\ WordsOf(q, arcs[a]) = WordsOf(p, m.arcs[a])
    OBVIOUS
  <2>1. /\ arcs[a] = <<Ren(1, m.arcs[a][1]), Ren(2, m.arcs[a][2])>>
        /\ arcs[a][1] = Ren(1, m.arcs[a][1]) /\ arcs[a][2] = Ren(2, m.arcs[a][2])
    OBVIOUS
  <2> HIDE DEF arcs
  <2>2. \A t \in 1 .. 2 : HoldsValue(Tape(q, t), arcs[a][t]) /\ Gen(Tape(q, t), arcs[a][t]) = Gen(Tape(p, t), m.arcs[a][t])
    BY <1>10, <1>11, <2>1
  <2>3. IsLabelOf(q, arcs[a])
    BY <2>1, <2>2 DEF IsLabelOf
  <2>4. Tapes(q) = 1 .. 2
    BY <1>9, ProductTypes
  <2> QED BY <1>3, <1>9, <2>2, <2>3, <2>4, LabelIsThere DEF WordsOf
<1>15. \A o \in DOMAIN m.outs : m.outs[o] # NoValue =>
          /\ HoldsValue(Tape(q, 2), outs[o]) /\ Gen(Tape(q, 2), outs[o]) = Gen(Tape(p, 2), m.outs[o])
          /\ (m.outs[o] \in Nat => outs[o] \in Nat)
  BY <1>10, <1>12
<1>16. DOMAIN outs = DOMAIN m.outs /\ \A o \in DOMAIN m.outs : m.outs[o] = NoValue => outs[o] = NoValue
  OBVIOUS
<1>17. \A o \in DOMAIN m.outs : m.outs[o] # NoValue => outs[o] # NoValue
  <2>1. \A o \in DOMAIN m.outs : m.outs[o] # NoValue => m.outs[o] \in Nat
    <3>1. CASE k = "SparseSSFST"
      BY <1>2, <3>1, OutputTypes
    <3>2. CASE k = "TotalSSFST"
      BY <1>2, <3>2, OutputTypes
    <3>3. CASE k = "ExpandedFST"
      <4>1. m.outs \in Seq(Nat)
        BY <1>2, <3>3, OutputTypes
      <4> QED BY <4>1
    <3>4. CASE k \notin {"SparseSSFST", "TotalSSFST", "ExpandedFST"}
      <4>1. m.outs = <<>>
        BY <1>2, <3>4, OutputTypes
      <4> QED BY <4>1
    <3> QED BY <3>1, <3>2, <3>3, <3>4
  <2> QED BY <1>15, <2>1, ValuesAssumption
<1>18. outs = [o \in DOMAIN m.outs |-> outs[o]]
  OBVIOUS
<1>19. outs \in Outputs(k)
  <2> HIDE DEF outs
  <2>1. CASE k = "SparseSSFST"
    <3>1. m.outs \in [States -> Nat \cup {NoValue}]
      BY <1>2, <2>1, OutputTypes
    <3>2. DOMAIN m.outs = States /\ \A o \in States : m.outs[o] = NoValue \/ m.outs[o] \in Nat
      BY <3>1
    <3>3. \A o \in States : outs[o] \in Nat \cup {NoValue}
      BY <1>15, <1>16, <3>2
    <3>4. outs = [o \in States |-> outs[o]]
      BY <1>18, <3>2
    <3>5. outs \in [States -> Nat \cup {NoValue}]
      BY ONLY <3>3, <3>4
    <3> QED BY <2>1, <3>5, OutputTypes
  <2>2. CASE k = "TotalSSFST"
    <3> DEFINE D == States \cup {"initial"}
    <3>1. m.outs \in [D -> Nat]
      BY <1>2, <2>2, OutputTypes
    <3> HIDE DEF D
    <3>2. DOMAIN m.outs = D /\ \A o \in D : m.outs[o] \in Nat /\ m.outs[o] # NoValue
      BY <3>1, ValuesAssumption
    <3>3. \A o \in D : outs[o] \in Nat
      BY <1>15, <3>2
    <3>4. outs = [o \in D |-> outs[o]]
      BY <1>18, <3>2
    <3>5. outs \in [D -> Nat]
      BY ONLY <3>3, <3>4
    <3> QED BY <2>2, <3>5, OutputTypes DEF D
  <2>3. CASE k = "ExpandedFST"
    <3>1. m.outs \in Seq(Nat)
      BY <1>2, <2>3, OutputTypes
    <3>2. \A o \in DOMAIN m.outs : m.outs[o] \in Nat /\ m.outs[o] # NoValue
      BY <3>1, ValuesAssumption
    <3>3. DOMAIN m.outs = 1 .. Len(m.outs) /\ Len(m.outs) \in Nat
      BY <3>1
    <3>4. \A o \in 1 .. Len(m.outs) : outs[o] \in Nat
      BY <1>15, <3>2, <3>3
    <3>5. outs = [o \in 1 .. Len(m.outs) |-> outs[o]]
      BY <1>18, <3>3
    <3> DEFINE l == Len(m.outs)
    <3> HIDE DEF l
    <3>6. [o \in 1 .. l |-> outs[o]] \in Seq(Nat)
      BY <3>3, <3>4 DEF l
    <3> QED BY <2>3, <3>5, <3>6, OutputTypes DEF l
  <2>4. CASE k \notin {"SparseSSFST", "TotalSSFST", "ExpandedFST"}
    <3>1. m.outs = <<>>
      BY <1>2, <2>4, OutputTypes
    <3>2. outs = <<>>
      BY <1>18, <3>1
    <3> QED BY <2>4, <3>2, OutputTypes
  <2> QED BY <2>1, <2>2, <2>3, <2>4
<1>20. \A a \in Arcs : m.arcs[a] = NoValue => arcs[a] = NoValue
  OBVIOUS
<1>21. arcs = [a \in Arcs |-> arcs[a]]
  OBVIOUS
<1> HIDE DEF arcs, outs
<1>22. IsMachine(k, n)
  BY <1>9, <1>13, <1>14, <1>15, <1>16, <1>19, <1>20, <1>21 DEF IsMachine, OutputMonoid
<1>23. ArcWords(n) = ArcWords(m)
  BY <1>13, <1>14, <1>20 DEF ArcWords
<1>24. [o \in DOMAIN n.outs |-> OutWord(n, o)] = [o \in DOMAIN m.outs |-> OutWord(m, o)]
  BY <1>13, <1>15, <1>16, <1>17 DEF OutWord, OutputMonoid
<1>25. Denoted(n) = Denoted(m)
  BY <1>23, <1>24 DEF Denoted
<1> QED BY <1>1, <1>22, <1>25

--------------------------------------------------------------------------------
\* What trimming leaves of the labels and the outputs is what it leaves of the words.
LEMMA TrimKeeps ==
    ASSUME LabelsInv, NEW arcs, NEW states, Trim(arcs, states)
    PROVE  LabelsInv'
<1> DEFINE cutArcs == [a \in Arcs |-> IF a \in arcs THEN machine.arcs[a] ELSE NoValue]
           outs == [o \in DOMAIN machine.outs |-> IF Stays(o, states) THEN machine.outs[o] ELSE OutputsOf(kind)[o]]
           empty == IF kind = "TotalSSFST" THEN <<>> ELSE NoValue
           m == Machine(machine.monoid, cutArcs, outs)
           keptArcs == [a \in Arcs |-> IF a \in arcs THEN meant.arcs[a] ELSE NoValue]
           keptOuts == [o \in DOMAIN meant.outs |-> IF Stays(o, states) THEN meant.outs[o] ELSE empty]
<1>1. /\ machine' = Compacted(m)
      /\ meant' = Meaning(keptArcs, keptOuts)
      /\ kind' = kind /\ source' = source
  BY DEF Trim
<1>2. /\ IsMachine(kind, machine) /\ meant = Denoted(machine) /\ kind \in Kinds
      /\ IsProduct(source.m) /\ HasShape(kind, source.m) /\ IsLabelOf(source.m, source.v)
  BY DEF LabelsInv
<1>3. /\ IsProduct(machine.monoid) /\ HasShape(kind, machine.monoid) /\ machine.outs \in Outputs(kind)
      /\ OutputMonoid(machine) = Tape(machine.monoid, 2)
      /\ \A a \in Arcs : machine.arcs[a] = NoValue \/ IsLabelOf(machine.monoid, machine.arcs[a])
      /\ \A o \in DOMAIN machine.outs : machine.outs[o] = NoValue \/ HoldsValue(OutputMonoid(machine), machine.outs[o])
  BY <1>2, MachineTypes
<1>4. /\ meant.arcs = [a \in Arcs |-> IF machine.arcs[a] = NoValue THEN NoValue ELSE WordsOf(machine.monoid, machine.arcs[a])]
      /\ meant.outs = [o \in DOMAIN machine.outs |->
                          IF machine.outs[o] = NoValue THEN NoValue ELSE Gen(OutputMonoid(machine), machine.outs[o])]
  BY <1>2, MachineFields DEF Denoted, ArcWords, OutWord
<1>5. m.monoid = machine.monoid /\ m.arcs = cutArcs /\ m.outs = outs /\ m = Machine(m.monoid, m.arcs, m.outs)
  BY MachineFields
<1> HIDE DEF m
<1>6. OutputMonoid(m) = OutputMonoid(machine)
  BY <1>5 DEF OutputMonoid
<1>7. \A o \in DOMAIN machine.outs : Stays(o, states) \/ /\ kind = "SparseSSFST"
                                                           /\ outs[o] = NoValue
                                                        \/ /\ kind = "TotalSSFST"
                                                           /\ outs[o] = 0
  <2> SUFFICES ASSUME NEW o \in DOMAIN machine.outs, ~Stays(o, states)
               PROVE  \/ kind = "SparseSSFST" /\ outs[o] = NoValue
                      \/ kind = "TotalSSFST" /\ outs[o] = 0
    OBVIOUS
  <2>1. kind # "ExpandedFST" /\ outs[o] = OutputsOf(kind)[o]
    BY DEF Stays, HasFEps
  <2>2. CASE kind = "SparseSSFST"
    <3>1. o \in States
      BY <1>3, <2>2, OutputTypes
    <3>2. OutputsOf(kind) = [s \in States |-> NoValue]
      BY <2>2 DEF OutputsOf
    <3> QED BY <2>1, <2>2, <3>1, <3>2
  <2>3. CASE kind = "TotalSSFST"
    <3>1. o \in States \cup {"initial"}
      BY <1>3, <2>3, OutputTypes
    <3>2. OutputsOf(kind) = [s \in States \cup {"initial"} |-> 0]
      BY <2>3 DEF OutputsOf
    <3> QED BY <2>1, <2>3, <3>1, <3>2
  <2>4. CASE kind \notin {"SparseSSFST", "TotalSSFST", "ExpandedFST"}
    <3>1. machine.outs = <<>>
      BY <1>3, <2>4, OutputTypes
    <3> QED BY <3>1
  <2> QED BY <2>1, <2>2, <2>3, <2>4
<1>8. kind = "TotalSSFST" => HoldsValue(OutputMonoid(machine), 0) /\ Gen(OutputMonoid(machine), 0) = <<>>
  <2> SUFFICES ASSUME kind = "TotalSSFST"
               PROVE  HoldsValue(OutputMonoid(machine), 0) /\ Gen(OutputMonoid(machine), 0) = <<>>
    OBVIOUS
  <2> DEFINE c == OutputMonoid(machine)
  <2>1. c \in Monoids /\ c.kind = "pool"
    <3>1. kind \in {"SparseSSFST", "TotalSSFST", "ExpandedFST"}
      OBVIOUS
    <3>2. Tape(machine.monoid, 2).kind = "pool"
      BY <1>3, <3>1, OutputsInPool
    <3>3. Tape(machine.monoid, 2) \in Monoids
      BY <1>3, ProductTypes
    <3> QED BY <1>3, <3>2, <3>3
  <2> HIDE DEF c
  <2>2. Len(c.pool) \in Nat /\ Len(c.pool) > 0 /\ c.pool[1] = <<>>
    BY <2>1, MonoidTypes
  <2>3. 0 \in 0 .. Len(c.pool) - 1
    BY <2>2
  <2>4. Gen(c, 0) = c.pool[0 + 1]
    BY <2>1, OfAPool
  <2>5. HoldsValue(c, 0) /\ Gen(c, 0) = <<>>
    BY <2>1, <2>2, <2>3, <2>4 DEF HoldsValue
  <2> QED BY <2>5 DEF c
<1>9. DOMAIN outs = DOMAIN machine.outs /\ \A o \in DOMAIN machine.outs : Stays(o, states) => outs[o] = machine.outs[o]
  OBVIOUS
<1>10. outs = [o \in DOMAIN machine.outs |-> outs[o]]
  OBVIOUS
<1>11. outs \in Outputs(kind)
  <2> HIDE DEF outs
  <2>1. CASE kind = "SparseSSFST"
    <3>1. machine.outs \in [States -> Nat \cup {NoValue}]
      BY <1>3, <2>1, OutputTypes
    <3>2. DOMAIN machine.outs = States /\ \A o \in States : outs[o] \in Nat \cup {NoValue}
      BY <1>7, <1>9, <2>1, <3>1
    <3>3. outs = [o \in States |-> outs[o]]
      BY <1>10, <3>2
    <3>4. outs \in [States -> Nat \cup {NoValue}]
      BY ONLY <3>2, <3>3
    <3> QED BY <2>1, <3>4, OutputTypes
  <2>2. CASE kind = "TotalSSFST"
    <3> DEFINE D == States \cup {"initial"}
    <3>1. machine.outs \in [D -> Nat]
      BY <1>3, <2>2, OutputTypes
    <3> HIDE DEF D
    <3>2. DOMAIN machine.outs = D /\ \A o \in D : outs[o] \in Nat
      BY <1>7, <1>9, <2>2, <3>1
    <3>3. outs = [o \in D |-> outs[o]]
      BY <1>10, <3>2
    <3>4. outs \in [D -> Nat]
      BY ONLY <3>2, <3>3
    <3> QED BY <2>2, <3>4, OutputTypes DEF D
  <2>3. CASE kind \notin {"SparseSSFST", "TotalSSFST"}
    <3>1. \A o \in DOMAIN machine.outs : outs[o] = machine.outs[o]
      BY <1>7, <1>9, <2>3
    <3>2. outs = [o \in DOMAIN machine.outs |-> machine.outs[o]]
      BY <1>10, <3>1
    <3>3. outs = machine.outs
      BY <1>3, <3>2, OutputFunction
    <3> QED BY <1>3, <3>3
  <2> QED BY <2>1, <2>2, <2>3
<1>12. \A o \in DOMAIN outs : outs[o] = NoValue \/ HoldsValue(OutputMonoid(m), outs[o])
  <2> HIDE DEF outs
  <2> QED BY <1>3, <1>6, <1>7, <1>8, <1>9
<1>13. \A a \in Arcs : cutArcs[a] = NoValue \/ IsLabelOf(m.monoid, cutArcs[a])
  BY <1>3, <1>5
<1>14. cutArcs = [a \in Arcs |-> cutArcs[a]]
  OBVIOUS
<1>15. ArcWords(m) = keptArcs
  BY <1>4, <1>5 DEF ArcWords
<1> HIDE DEF cutArcs, outs
<1>16. IsMachine(kind, m)
  BY <1>3, <1>5, <1>11, <1>12, <1>13, <1>14 DEF IsMachine
<1>17. [o \in DOMAIN m.outs |-> OutWord(m, o)] = keptOuts
  <2>1. \A o \in DOMAIN machine.outs : OutWord(m, o) = IF Stays(o, states) THEN meant.outs[o] ELSE empty
    <3> SUFFICES ASSUME NEW o \in DOMAIN machine.outs
                 PROVE  OutWord(m, o) = IF Stays(o, states) THEN meant.outs[o] ELSE empty
      OBVIOUS
    <3>1. OutWord(m, o) = IF outs[o] = NoValue THEN NoValue ELSE Gen(OutputMonoid(machine), outs[o])
      BY <1>5, <1>6 DEF OutWord
    <3>2. CASE Stays(o, states)
      BY <1>4, <1>9, <3>1, <3>2
    <3>3. CASE ~Stays(o, states)
      BY <1>7, <1>8, <3>1, <3>3, ValuesAssumption
    <3> QED BY <3>2, <3>3
  <2>2. DOMAIN m.outs = DOMAIN machine.outs /\ DOMAIN meant.outs = DOMAIN machine.outs
    BY <1>4, <1>5, <1>9
  <2> QED BY <2>1, <2>2
<1>18. Denoted(m) = meant'
  BY <1>1, <1>15, <1>17 DEF Denoted
<1>19. IsMachine(kind, Compacted(m)) /\ Denoted(Compacted(m)) = Denoted(m)
  BY <1>16, CompactedKeeps
<1> QED BY <1>1, <1>2, <1>18, <1>19 DEF LabelsInv

\* The one pool of the machines that are serialized is read into the slot it was
\* written from, in whatever order the reader takes the pools.
LEMMA ReadBackIsWritten ==
    ASSUME NEW m, IsProduct(m), HasShape("TotalSSFST", m), NEW order \in Orders(m)
    PROVE  ReadBack(m, order) = m
<1>1. /\ m.slots = <<1, 2>> /\ m.owned[1].kind = "symbol" /\ m.owned[2].kind = "pool"
      /\ DOMAIN m.owned = 1 .. 2 /\ m = Product(m.owned, m.slots)
  BY ProductTypes, OutputsInPool
<1>2. PoolSlots(m) = {2}
  BY <1>1 DEF PoolSlots
<1>3. IsFiniteSet({2}) /\ Cardinality({2}) = 1
  BY FS_Singleton
<1>4. Nth({2}, 0) = 2
  <2>1. Rank({2}, 2) \in 0 .. 0 /\ Nth({2}, Rank({2}, 2)) = 2
    <3>1. {2} \in SUBSET Nat /\ 2 \in {2}
      OBVIOUS
    <3> QED BY <1>3, <3>1, RankOfMember
  <2> QED BY <2>1
<1>5. Written(m)[1] = m.owned[2]
  BY <1>2, <1>3, <1>4 DEF Written
<1>6. order \in [1 .. 1 -> {2}]
  BY <1>2, <1>3 DEF Orders
<1>7. (CHOOSE k \in DOMAIN order : order[k] = 2) = 1
  BY <1>6
<1>8. [j \in DOMAIN m.owned |->
          IF j \in PoolSlots(m) THEN Written(m)[CHOOSE k \in DOMAIN order : order[k] = j] ELSE m.owned[j]]
        = [j \in DOMAIN m.owned |-> m.owned[j]]
  BY <1>1, <1>2, <1>5, <1>7
<1>9. m.owned = [j \in DOMAIN m.owned |-> m.owned[j]]
  BY DEF IsProduct
<1> QED BY <1>1, <1>8, <1>9 DEF ReadBack

LEMMA ReloadKeeps ==
    ASSUME LabelsInv, ReloadMachine
    PROVE  LabelsInv'
<1> DEFINE outs == [machine.outs EXCEPT !["initial"] = 0]
           D == States \cup {"initial"}
           c == OutputMonoid(machine)
<1>1. PICK order \in Orders(machine.monoid) : machine' = Machine(ReadBack(machine.monoid, order), machine.arcs, outs)
  BY DEF ReloadMachine
<1>2. /\ kind = "TotalSSFST" /\ kind' = kind /\ source' = source
      /\ meant' = Meaning(meant.arcs, [meant.outs EXCEPT !["initial"] = <<>>])
  BY DEF ReloadMachine
<1>3. /\ IsMachine(kind, machine) /\ meant = Denoted(machine) /\ kind \in Kinds
      /\ IsProduct(source.m) /\ HasShape(kind, source.m) /\ IsLabelOf(source.m, source.v)
  BY DEF LabelsInv
<1>4. IsProduct(machine.monoid) /\ HasShape(kind, machine.monoid) /\ machine.outs \in [D -> Nat]
  BY <1>2, <1>3, MachineTypes, OutputTypes
<1>5. machine' = Machine(machine.monoid, machine.arcs, outs)
  BY <1>1, <1>2, <1>4, ReadBackIsWritten
<1>6. c \in Monoids /\ c.kind = "pool" /\ \A o \in D : HoldsValue(c, machine.outs[o])
  <2>1. c = Tape(machine.monoid, 2) /\ \A o \in D : machine.outs[o] = NoValue \/ HoldsValue(c, machine.outs[o])
    BY <1>3, <1>4, MachineTypes
  <2>2. \A o \in D : machine.outs[o] # NoValue
    BY <1>4, ValuesAssumption
  <2> QED BY <1>2, <1>4, <2>1, <2>2, ProductTypes, OutputsInPool
<1>7. HoldsValue(c, 0) /\ Gen(c, 0) = <<>>
  <2> HIDE DEF c
  <2>1. Len(c.pool) \in Nat /\ Len(c.pool) > 0 /\ c.pool[1] = <<>>
    BY <1>6, MonoidTypes
  <2>2. 0 \in 0 .. Len(c.pool) - 1
    BY <2>1
  <2>3. Gen(c, 0) = c.pool[0 + 1]
    BY <1>6, OfAPool
  <2> QED BY <1>6, <2>1, <2>2, <2>3 DEF HoldsValue
<1>8. "initial" \in D
  OBVIOUS
<1> HIDE DEF D
<1>9. /\ outs \in [D -> Nat] /\ outs["initial"] = 0
      /\ \A o \in D : o # "initial" => outs[o] = machine.outs[o]
  BY <1>4, <1>8
<1> HIDE DEF outs
<1>10. DOMAIN outs = D /\ \A o \in DOMAIN outs : outs[o] # NoValue /\ HoldsValue(c, outs[o])
  <2>1. DOMAIN outs = D /\ \A o \in D : outs[o] # NoValue
    BY <1>9, ValuesAssumption
  <2> HIDE DEF c
  <2> QED BY <1>6, <1>7, <1>9, <2>1
<1>11. outs \in Outputs(kind)
  BY <1>2, <1>9, OutputTypes DEF D
<1>12. /\ IsMachine(kind, machine')
       /\ Denoted(machine') = Meaning(Denoted(machine).arcs,
              [o \in DOMAIN outs |-> IF outs[o] = NoValue THEN NoValue ELSE Gen(c, outs[o])])
  BY <1>3, <1>5, <1>10, <1>11, OutsArePut
<1>13. meant.outs = [o \in D |-> Gen(c, machine.outs[o])]
  <2>1. meant.outs = [o \in DOMAIN machine.outs |-> IF machine.outs[o] = NoValue THEN NoValue ELSE Gen(c, machine.outs[o])]
    BY <1>3, MachineFields DEF Denoted, OutWord
  <2>2. DOMAIN machine.outs = D /\ \A o \in D : machine.outs[o] # NoValue
    BY <1>4, ValuesAssumption
  <2> QED BY <2>1, <2>2
<1> HIDE DEF c
<1>14. [meant.outs EXCEPT !["initial"] = <<>>]
         = [o \in DOMAIN outs |-> IF outs[o] = NoValue THEN NoValue ELSE Gen(c, outs[o])]
  BY <1>7, <1>8, <1>9, <1>10, <1>13
<1>15. meant' = Denoted(machine')
  BY <1>2, <1>3, <1>12, <1>14
<1> QED BY <1>2, <1>3, <1>12, <1>15 DEF LabelsInv

--------------------------------------------------------------------------------
\* The monoids of a new machine are empty.
LEMMA EmptyMonoids ==
    EmptyPool \in Monoids /\ Letters \in Monoids /\ Counts \in Monoids
<1>1. /\ EmptyPool = [kind |-> "pool", pool |-> <<<<>>>>]
      /\ Letters = [kind |-> "symbol", pool |-> <<>>] /\ Counts = [kind |-> "count", pool |-> <<>>]
  BY DEF EmptyPool, Pool, Letters, Counts
<1>2. <<>> \in Seq(Seq(Sigma)) /\ <<>> \in Seq(Sigma)
  OBVIOUS
<1> DEFINE one == <<<<>>>>
<1>3. one \in Seq(Seq(Sigma)) /\ one # <<>> /\ one[1] = <<>> /\ DOMAIN one = 1 .. 1
  BY <1>2
<1> HIDE DEF one
<1>4. [kind |-> "pool", pool |-> one] \in Monoids
  <2>1. \A i, j \in DOMAIN one : one[i] = one[j] => i = j
    BY <1>3
  <2>2. [kind |-> "pool", pool |-> one] \in [kind : {"pool", "symbol", "count"}, pool : Seq(Seq(Sigma))]
    BY <1>3
  <2> QED BY <1>3, <2>1, <2>2 DEF Monoids
<1>5. [kind |-> "symbol", pool |-> <<>>] \in Monoids /\ [kind |-> "count", pool |-> <<>>] \in Monoids
  BY <1>2 DEF Monoids
<1> QED BY <1>1, <1>4, <1>5 DEF one

LEMMA NewMonoid ==
    ASSUME NEW k \in Kinds
    PROVE  IsProduct(MonoidOf(k)) /\ HasShape(k, MonoidOf(k))
<1> DEFINE m == MonoidOf(k)
<1>1. \/ m = Product(<<EmptyPool>>, <<1, 1>>)
      \/ m = Product(<<EmptyPool, EmptyPool>>, <<1, 2>>)
      \/ m = Product(<<EmptyPool, Counts>>, <<1, 2>>)
      \/ m = Product(<<Letters, EmptyPool>>, <<1, 2>>)
  BY DEF MonoidOf, Kinds
<1> HIDE DEF m
<1>2. m = Product(m.owned, m.slots)
  BY <1>1 DEF Product
<1>3. CASE m.slots = <<1, 1>> /\ m.owned = <<EmptyPool>>
  <2>1. m.owned \in [1 .. m.slots[2] -> Monoids]
    BY <1>3, EmptyMonoids
  <2> QED BY <1>2, <1>3, <2>1 DEF IsProduct, HasShape, m
<1>4. CASE m.slots = <<1, 2>> /\ m.owned \in {<<EmptyPool, EmptyPool>>, <<EmptyPool, Counts>>, <<Letters, EmptyPool>>}
  <2>1. m.owned \in [1 .. m.slots[2] -> Monoids]
    BY <1>4, EmptyMonoids
  <2> QED BY <1>2, <1>4, <2>1 DEF IsProduct, HasShape, m
<1> QED BY <1>1, <1>3, <1>4 DEF Product

LEMMA NewMachineIs ==
    ASSUME NEW k \in Kinds
    PROVE  IsMachine(k, NewMachine(k))
<1> DEFINE m == NewMachine(k)
<1>1. /\ m.monoid = MonoidOf(k) /\ m.arcs = [a \in Arcs |-> NoValue] /\ m.outs = OutputsOf(k)
      /\ m = Machine(m.monoid, m.arcs, m.outs)
  BY MachineFields DEF NewMachine
<1>2. IsProduct(MonoidOf(k)) /\ HasShape(k, MonoidOf(k))
  BY NewMonoid
<1> HIDE DEF m
<1>3. OutputMonoid(m) = Tape(MonoidOf(k), 2)
  BY <1>1 DEF OutputMonoid
<1>4. OutputsOf(k) \in Outputs(k) /\ \A o \in DOMAIN OutputsOf(k) :
          OutputsOf(k)[o] = NoValue \/ HoldsValue(Tape(MonoidOf(k), 2), OutputsOf(k)[o])
  <2>1. CASE k = "SparseSSFST"
    <3>1. OutputsOf(k) = [s \in States |-> NoValue]
      BY <2>1 DEF OutputsOf
    <3> QED BY <2>1, <3>1, OutputTypes
  <2>2. CASE k = "TotalSSFST"
    <3>1. OutputsOf(k) = [s \in States \cup {"initial"} |-> 0]
      BY <2>2 DEF OutputsOf
    <3> DEFINE c == Tape(MonoidOf(k), 2)
    <3>2. c \in Monoids
      BY <1>2, ProductTypes
    <3>3. c.kind = "pool"
      BY <1>2, <2>2, OutputsInPool
    <3> HIDE DEF c
    <3>4. Len(c.pool) \in Nat /\ Len(c.pool) > 0
      BY <3>2, <3>3, MonoidTypes
    <3>5. HoldsValue(c, 0)
      BY <3>3, <3>4 DEF HoldsValue
    <3> QED BY <2>2, <3>1, <3>5, OutputTypes DEF c
  <2>3. CASE k \notin {"SparseSSFST", "TotalSSFST"}
    <3>1. OutputsOf(k) = <<>>
      BY <2>3 DEF OutputsOf
    <3>2. <<>> \in Outputs(k)
      <4>1. CASE k = "ExpandedFST"
        <5>1. Outputs(k) = Seq(Nat)
          BY <4>1, OutputTypes
        <5>2. <<>> \in Seq(Nat)
          OBVIOUS
        <5> QED BY <5>1, <5>2
      <4>2. CASE k # "ExpandedFST"
        <5>1. k \notin {"SparseSSFST", "TotalSSFST", "ExpandedFST"}
          BY <2>3, <4>2
        <5>2. Outputs(k) = {<<>>}
          BY <5>1, OutputTypes
        <5> QED BY <5>2
      <4> QED BY <4>1, <4>2
    <3> QED BY <3>1, <3>2
  <2> QED BY <2>1, <2>2, <2>3
<1>5. IsMachine(k, m)
  BY <1>1, <1>2, <1>3, <1>4 DEF IsMachine
<1> QED BY <1>5 DEF m

\* The label of a letter, or none, and a word, in any machine of the type.
LEMMA LabelInShape ==
    ASSUME NEW k \in Kinds, NEW m, IsProduct(m), HasShape(k, m),
           NEW input \in Seq(Sigma), NEW output \in Seq(Sigma), Len(input) <= 1
    PROVE  LET r == LabelOf(m, <<input, output>>)
           IN  IsProduct(r.m) /\ HasShape(k, r.m) /\ IsLabelOf(r.m, r.v)
<1> DEFINE texts == <<input, output>>
           r == LabelOf(m, texts)
<1>1. Tape(m, 2).kind # "symbol"
  <2>1. Tape(MonoidOf(k), 2).kind # "symbol"
    <3>1. \/ MonoidOf(k) = Product(<<EmptyPool>>, <<1, 1>>)
          \/ MonoidOf(k) = Product(<<EmptyPool, EmptyPool>>, <<1, 2>>)
          \/ MonoidOf(k) = Product(<<EmptyPool, Counts>>, <<1, 2>>)
          \/ MonoidOf(k) = Product(<<Letters, EmptyPool>>, <<1, 2>>)
      BY DEF MonoidOf, Kinds
    <3> QED BY <3>1 DEF Product, Tape, EmptyPool, Pool, Counts
  <2>2. IsProduct(MonoidOf(k)) /\ HasShape(k, MonoidOf(k))
    BY NewMonoid
  <2> QED BY <2>1, <2>2, SameKinds
<1>2. texts[1] = input /\ texts[2] = output
  OBVIOUS
<1> HIDE DEF texts
<1>3. \A t \in 1 .. 2 : texts[t] \in Seq(Sigma) /\ (Tape(m, t).kind = "symbol" => Len(texts[t]) <= 1)
  BY <1>1, <1>2
<1>4. GivesLabel(m, r, [t \in 1 .. 2 |-> Counted(Tape(m, t), texts[t])])
  BY <1>3, LabelOfGives
<1> HIDE DEF r
<1>5. IsProduct(r.m) /\ ProductGrows(m, r.m) /\ IsLabelOf(r.m, r.v)
  BY <1>4 DEF GivesLabel
<1>6. HasShape(k, r.m)
  BY <1>5, TapesGrow
<1> QED BY <1>5, <1>6 DEF r, texts

LEMMA LabelsInitHolds == LabelsInit => LabelsInv
<1> SUFFICES ASSUME LabelsInit PROVE LabelsInv
  OBVIOUS
<1>1. kind \in Kinds /\ machine = NewMachine(kind) /\ meant = Denoted(machine)
  BY DEF LabelsInit
<1>2. PICK v \in Texts, w \in Texts, x \in Texts, y \in Texts :
         /\ Len(v) <= 1 /\ Len(w) <= 1
         /\ source = LabelOf(LabelOf(MonoidOf(kind), <<v, x>>).m, <<w, y>>)
  BY DEF LabelsInit
<1>3. IsMachine(kind, machine)
  BY <1>1, NewMachineIs
<1>4. v \in Seq(Sigma) /\ w \in Seq(Sigma) /\ x \in Seq(Sigma) /\ y \in Seq(Sigma)
  BY TextsAssumption
<1>5. IsProduct(MonoidOf(kind)) /\ HasShape(kind, MonoidOf(kind))
  BY <1>1, NewMonoid
<1> DEFINE n == LabelOf(MonoidOf(kind), <<v, x>>).m
<1>6. IsProduct(n) /\ HasShape(kind, n)
  BY <1>1, <1>2, <1>4, <1>5, LabelInShape
<1> HIDE DEF n
<1>7. source = LabelOf(n, <<w, y>>)
  BY <1>2 DEF n
<1>8. IsProduct(source.m) /\ HasShape(kind, source.m) /\ IsLabelOf(source.m, source.v)
  BY <1>1, <1>2, <1>4, <1>6, <1>7, LabelInShape
<1> QED BY <1>1, <1>3, <1>8 DEF LabelsInv

LEMMA LabelsStepHolds == LabelsInv /\ [LabelsNext]_labelVars => LabelsInv'
<1> SUFFICES ASSUME LabelsInv, [LabelsNext]_labelVars PROVE LabelsInv'
  OBVIOUS
<1>1. ASSUME NEW a \in Arcs, NEW v \in Texts, NEW w \in Texts, AddWords(a, <<v, w>>) PROVE LabelsInv'
  BY <1>1, AddWordsKeeps
<1>2. ASSUME NEW a \in Arcs, NEW b \in Arcs, NEW to \in Arcs, Multiply(a, b, to) PROVE LabelsInv'
  BY <1>2, MultiplyKeeps
<1>3. ASSUME NEW a \in Arcs, NEW b \in Arcs, NEW to \in Arcs, Divide(a, b, to) PROVE LabelsInv'
  BY <1>3, DivideKeeps
<1>4. ASSUME NEW a \in Arcs, NEW b \in Arcs, NEW to \in Arcs, Share(a, b, to) PROVE LabelsInv'
  BY <1>4, ShareKeeps
<1>5. ASSUME NEW a \in Arcs, Reintern(a) PROVE LabelsInv'
  BY <1>5, ReinternKeeps
<1>6. ASSUME NEW o, NEW word \in Texts, SetOutput(o, word) PROVE LabelsInv'
  BY <1>6, SetOutputKeeps
<1>7. ASSUME NEW word \in Texts, AddFEps(word) PROVE LabelsInv'
  BY <1>7, AddFEpsKeeps
<1>8. ASSUME NEW arcs, NEW states, Trim(arcs, states) PROVE LabelsInv'
  BY <1>8, TrimKeeps
<1>9. CASE ReloadMachine
  BY <1>9, ReloadKeeps
<1>10. CASE UNCHANGED labelVars
  <2>1. kind' = kind /\ machine' = machine /\ meant' = meant /\ source' = source
    BY <1>10 DEF labelVars
  <2> QED BY <2>1 DEF LabelsInv
<1> QED BY <1>1, <1>2, <1>3, <1>4, <1>5, <1>6, <1>7, <1>8, <1>9, <1>10 DEF LabelsNext
--------------------------------------------------------------------------------
\* The inductive invariant holds in every reachable state: the monoids of the
\* machine have the shape of its type, no pool has a word twice, every value of
\* a transition or an output is one its monoid holds, and it stands for the
\* words that were put there.
THEOREM LabelsInvariant == LabelsSpec => []LabelsInv
<1>1. LabelsInit => LabelsInv
  BY LabelsInitHolds
<1>2. LabelsInv /\ [LabelsNext]_labelVars => LabelsInv'
  BY LabelsStepHolds
<1> QED BY <1>1, <1>2, PTL DEF LabelsSpec

LEMMA LabelsInvKeepsWords == LabelsInv => LabelsKeepTheirWords
<1> SUFFICES ASSUME LabelsInv PROVE LabelsKeepTheirWords
  OBVIOUS
<1> DEFINE m == machine.monoid
<1>1. IsMachine(kind, machine) /\ meant = Denoted(machine)
  BY DEF LabelsInv
<1>2. /\ IsProduct(m) /\ OutputMonoid(machine) = Tape(m, 2)
      /\ \A a \in Arcs : machine.arcs[a] = NoValue \/ IsLabelOf(m, machine.arcs[a])
      /\ \A o \in DOMAIN machine.outs : machine.outs[o] = NoValue \/ HoldsValue(Tape(m, 2), machine.outs[o])
  BY <1>1, MachineTypes
<1>3. /\ Tapes(m) = 1 .. 2
      /\ \A t \in 1 .. 2 : Tape(m, t) = m.owned[m.slots[t]] /\ Tape(m, t) \in Monoids
  BY <1>2, ProductTypes
<1>4. \A t \in 1 .. 2 : \A v : HoldsValue(Tape(m, t), v) => IsValue(t, v)
  <2> SUFFICES ASSUME NEW t \in 1 .. 2, NEW v, HoldsValue(Tape(m, t), v), IsPool(machine, m.slots[t])
               PROVE  v < Len(Tape(m, t).pool)
    BY DEF IsValue
  <2>1. Tape(m, t).kind = "pool"
    BY <1>3 DEF IsPool
  <2>2. Len(Tape(m, t).pool) \in Nat
    BY <1>3, MonoidTypes
  <2> QED BY <2>1, <2>2 DEF HoldsValue
<1>5. \A t \in 1 .. 2 : \A v \in ArcValues(machine, t) : HoldsValue(Tape(m, t), v)
  <2> SUFFICES ASSUME NEW t \in 1 .. 2, NEW v \in ArcValues(machine, t)
               PROVE  HoldsValue(Tape(m, t), v)
    OBVIOUS
  <2>1. PICK a \in Arcs : machine.arcs[a] # NoValue /\ v = machine.arcs[a][t]
    BY DEF ArcValues
  <2>2. IsLabelOf(m, machine.arcs[a])
    BY <1>2, <2>1
  <2> QED BY <2>1, <2>2 DEF IsLabelOf
<1>6. \A v \in OutValues(machine) : HoldsValue(Tape(m, 2), v)
  BY <1>2 DEF OutValues
<1> QED BY <1>1, <1>3, <1>4, <1>5, <1>6 DEF LabelsKeepTheirWords

\* No label and no output loses its words to the pool it is kept in: whatever is
\* done to the pools, and however often they are renumbered (CompactLabels(),
\* include/fst.hpp, expanded_fst.hpp, ssft.hpp, total_ssft.hpp).
THEOREM LabelsKeepWords == LabelsSpec => []LabelsKeepTheirWords
<1> QED BY LabelsInvKeepsWords, LabelsInvariant, PTL

--------------------------------------------------------------------------------
(* The loop of compact().                                                    *)

\* The slices the loop is given lie inside the vector.
SlicesInside == \A id \in LiveIds : EndOf(wordsData[id]) <= Len(Words)

\* The visited words start no later than the others, and none of the others
\* starts before the run being built.
VisitedInOrder ==
    \A j \in LiveIds \ visited :
        /\ \A id \in visited : wordsData[id].start <= wordsData[j].start
        /\ haveRun => runOldStart <= wordsData[j].start

\* The run being built is the last block of kept offsets.
RunIsLastBlock ==
    /\ \A p \in Kept : p < runOldEnd
    /\ runOldEnd <= Len(Words)
    /\ ~haveRun => visited = {}
    /\ haveRun => /\ runOldStart <= runOldEnd
                  /\ runOldStart .. runOldEnd - 1 \subseteq Kept
                  /\ runNewStart = Rank(Kept, runOldStart)

LoopInv ==
    /\ TypeOK
    /\ SlicesInside
    /\ VisitedInOrder
    /\ RunIsLastBlock
    /\ SharingIsKept
    /\ OffsetIsRank

LEMMA InitLoopInv == Init => LoopInv
<1> SUFFICES ASSUME Init
             PROVE  LoopInv
  OBVIOUS
<1> USE WordsAssumption, LenProperties DEF Init
<1>1. Len(Words) \in Nat
  OBVIOUS
<1>2. TypeOK
  <2>1. wordsData \in [LiveIds -> WordData]
    BY <1>1 DEF WordData
  <2> QED BY <1>1, <2>1, EmptySeq DEF TypeOK
<1>3. Kept = {}
  BY DEF Kept, Bytes
<1>4. SlicesInside /\ VisitedInOrder /\ RunIsLastBlock /\ OffsetIsRank
  BY <1>1, <1>3 DEF SlicesInside, VisitedInOrder, RunIsLastBlock, OffsetIsRank
<1>5. SharingIsKept
  <2>1. Cardinality({}) = 0
    BY FS_EmptySet
  <2>2. Pack(Words, {}) = <<>>
    <3>1. /\ Pack(Words, {}) \in Seq(Symbols) /\ Len(Pack(Words, {})) = Cardinality({})
      BY PackProperties
    <3> QED BY <2>1, <3>1, EmptySeq
  <2> QED BY <1>3, <2>2 DEF SharingIsKept
<1> QED BY <1>2, <1>4, <1>5 DEF LoopInv

\* Facts about the word a step visits that do not depend on the branch taken.
LEMMA VisitFacts ==
    ASSUME LoopInv, NEW id \in LiveIds, Visit(id)
    PROVE  /\ wordsData[id].start \in Nat /\ wordsData[id].length \in Nat
           /\ EndOf(wordsData[id]) \in Nat
           /\ wordsData[id].start <= EndOf(wordsData[id])
           /\ EndOf(wordsData[id]) <= Len(Words)
           /\ Kept' = Kept \cup (wordsData[id].start .. EndOf(wordsData[id]) - 1)
           /\ Kept \in SUBSET (0 .. Len(Words) - 1)
           /\ IsFiniteSet(Kept) /\ Kept \in SUBSET Nat
           /\ \A j \in visited : wordsData[j].start <= wordsData[id].start
           /\ haveRun => runOldStart <= wordsData[id].start
           /\ Len(newWords) = Cardinality(Kept)
<1>1. wordsData[id].start \in Nat /\ wordsData[id].length \in Nat
  BY DEF LoopInv, TypeOK, WordData
<1>2. /\ EndOf(wordsData[id]) \in Nat
      /\ wordsData[id].start <= EndOf(wordsData[id])
      /\ EndOf(wordsData[id]) <= Len(Words)
  BY <1>1 DEF LoopInv, SlicesInside, EndOf
<1>3. Kept' = Kept \cup (wordsData[id].start .. EndOf(wordsData[id]) - 1)
  <2>1. wordsData' = wordsData /\ visited' = visited \cup {id}
    BY DEF Visit
  <2> QED BY <2>1 DEF Kept, Bytes, BytesOf
<1>4. ASSUME NEW p \in Kept
      PROVE  p \in 0 .. Len(Words) - 1
  <2>1. PICK j \in visited : p \in wordsData[j].start .. EndOf(wordsData[j]) - 1
    BY DEF Kept, Bytes, BytesOf
  <2>2. j \in LiveIds /\ wordsData[j].start \in Nat /\ wordsData[j].length \in Nat
    BY DEF LoopInv, TypeOK, WordData
  <2>3. EndOf(wordsData[j]) <= Len(Words) /\ EndOf(wordsData[j]) \in Nat
    BY <2>2 DEF LoopInv, SlicesInside, EndOf
  <2>4. Len(Words) \in Nat
    BY WordsAssumption, LenProperties
  <2> QED BY <2>1, <2>2, <2>3, <2>4
<1>5. Kept \in SUBSET (0 .. Len(Words) - 1)
  BY <1>4
<1>6. /\ IsFiniteSet(Kept) /\ Kept \in SUBSET Nat
      /\ Len(Pack(Words, Kept)) = Cardinality(Kept)
  BY <1>5, WordsAssumption, PackProperties
<1>7. Len(newWords) = Cardinality(Kept)
  BY <1>6 DEF LoopInv, SharingIsKept
<1>8. /\ \A j \in visited : wordsData[j].start <= wordsData[id].start
      /\ haveRun => runOldStart <= wordsData[id].start
  BY DEF LoopInv, VisitedInOrder, Visit, IsNext
<1> QED BY <1>1, <1>2, <1>3, <1>5, <1>6, <1>7, <1>8

\* Whatever the branch, the block of offsets a step adds to the kept ones lies
\* past them, and the new vector grows by just that block.
LEMMA VisitPacks ==
    ASSUME LoopInv, NEW id \in LiveIds, Visit(id)
    PROVE  /\ RunIsLastBlock'
           /\ SharingIsKept'
           /\ newWords' \in Seq(Symbols)
           /\ haveRun' /\ runOldStart' <= wordsData[id].start
           /\ runOldStart' \in Nat /\ runOldEnd' \in Nat /\ runNewStart' \in Nat
           /\ newStart'[id] \in Nat
           /\ newStart'[id] = Rank(Kept', wordsData[id].start)
           /\ \A n \in Nat : n <= wordsData[id].start => Rank(Kept', n) = Rank(Kept, n)
<1> DEFINE s == wordsData[id].start
           e == EndOf(wordsData[id])
<1>1. /\ s \in Nat /\ e \in Nat /\ s <= e /\ e <= Len(Words)
      /\ Kept' = Kept \cup (s .. e - 1)
      /\ Kept \in SUBSET (0 .. Len(Words) - 1)
      /\ IsFiniteSet(Kept) /\ Kept \in SUBSET Nat
      /\ haveRun => runOldStart <= s
      /\ Len(newWords) = Cardinality(Kept)
  BY VisitFacts
<1>2. /\ runOldStart \in Nat /\ runOldEnd \in Nat /\ runNewStart \in Nat
      /\ newWords \in Seq(Symbols) /\ newWords = Pack(Words, Kept)
      /\ runOldEnd <= Len(Words) /\ \A p \in Kept : p < runOldEnd
      /\ Len(Words) \in Nat /\ Words \in Seq(Symbols)
      /\ newStart \in [LiveIds -> Nat]
  BY WordsAssumption, LenProperties DEF LoopInv, TypeOK, SharingIsKept, RunIsLastBlock
<1>3. newStart'[id] = runNewStart' + (s - runOldStart') /\ visited' # {}
  BY <1>2 DEF Visit
<1>4. \A n \in Nat : n <= s => Rank(Kept', n) = Rank(Kept, n)
  <2>1. ASSUME NEW n \in Nat, n <= s
        PROVE  Rank(Kept \cup (s .. e - 1), n) = Rank(Kept, n)
    <3>1. s .. e - 1 \in SUBSET Nat /\ \A t \in s .. e - 1 : n <= t
      BY <1>1, <2>1
    <3> HIDE DEF s, e
    <3> QED BY <1>1, <3>1, RankOfExtension
  <2> QED BY <1>1, <2>1
<1>5. Cardinality(Kept) \in Nat
  BY <1>1, FS_CardinalityType
<1> HIDE DEF s, e
<1>6. CASE FreshRun(id)
  <2>1. \A p \in Kept : p < s
    <3>1. CASE ~haveRun
      <4>1. Kept = {}
        BY <3>1 DEF LoopInv, RunIsLastBlock, Kept, Bytes
      <4> QED BY <4>1
    <3>2. CASE s > runOldEnd
      BY <1>1, <1>2, <3>2
    <3> QED BY <1>6, <3>1, <3>2 DEF FreshRun, s
  <2>2. /\ newWords' = newWords \o SubSeq(Words, s + 1, e)
        /\ runOldStart' = s /\ runOldEnd' = e /\ runNewStart' = Len(newWords) /\ haveRun'
    BY <1>6 DEF FreshRun, Old, s, e
  <2>3. newWords' = Pack(Words, Kept')
    <3>1. /\ Words \in Seq(Symbols) /\ Kept \in SUBSET (0 .. Len(Words) - 1)
          /\ s \in Nat /\ e \in Nat /\ s <= e /\ e <= Len(Words)
          /\ \A p \in Kept : p < s
      BY <1>1, <1>2, <2>1
    <3>2. Pack(Words, Kept \cup (s .. e - 1)) = Pack(Words, Kept) \o SubSeq(Words, s + 1, e)
      BY ONLY <3>1, PackAppend
    <3> QED BY <1>1, <1>2, <2>2, <3>2
  <2>4. Rank(Kept', s) = Cardinality(Kept)
    <3>1. Rank(Kept, s) = Cardinality(Kept)
      BY <1>1, <2>1, RankPastEnd
    <3>2. s \in Nat /\ s <= s
      BY <1>1
    <3> QED BY <1>4, <3>1, <3>2
  <2>5. \A p \in Kept' : p < e
    <3>1. \A p \in Kept : p < e
      BY <1>1, <2>1
    <3> QED BY <1>1, <3>1
  <2>6. Kept' \in SUBSET (0 .. Len(Words) - 1)
    BY <1>1, <1>2
  <2>7. newWords' \in Seq(Symbols)
    BY <1>2, <2>3, <2>6, PackProperties
  <2>8. RunIsLastBlock'
    BY <1>1, <1>2, <1>5, <2>2, <2>4, <2>5 DEF RunIsLastBlock
  <2>9. newStart'[id] = Cardinality(Kept)
    BY <1>1, <1>3, <1>5, <2>2
  <2>10. SharingIsKept'
    BY <2>3 DEF SharingIsKept
  <2>11. /\ haveRun' /\ runOldStart' <= s
         /\ runOldStart' \in Nat /\ runOldEnd' \in Nat /\ runNewStart' \in Nat
    BY <1>1, <1>5, <2>2
  <2>12. newStart'[id] \in Nat /\ newStart'[id] = Rank(Kept', s)
    BY <1>5, <2>4, <2>9
  <2> QED BY <1>4, <2>7, <2>8, <2>10, <2>11, <2>12 DEF s
<1>7. ASSUME haveRun, s <= runOldEnd, UNCHANGED run,
             Kept' \in SUBSET (0 .. Len(Words) - 1),
             newWords' = Pack(Words, Kept'),
             runOldEnd' \in Nat, runOldEnd <= runOldEnd', runOldEnd' <= Len(Words),
             Kept' = Kept \cup (runOldEnd .. runOldEnd' - 1)
      PROVE  /\ RunIsLastBlock' /\ SharingIsKept' /\ newWords' \in Seq(Symbols)
             /\ runNewStart' \in Nat /\ newStart'[id] \in Nat
             /\ newStart'[id] = Rank(Kept', s)
  <2>1. /\ runOldStart' = runOldStart /\ runNewStart' = runNewStart /\ haveRun'
        /\ runOldStart <= s
    BY <1>1, <1>7 DEF run
  <2> DEFINE newEnd == runOldEnd'
             more == Kept'
  <2>a. /\ newEnd \in Nat /\ runOldEnd <= newEnd
        /\ runOldStart \in Nat /\ runOldEnd \in Nat /\ s \in Nat /\ s <= runOldEnd
        /\ more = Kept \cup (runOldEnd .. newEnd - 1)
    BY <1>1, <1>2, <1>7
  <2>2. /\ runOldStart <= runOldEnd /\ runOldStart .. runOldEnd - 1 \subseteq Kept
        /\ runNewStart = Rank(Kept, runOldStart)
    BY <1>7 DEF LoopInv, RunIsLastBlock
  <2>3. Rank(Kept', runOldStart) = runNewStart
    BY <1>2, <1>4, <2>1, <2>2
  <2>4. runOldStart .. newEnd - 1 \subseteq more
    <3> HIDE DEF newEnd, more
    <3>1. ASSUME NEW p \in runOldStart .. newEnd - 1
          PROVE  p \in more
      <4>1. CASE p < runOldEnd
        <5>1. p \in runOldStart .. runOldEnd - 1
          BY <2>a, <4>1
        <5> QED BY <2>a, <2>2, <5>1
      <4>2. CASE runOldEnd <= p
        <5>1. p \in runOldEnd .. newEnd - 1
          BY <2>a, <4>2
        <5> QED BY <2>a, <5>1
      <4> QED BY <2>a, <4>1, <4>2
    <3> QED BY <3>1
  <2>5. \A p \in more : p < newEnd
    <3> HIDE DEF newEnd, more
    <3>1. ASSUME NEW p \in more
          PROVE  p < newEnd
      <4>1. CASE p \in Kept
        <5>1. p \in Nat /\ p < runOldEnd
          BY <1>1, <1>2, <4>1
        <5> QED BY <2>a, <5>1
      <4>2. CASE p \in runOldEnd .. newEnd - 1
        BY <2>a, <4>2
      <4> QED BY <2>a, <4>1, <4>2
    <3> QED BY <3>1
  <2>6. RunIsLastBlock'
    <3>1. runOldStart <= runOldEnd'
      BY <1>2, <1>7, <2>2
    <3>2. Len(Words)' = Len(Words)
      OBVIOUS
    <3> QED BY <1>7, <2>1, <2>3, <2>4, <2>5, <3>1, <3>2 DEF RunIsLastBlock
  <2>7. newWords' \in Seq(Symbols)
    BY <1>2, <1>7, PackProperties
  <2>8. Rank(Kept', s) = Rank(Kept', runOldStart) + (s - runOldStart)
    <3>1. s - runOldStart \in Nat /\ runOldStart + (s - runOldStart) = s
      BY <1>1, <1>2, <2>1
    <3>2. runOldStart .. runOldStart + (s - runOldStart) - 1 \subseteq Kept'
      <4>1. runOldStart .. runOldStart + (s - runOldStart) - 1 \subseteq runOldStart .. newEnd - 1
        <5> HIDE DEF newEnd
        <5> QED BY <2>a, <3>1
      <4> QED BY <2>4, <4>1
    <3>3. IsFiniteSet(Kept') /\ Kept' \in SUBSET Nat
      <4>1. Words \in Seq(Symbols) /\ more \in SUBSET (0 .. Len(Words) - 1)
        BY <1>2, <1>7
      <4>2. IsFiniteSet(more) /\ more \in SUBSET Nat
        BY ONLY <4>1, PackProperties
      <4> QED BY <4>2
    <3>4. Rank(Kept', runOldStart + (s - runOldStart))
            = Rank(Kept', runOldStart) + (s - runOldStart)
      BY <1>2, <3>1, <3>2, <3>3, RankInRun
    <3> QED BY <3>1, <3>4
  <2>9. newStart'[id] = Rank(Kept', s)
    BY <1>3, <2>1, <2>3, <2>8
  <2>10. newStart'[id] \in Nat
    BY <1>1, <1>2, <1>3, <2>1
  <2> QED BY <1>2, <1>7, <2>1, <2>6, <2>7, <2>9, <2>10 DEF SharingIsKept
<1>8. CASE ExtendRun(id)
  <2>1. /\ haveRun /\ s <= runOldEnd /\ e > runOldEnd /\ runOldEnd' = e /\ UNCHANGED run
        /\ newWords' = newWords \o SubSeq(Words, runOldEnd + 1, e)
    BY <1>8 DEF ExtendRun, Old, s, e
  <2>2. runOldStart .. runOldEnd - 1 \subseteq Kept /\ runOldStart <= s
    BY <1>1, <2>1 DEF LoopInv, RunIsLastBlock
  <2>3. Kept' = Kept \cup (runOldEnd .. e - 1)
    <3>1. ASSUME NEW p \in s .. e - 1
          PROVE  p \in Kept \cup (runOldEnd .. e - 1)
      <4>1. CASE p < runOldEnd
        <5>1. p \in runOldStart .. runOldEnd - 1
          BY <1>1, <1>2, <2>2, <4>1
        <5> QED BY <2>2, <5>1
      <4>2. CASE runOldEnd <= p
        BY <1>1, <1>2, <4>2
      <4> QED BY <1>1, <1>2, <4>1, <4>2
    <3>2. runOldEnd .. e - 1 \subseteq s .. e - 1
      BY <1>1, <1>2, <2>1
    <3> QED BY <1>1, <3>1, <3>2
  <2>4. newWords' = Pack(Words, Kept')
    <3>1. /\ Words \in Seq(Symbols) /\ Kept \in SUBSET (0 .. Len(Words) - 1)
          /\ runOldEnd \in Nat /\ e \in Nat /\ runOldEnd <= e /\ e <= Len(Words)
          /\ \A p \in Kept : p < runOldEnd
      BY <1>1, <1>2, <2>1
    <3>2. Pack(Words, Kept \cup (runOldEnd .. e - 1))
             = Pack(Words, Kept) \o SubSeq(Words, runOldEnd + 1, e)
      BY ONLY <3>1, PackAppend
    <3> QED BY <1>2, <2>1, <2>3, <3>2
  <2>5. Kept' \in SUBSET (0 .. Len(Words) - 1)
    BY <1>1, <1>2
  <2>6. /\ runOldEnd' \in Nat /\ runOldEnd <= runOldEnd' /\ runOldEnd' <= Len(Words)
        /\ Kept' = Kept \cup (runOldEnd .. runOldEnd' - 1)
    BY <1>1, <1>2, <2>1, <2>3
  <2>7. /\ RunIsLastBlock' /\ SharingIsKept' /\ newWords' \in Seq(Symbols)
        /\ runNewStart' \in Nat /\ newStart'[id] \in Nat
        /\ newStart'[id] = Rank(Kept', s)
    BY <1>7, <2>1, <2>4, <2>5, <2>6
  <2> QED BY <1>2, <1>4, <2>1, <2>2, <2>6, <2>7 DEF s, run
<1>9. CASE InsideRun(id)
  <2>1. /\ haveRun /\ s <= runOldEnd /\ e <= runOldEnd /\ runOldEnd' = runOldEnd
        /\ UNCHANGED run /\ newWords' = newWords
    BY <1>9 DEF InsideRun, s, e
  <2>2. runOldStart .. runOldEnd - 1 \subseteq Kept /\ runOldStart <= s
    BY <1>1, <2>1 DEF LoopInv, RunIsLastBlock
  <2>3. s .. e - 1 \subseteq runOldStart .. runOldEnd - 1
    BY <1>1, <1>2, <2>1, <2>2
  <2>4. Kept' = Kept
    BY <1>1, <2>2, <2>3
  <2>5. runOldEnd .. runOldEnd - 1 = {}
    BY <1>2
  <2>6. Kept' = Kept \cup (runOldEnd .. runOldEnd' - 1)
    BY <2>1, <2>4, <2>5
  <2>7. /\ Kept' \in SUBSET (0 .. Len(Words) - 1) /\ newWords' = Pack(Words, Kept')
        /\ runOldEnd' \in Nat /\ runOldEnd <= runOldEnd' /\ runOldEnd' <= Len(Words)
    <3>1. Kept' \in SUBSET (0 .. Len(Words) - 1) /\ newWords' = Pack(Words, Kept')
      BY <1>1, <1>2, <2>1, <2>4
    <3> QED BY <1>2, <2>1, <3>1
  <2>8. /\ RunIsLastBlock' /\ SharingIsKept' /\ newWords' \in Seq(Symbols)
        /\ runNewStart' \in Nat /\ newStart'[id] \in Nat
        /\ newStart'[id] = Rank(Kept', s)
    BY <1>7, <2>1, <2>6, <2>7
  <2> QED BY <1>2, <1>4, <2>1, <2>2, <2>7, <2>8 DEF s, run
<1> QED BY <1>6, <1>8, <1>9 DEF Visit

LEMMA VisitPreserves ==
    ASSUME LoopInv, NEW id \in LiveIds, Visit(id)
    PROVE  LoopInv'
<1> USE VisitFacts, VisitPacks
<1>1. /\ wordsData' = wordsData /\ visited' = visited \cup {id}
      /\ \A j \in LiveIds : j # id => newStart'[j] = newStart[j]
  BY DEF Visit, LoopInv, TypeOK
<1>2. newStart' \in [LiveIds -> Nat]
  BY DEF Visit, LoopInv, TypeOK
<1>3. TypeOK'
  BY <1>1, <1>2 DEF LoopInv, TypeOK
<1>4. SlicesInside'
  BY <1>1 DEF LoopInv, SlicesInside
<1>5. VisitedInOrder'
  <2>1. ASSUME NEW j \in LiveIds \ visited'
        PROVE  /\ \A k \in visited' : wordsData[k].start <= wordsData[j].start
               /\ runOldStart' <= wordsData[j].start
    <3>1. j \in LiveIds \ visited /\ wordsData[j].start \in Nat
      BY <1>1 DEF LoopInv, TypeOK, WordData
    <3>2. wordsData[id].start <= wordsData[j].start
      BY <3>1 DEF Visit, IsNext
    <3>3. \A k \in visited : wordsData[k].start <= wordsData[j].start
      BY <3>1 DEF LoopInv, VisitedInOrder
    <3>4. runOldStart' <= wordsData[j].start
      BY <3>1, <3>2
    <3> QED BY <1>1, <3>2, <3>3, <3>4
  <2> QED BY <1>1, <2>1 DEF VisitedInOrder
<1>6. OffsetIsRank'
  <2>1. ASSUME NEW j \in visited'
        PROVE  newStart'[j] = Rank(Kept', wordsData[j].start)
    <3>1. CASE j = id
      BY <3>1
    <3>2. CASE j # id
      <4>1. j \in visited /\ j \in LiveIds
        BY <1>1, <3>2 DEF LoopInv, TypeOK
      <4>2. wordsData[j].start \in Nat /\ wordsData[j].start <= wordsData[id].start
        BY <4>1 DEF LoopInv, TypeOK, WordData
      <4>3. newStart[j] = Rank(Kept, wordsData[j].start)
        BY <4>1 DEF LoopInv, OffsetIsRank
      <4> QED BY <1>1, <3>2, <4>1, <4>2, <4>3
    <3> QED BY <3>1, <3>2
  <2> QED BY <1>1, <2>1 DEF OffsetIsRank
<1> QED BY <1>3, <1>4, <1>5, <1>6 DEF LoopInv

LEMMA LoopStepHolds == LoopInv /\ [Next]_vars => LoopInv'
<1>1. ASSUME LoopInv, UNCHANGED vars
      PROVE  LoopInv'
  BY <1>1 DEF LoopInv, TypeOK, SlicesInside, VisitedInOrder, RunIsLastBlock, SharingIsKept,
              OffsetIsRank, Kept, vars, run
<1> QED BY <1>1, VisitPreserves DEF Next

\* What the run being built is, and that what was visited is packed.
THEOREM LoopInvariant == Spec => []LoopInv
<1> QED BY InitLoopInv, LoopStepHolds, PTL DEF Spec

\* At every point of the loop the new vector is the old one without the
\* symbols no visited word covers, each shared symbol once.
THEOREM LoopKeepsSharing == Spec => []SharingIsKept
<1>1. LoopInv => SharingIsKept
  BY DEF LoopInv
<1> QED BY <1>1, LoopInvariant, PTL

\* The offset the loop computes from its run is the rank of the old offset.
THEOREM LoopOffsets == Spec => []OffsetIsRank
<1>1. LoopInv => OffsetIsRank
  BY DEF LoopInv
<1> QED BY <1>1, LoopInvariant, PTL

LEMMA LoopInvKeepsContent == LoopInv => ContentIsKept
<1> SUFFICES ASSUME LoopInv, NEW id \in visited
             PROVE  Slice(newWords, newStart[id], wordsData[id].length)
                      = Slice(Words, wordsData[id].start, wordsData[id].length)
  BY DEF ContentIsKept
<1> DEFINE s == wordsData[id].start
           l == wordsData[id].length
<1>1. id \in LiveIds /\ s \in Nat /\ l \in Nat /\ s + l <= Len(Words)
  BY DEF LoopInv, TypeOK, WordData, SlicesInside, EndOf
<1>2. s .. s + l - 1 \subseteq Kept
  <2>1. BytesOf(wordsData[id]) \subseteq Kept
    BY DEF Kept, Bytes
  <2>2. BytesOf(wordsData[id]) = s .. s + l - 1
    BY <1>1 DEF BytesOf, EndOf
  <2> QED BY <2>1, <2>2
<1>3. Kept \in SUBSET (0 .. Len(Words) - 1)
  <2>1. ASSUME NEW p \in Kept
        PROVE  p \in 0 .. Len(Words) - 1
    <3>1. PICK j \in visited : p \in wordsData[j].start .. EndOf(wordsData[j]) - 1
      BY DEF Kept, Bytes, BytesOf
    <3>2. j \in LiveIds /\ wordsData[j].start \in Nat /\ wordsData[j].length \in Nat
      BY DEF LoopInv, TypeOK, WordData
    <3>3. EndOf(wordsData[j]) <= Len(Words) /\ EndOf(wordsData[j]) \in Nat
      BY <3>2 DEF LoopInv, SlicesInside, EndOf
    <3>4. Len(Words) \in Nat
      BY WordsAssumption, LenProperties
    <3> QED BY <3>1, <3>2, <3>3, <3>4
  <2> QED BY <2>1
<1> HIDE DEF s, l
<1>4. Slice(Pack(Words, Kept), Rank(Kept, s), l) = Slice(Words, s, l)
  BY <1>1, <1>2, <1>3, WordsAssumption, PackKeepsSlices
<1>5. newWords = Pack(Words, Kept) /\ newStart[id] = Rank(Kept, s)
  BY DEF LoopInv, SharingIsKept, OffsetIsRank, s
<1> QED BY <1>4, <1>5 DEF s, l

\* Every visited word reads the same symbols from the new vector.
THEOREM LoopKeepsContent == Spec => []ContentIsKept
<1> QED BY LoopInvKeepsContent, LoopInvariant, PTL
--------------------------------------------------------------------------------
(* The word sets.                                                            *)

SetTexts == Seq(Alphabet)
Vectors == [base : Nat, start : Nat, length : Nat, canExtend : BOOLEAN]

\* WordSet and UniqueWordSet: every slice lies in the vector and is its word.
SlicesHold ==
    /\ words \in SetTexts /\ slices \in Seq(WordData) /\ says \in Seq(SetTexts)
    /\ Len(says) = Len(slices)
    /\ \A i \in 1 .. Len(slices) :
          /\ EndOf(slices[i]) <= Len(words)
          /\ Slice(words, slices[i].start, slices[i].length) = says[i]

\* UniqueWordSet: the map has a node for every number, in the bucket of its
\* word, and no word has two numbers.  It may have nodes that are of no use.
NodesHold ==
    /\ \A i \in 1 .. Len(says) : <<i - 1, says[i]>> \in wordMap
    /\ \A i, j \in 1 .. Len(says) : says[i] = says[j] => i = j

\* ExtendableWordSet: every slice lies in its vector and is as long as its word;
\* a word that may be extended in place ends its vector and is the only one of
\* it that may; where two numbers share a vector, its symbols have been moved.
VectorsHold ==
    /\ data \in Seq(SetTexts) /\ slices \in Seq(Vectors) /\ says \in Seq(SetTexts)
    /\ Len(says) = Len(slices)
    /\ \A i \in 1 .. Len(slices) :
          /\ slices[i].base < Len(data)
          /\ EndOf(slices[i]) <= Len(data[slices[i].base + 1])
          /\ slices[i].length = Len(says[i])
          /\ slices[i].canExtend => EndOf(slices[i]) = Len(data[slices[i].base + 1])
          /\ i - 1 \notin displaced => WordIn(data, slices[i]) = says[i]
    /\ \A i, j \in 1 .. Len(slices) :
          slices[i].canExtend /\ slices[j].canExtend /\ slices[i].base = slices[j].base => i = j
    /\ \A i, j \in 1 .. Len(slices) :
          slices[i].base = slices[j].base => i = j \/ i - 1 \in displaced

SetsInv ==
    /\ setType \in SetTypes
    /\ setType # "ExtendableWordSet" => SlicesHold
    /\ setType = "UniqueWordSet" => NodesHold
    /\ setType = "ExtendableWordSet" => VectorsHold

\* Where a slice lies.
LEMMA SliceFits ==
    ASSUME SlicesHold, NEW i \in 1 .. Len(slices)
    PROVE  /\ slices[i].start \in Nat /\ slices[i].length \in Nat
           /\ EndOf(slices[i]) = slices[i].start + slices[i].length
           /\ EndOf(slices[i]) \in Nat /\ EndOf(slices[i]) <= Len(words) /\ Len(words) \in Nat
<1>1. slices[i] \in WordData /\ EndOf(slices[i]) <= Len(words)
  BY DEF SlicesHold
<1>2. slices[i].start \in Nat /\ slices[i].length \in Nat
  BY <1>1 DEF WordData
<1>3. Len(words) \in Nat
  BY LenProperties DEF SlicesHold
<1> QED BY <1>1, <1>2, <1>3 DEF EndOf
--------------------------------------------------------------------------------
(* Words that are added at the end.                                          *)

LEMMA Appended ==
    ASSUME NEW S, NEW s \in Seq(S), NEW e \in S
    PROVE  /\ Append(s, e) \in Seq(S) /\ Len(Append(s, e)) = Len(s) + 1 /\ Len(s) \in Nat
           /\ \A i \in 1 .. Len(s) : Append(s, e)[i] = s[i] /\ s[i] \in S
           /\ Append(s, e)[Len(s) + 1] = e
BY AppendProperties

\* A suffix that starts anywhere.
LEMMA SuffixIsText ==
    ASSUME NEW S, NEW s \in Seq(S), NEW n \in Nat
    PROVE  SubSeq(s, n + 1, Len(s)) \in Seq(S)
<1>1. Len(s) \in Nat
  OBVIOUS
<1>2. CASE n <= Len(s)
  BY <1>1, <1>2
<1>3. CASE n > Len(s)
  <2>1. SubSeq(s, n + 1, Len(s)) = [i \in 1 .. (Len(s) - n) |-> s[n + i]]
    BY <1>1, <1>3
  <2>2. 1 .. (Len(s) - n) = {}
    BY <1>1, <1>3
  <2> QED BY <2>1, <2>2
<1> QED BY <1>1, <1>2, <1>3

\* Storage::insert() and WordSet::addWord(): the slices that were there stay, and
\* the new one is the word.
LEMMA InsertKeeps ==
    ASSUME SlicesHold, NEW word \in SetTexts, Insert(word)
    PROVE  SlicesHold' /\ says' = Append(says, word)
<1> DEFINE d == [start |-> Len(words), length |-> Len(word)]
<1>1. /\ words' = words \o word /\ slices' = Append(slices, d)
      /\ says' = Append(says, word)
  BY DEF Insert
<1>2. /\ words \in Seq(Alphabet) /\ word \in Seq(Alphabet) /\ d \in WordData
      /\ slices \in Seq(WordData) /\ says \in Seq(SetTexts) /\ Len(says) = Len(slices)
      /\ d.start = Len(words) /\ d.length = Len(word)
  BY LenProperties DEF SlicesHold, WordData, SetTexts
<1>3. words' \in Seq(Alphabet) /\ Len(words') = Len(words) + Len(word)
  BY <1>1, <1>2, ConcatProperties
<1>4. /\ slices' \in Seq(WordData) /\ Len(slices') = Len(slices) + 1
      /\ \A i \in 1 .. Len(slices) : slices'[i] = slices[i] /\ slices[i] \in WordData
      /\ slices'[Len(slices) + 1] = d /\ Len(slices) \in Nat
  <2> HIDE DEF d
  <2> QED BY <1>1, <1>2, Appended
<1>5. /\ says' \in Seq(SetTexts) /\ Len(says') = Len(says) + 1
      /\ \A i \in 1 .. Len(says) : says'[i] = says[i]
      /\ says'[Len(says) + 1] = word
  BY <1>1, <1>2, Appended
<1>6. ASSUME NEW i \in 1 .. Len(slices)
      PROVE  /\ EndOf(slices'[i]) <= Len(words')
             /\ Slice(words', slices'[i].start, slices'[i].length) = says'[i]
  <2>1. /\ slices[i].start \in Nat /\ slices[i].length \in Nat
        /\ slices[i].start + slices[i].length <= Len(words)
        /\ Len(words) \in Nat /\ Len(word) \in Nat
    BY <1>2, <1>4, LenProperties DEF SlicesHold, EndOf, WordData
  <2>2. Slice(words \o word, slices[i].start, slices[i].length)
          = Slice(words, slices[i].start, slices[i].length)
    BY <1>2, <2>1, SliceOfExtension
  <2>3. slices'[i] = slices[i] /\ says'[i] = says[i]
    BY <1>2, <1>4, <1>5
  <2>4. Slice(words, slices[i].start, slices[i].length) = says[i]
    BY DEF SlicesHold
  <2>5. EndOf(slices[i]) <= Len(words')
    BY <1>3, <2>1 DEF EndOf
  <2> HIDE DEF d
  <2> QED BY <1>1, <2>2, <2>3, <2>4, <2>5
<1>7. /\ EndOf(d) <= Len(words') /\ Slice(words', d.start, d.length) = word
  <2>1. Slice(words \o word, Len(words), Len(word)) = word
    BY <1>2, SliceOfAppended
  <2>2. Len(words) \in Nat /\ Len(word) \in Nat
    BY <1>2, LenProperties
  <2> QED BY <1>1, <1>2, <1>3, <2>1, <2>2 DEF EndOf
<1>8. \A i \in 1 .. Len(slices') : i \in 1 .. Len(slices) \/ i = Len(slices) + 1
  BY <1>4
<1> HIDE DEF d
<1>9. words' \in SetTexts
  BY <1>3 DEF SetTexts
<1> QED BY <1>1, <1>2, <1>4, <1>5, <1>6, <1>7, <1>8, <1>9 DEF SlicesHold

\* A new number for a slice of the vector.
LEMMA NewSliceKeeps ==
    ASSUME SlicesHold, NEW start \in Nat, NEW length \in Nat, start + length <= Len(words),
           NewSlice(start, length)
    PROVE  SlicesHold' /\ says' = Append(says, Slice(words, start, length))
<1> DEFINE d == [start |-> start, length |-> length]
           w == Slice(words, start, length)
<1>1. /\ words' = words /\ slices' = Append(slices, d) /\ says' = Append(says, w)
  BY DEF NewSlice
<1>2. /\ words \in Seq(Alphabet) /\ d \in WordData /\ slices \in Seq(WordData)
      /\ says \in Seq(SetTexts) /\ Len(says) = Len(slices) /\ d.start = start /\ d.length = length
      /\ EndOf(d) <= Len(words)
  BY DEF SlicesHold, WordData, SetTexts, EndOf
<1>3. w \in SetTexts
  BY <1>2, SliceProperties DEF SetTexts
<1> HIDE DEF d
<1>4. /\ slices' \in Seq(WordData) /\ Len(slices') = Len(slices) + 1
      /\ \A i \in 1 .. Len(slices) : slices'[i] = slices[i]
      /\ slices'[Len(slices) + 1] = d /\ Len(slices) \in Nat
  BY <1>1, <1>2, Appended
<1>5. /\ says' \in Seq(SetTexts) /\ Len(says') = Len(says) + 1
      /\ \A i \in 1 .. Len(says) : says'[i] = says[i]
      /\ says'[Len(says) + 1] = w
  <2> HIDE DEF w
  <2> QED BY <1>1, <1>2, <1>3, Appended
<1>6. \A i \in 1 .. Len(slices') : i \in 1 .. Len(slices) \/ i = Len(slices) + 1
  BY <1>4
<1> QED BY <1>1, <1>2, <1>4, <1>5, <1>6 DEF SlicesHold

\* A number that is given to a part of its own word.
LEMMA ReplaceKeeps ==
    ASSUME SlicesHold, NEW id \in Ids, NEW offset \in Nat, NEW length \in Nat,
           ReplaceWithSubstr(id, offset, length)
    PROVE  SlicesHold'
<1> DEFINE i == id + 1
           d == [start |-> slices[i].start + offset, length |-> length]
           w == Slice(says[i], offset, length)
<1>1. /\ words' = words /\ slices' = [slices EXCEPT ![i] = d]
      /\ says' = [says EXCEPT ![i] = w] /\ offset + length <= slices[i].length
  BY DEF ReplaceWithSubstr
<1>2. /\ words \in Seq(Alphabet) /\ slices \in Seq(WordData) /\ says \in Seq(Seq(Alphabet))
      /\ Len(says) = Len(slices) /\ Len(slices) \in Nat /\ i \in 1 .. Len(slices)
  BY LenProperties DEF SlicesHold, SetTexts, Ids, NextId
<1>3. /\ slices[i].start \in Nat /\ slices[i].length \in Nat
      /\ slices[i].start + slices[i].length <= Len(words)
      /\ Slice(words, slices[i].start, slices[i].length) = says[i]
      /\ Len(words) \in Nat
  <2>1. slices[i] \in WordData /\ EndOf(slices[i]) <= Len(words)
        /\ Slice(words, slices[i].start, slices[i].length) = says[i]
    BY <1>2 DEF SlicesHold
  <2> QED BY <1>2, <2>1, LenProperties DEF WordData, EndOf
<1>4. Slice(words, slices[i].start + offset, length) = w
  BY <1>1, <1>2, <1>3, SliceOfSlice
<1>5. /\ slices[i].start + offset \in Nat
      /\ (slices[i].start + offset) + length <= Len(words)
  BY <1>1, <1>3
<1>6. w \in SetTexts
  BY <1>2, <1>4, <1>5, SliceProperties DEF SetTexts
<1>7. /\ d \in WordData /\ d.start = slices[i].start + offset /\ d.length = length
      /\ EndOf(d) <= Len(words)
  BY <1>5 DEF WordData, EndOf
<1> HIDE DEF d, w, i
<1>8. /\ slices' \in Seq(WordData) /\ Len(slices') = Len(slices)
      /\ \A j \in 1 .. Len(slices) : slices'[j] = IF j = i THEN d ELSE slices[j]
  BY <1>1, <1>2, <1>7
<1>9. /\ says' \in Seq(SetTexts) /\ Len(says') = Len(says)
      /\ \A j \in 1 .. Len(says) : says'[j] = IF j = i THEN w ELSE says[j]
  BY <1>1, <1>2, <1>6 DEF SetTexts
<1> QED BY <1>1, <1>2, <1>4, <1>7, <1>8, <1>9 DEF SlicesHold, SetTexts

\* find(): the word of a number is found, and another word is not.
LEMMA FoundIs ==
    ASSUME SlicesHold, NodesHold
    PROVE  /\ \A id \in Ids : Get(id) = says[id + 1] /\ Found(says[id + 1]) = {id}
           /\ \A word : Found(word) = {} => \A i \in 1 .. Len(says) : says[i] # word
<1>1. Len(says) = Len(slices) /\ Len(slices) \in Nat
  BY LenProperties DEF SlicesHold
<1>2. \A id \in Ids : id + 1 \in 1 .. Len(slices) /\ id = (id + 1) - 1
  BY <1>1 DEF Ids, NextId
<1>3. \A id \in Ids : Get(id) = says[id + 1]
  BY <1>2 DEF SlicesHold, Get
<1>4. \A id \in Ids : <<id, says[id + 1]>> \in wordMap
  BY <1>1, <1>2 DEF NodesHold
<1>5. ASSUME NEW id \in Ids
      PROVE  Found(says[id + 1]) = {id}
  <2>1. id \in Found(says[id + 1])
    BY <1>3, <1>4 DEF Found
  <2>2. ASSUME NEW other \in Found(says[id + 1])
        PROVE  other = id
    <3>1. other \in Ids /\ says[other + 1] = says[id + 1]
      BY <1>3 DEF Found
    <3>2. other + 1 = id + 1
      BY <1>1, <1>2, <3>1 DEF NodesHold
    <3> QED BY <3>1, <3>2 DEF Ids
  <2> QED BY <2>1, <2>2
<1>6. ASSUME NEW word, Found(word) = {}, NEW i \in 1 .. Len(says)
      PROVE  says[i] # word
  <2>1. i - 1 \in Ids /\ (i - 1) + 1 = i
    BY <1>1 DEF Ids, NextId
  <2>2. says[i] = word => i - 1 \in Found(word)
    BY <1>3, <1>4, <2>1 DEF Found
  <2> QED BY <1>6, <2>2
<1> QED BY <1>3, <1>5, <1>6

\* addWord() and addSubWord(): the new number is the only one of its word.
LEMMA NodeKeeps ==
    ASSUME SlicesHold, NodesHold, NEW word, Found(word) = {}, says' = Append(says, word), word \in SetTexts,
           wordMap' = wordMap \cup {<<NextId, word>>}
    PROVE  NodesHold'
<1>1. says \in Seq(SetTexts) /\ Len(says) = NextId /\ NextId \in Nat
  BY LenProperties DEF SlicesHold, NextId
<1>2. /\ Len(says') = Len(says) + 1
      /\ \A i \in 1 .. Len(says) : says'[i] = says[i]
      /\ says'[Len(says) + 1] = word
  BY <1>1, Appended
<1>3. \A i \in 1 .. Len(says) : says[i] # word
  BY FoundIs
<1>4. \A i \in 1 .. Len(says') : i \in 1 .. Len(says) \/ i = Len(says) + 1
  BY <1>1, <1>2
<1>5. (Len(says) + 1) - 1 = NextId
  BY <1>1
<1>6. \A i \in 1 .. Len(says') : <<i - 1, says'[i]>> \in wordMap'
  BY <1>2, <1>4, <1>5 DEF NodesHold
<1>7. \A i, j \in 1 .. Len(says') : says'[i] = says'[j] => i = j
  BY <1>2, <1>3, <1>4 DEF NodesHold
<1> QED BY <1>6, <1>7 DEF NodesHold

\* The vector is as long as the largest end of a slice, or longer.
LEMMA TotalLengthCovers ==
    ASSUME SlicesHold
    PROVE  /\ TotalLength \in Nat /\ TotalLength <= Len(words)
           /\ \A i \in 1 .. Len(slices) : EndOf(slices[i]) <= TotalLength
<1> DEFINE E == {EndOf(slices[i]) : i \in 1 .. NextId}
<1>1. NextId = Len(slices) /\ NextId \in Nat /\ Len(words) \in Nat
  BY LenProperties DEF SlicesHold, NextId
<1>2. \A i \in 1 .. NextId : EndOf(slices[i]) \in Nat /\ EndOf(slices[i]) <= Len(words)
  BY <1>1, SliceFits
<1>3. CASE NextId = 0
  BY <1>1, <1>3 DEF TotalLength
<1>4. CASE NextId # 0
  <2>1. E \subseteq Nat /\ E # {}
    <3>1. 1 \in 1 .. NextId
      BY <1>1, <1>4
    <3> QED BY <1>2, <3>1
  <2>2. IsFiniteSet(E)
    <3>1. IsFiniteSet(0 .. Len(words))
      BY <1>1, FS_Interval
    <3>2. E \subseteq 0 .. Len(words)
      BY <1>1, <1>2
    <3> QED BY <3>1, <3>2, FS_Subset
  <2>3. PICK m \in E : \A n \in E : n <= m
    BY <2>1, <2>2, LargestMember
  <2>4. TotalLength \in E /\ \A i \in 1 .. NextId : EndOf(slices[i]) <= TotalLength
    BY <1>4, <2>3 DEF TotalLength
  <2> QED BY <1>1, <1>2, <2>4
<1> QED BY <1>3, <1>4

\* serialize() and the constructor from a stream.
LEMMA SetReloadKeeps ==
    ASSUME SlicesHold, NodesHold, Reload
    PROVE  SlicesHold' /\ NodesHold'
<1> DEFINE T == TotalLength
<1>1. /\ words' = SubSeq(words, 1, T) /\ slices' = slices /\ says' = says
      /\ \A id \in Ids : <<id, Get(id)>> \in wordMap'
  BY DEF Reload
<1>2. /\ words \in Seq(Alphabet) /\ T \in Nat /\ T <= Len(words) /\ Len(words) \in Nat
      /\ \A i \in 1 .. Len(slices) : EndOf(slices[i]) <= T
      /\ Len(says) = Len(slices) /\ Len(slices) \in Nat
  BY TotalLengthCovers, LenProperties DEF SlicesHold, SetTexts
<1> HIDE DEF T
<1>3. words' = Slice(words, 0, T) /\ words' \in Seq(Alphabet) /\ Len(words') = T
  <2>1. 0 + 1 = 1 /\ 0 + T = T
    BY <1>2
  <2>2. words' = Slice(words, 0, T)
    BY <1>1, <2>1 DEF Slice
  <2> QED BY <1>2, <2>1, <2>2, SliceProperties
<1>4. ASSUME NEW i \in 1 .. Len(slices)
      PROVE  Slice(words', slices[i].start, slices[i].length) = says[i]
  <2>1. /\ slices[i].start \in Nat /\ slices[i].length \in Nat
        /\ slices[i].start + slices[i].length <= T
    BY <1>2, SliceFits
  <2>2. Slice(words, 0 + slices[i].start, slices[i].length)
          = Slice(Slice(words, 0, T), slices[i].start, slices[i].length)
    <3>1. words \in Seq(Alphabet) /\ T \in Nat /\ 0 \in Nat /\ 0 + T <= Len(words)
      BY <1>2
    <3> QED BY ONLY <2>1, <3>1, SliceOfSlice
  <2>3. 0 + slices[i].start = slices[i].start
    BY <2>1
  <2> QED BY <1>3, <2>2, <2>3 DEF SlicesHold
<1>5. SlicesHold'
  BY <1>1, <1>2, <1>3, <1>4 DEF SlicesHold, SetTexts
<1>6. \A i \in 1 .. Len(says) : i - 1 \in Ids /\ (i - 1) + 1 = i
  BY <1>2 DEF Ids, NextId
<1>7. \A id \in Ids : <<id, says[id + 1]>> \in wordMap'
  BY <1>1, FoundIs
<1>8. NodesHold'
  BY <1>1, <1>6, <1>7 DEF NodesHold
<1> QED BY <1>5, <1>8
--------------------------------------------------------------------------------
(* Words that grow in the vector they are in.                                *)

\* Where a slice of an ExtendableWordSet lies.
LEMMA VectorFits ==
    ASSUME VectorsHold, NEW i \in 1 .. Len(slices)
    PROVE  /\ slices[i] \in Vectors
           /\ slices[i].base \in Nat /\ slices[i].start \in Nat /\ slices[i].length \in Nat
           /\ slices[i].base + 1 \in 1 .. Len(data)
           /\ data[slices[i].base + 1] \in Seq(Alphabet)
           /\ Len(data[slices[i].base + 1]) \in Nat
           /\ slices[i].start + slices[i].length <= Len(data[slices[i].base + 1])
<1>1. slices[i] \in Vectors /\ slices[i].base < Len(data)
      /\ EndOf(slices[i]) <= Len(data[slices[i].base + 1])
      /\ data \in Seq(SetTexts) /\ Len(data) \in Nat
  BY LenProperties DEF VectorsHold
<1>2. slices[i].base \in Nat /\ slices[i].start \in Nat /\ slices[i].length \in Nat
  BY <1>1 DEF Vectors
<1>3. slices[i].base + 1 \in 1 .. Len(data)
  BY <1>1, <1>2
<1>4. data[slices[i].base + 1] \in Seq(Alphabet)
  BY <1>1, <1>3 DEF SetTexts
<1>5. Len(data[slices[i].base + 1]) \in Nat
  BY <1>4, LenProperties
<1> QED BY <1>1, <1>2, <1>3, <1>4, <1>5 DEF EndOf

\* A vector that is added for a new number: the number means the word that was
\* asked for, or is known to read something else.
LEMMA NewVectorKeeps ==
    ASSUME VectorsHold, NEW symbols \in Seq(Alphabet), NEW word \in Seq(Alphabet), NewVector(symbols, word),
           Len(word) = Len(symbols), displaced \subseteq displaced', NextId \notin displaced' => word = symbols
    PROVE  VectorsHold'
<1> DEFINE d == InBase(Len(data), 0, Len(symbols), TRUE)
<1>1. /\ data' = Append(data, symbols) /\ slices' = Append(slices, d)
      /\ says' = Append(says, word)
  BY DEF NewVector
<1>2. /\ data \in Seq(SetTexts) /\ slices \in Seq(Vectors) /\ says \in Seq(SetTexts)
      /\ symbols \in SetTexts /\ word \in SetTexts
      /\ Len(says) = Len(slices) /\ Len(data) \in Nat /\ Len(symbols) \in Nat
      /\ Len(slices) \in Nat
  BY LenProperties DEF VectorsHold, SetTexts
<1>3. /\ d \in Vectors /\ d.base = Len(data) /\ d.start = 0 /\ d.length = Len(symbols) /\ d.canExtend
  BY <1>2 DEF InBase, Vectors
<1> HIDE DEF d
<1>4. /\ data' \in Seq(SetTexts) /\ Len(data') = Len(data) + 1
      /\ \A k \in 1 .. Len(data) : data'[k] = data[k]
      /\ data'[Len(data) + 1] = symbols
  BY <1>1, <1>2, Appended
<1>5. /\ slices' \in Seq(Vectors) /\ Len(slices') = Len(slices) + 1
      /\ \A i \in 1 .. Len(slices) : slices'[i] = slices[i]
      /\ slices'[Len(slices) + 1] = d
  BY <1>1, <1>2, <1>3, Appended
<1>6. /\ says' \in Seq(SetTexts) /\ Len(says') = Len(says) + 1
      /\ \A i \in 1 .. Len(says) : says'[i] = says[i]
      /\ says'[Len(says) + 1] = word
  BY <1>1, <1>2, Appended
<1>7. \A i \in 1 .. Len(slices') : i \in 1 .. Len(slices) \/ i = Len(slices) + 1
  BY <1>2, <1>5
<1>8. ASSUME NEW i \in 1 .. Len(slices)
      PROVE  /\ slices'[i].base < Len(data')
             /\ EndOf(slices'[i]) <= Len(data'[slices'[i].base + 1])
             /\ slices'[i].length = Len(says'[i])
             /\ slices'[i].canExtend => EndOf(slices'[i]) = Len(data'[slices'[i].base + 1])
             /\ i - 1 \notin displaced' => WordIn(data', slices'[i]) = says'[i]
  <2>1. slices'[i] = slices[i] /\ says'[i] = says[i]
    BY <1>2, <1>5, <1>6
  <2>2. data'[slices[i].base + 1] = data[slices[i].base + 1]
    BY <1>4, VectorFits
  <2>3. slices[i].base < Len(data')
    BY <1>2, <1>4, VectorFits
  <2>4. /\ EndOf(slices[i]) <= Len(data[slices[i].base + 1])
        /\ slices[i].length = Len(says[i])
        /\ slices[i].canExtend => EndOf(slices[i]) = Len(data[slices[i].base + 1])
        /\ i - 1 \notin displaced => WordIn(data, slices[i]) = says[i]
    BY DEF VectorsHold
  <2>5. i - 1 \notin displaced' => i - 1 \notin displaced
    OBVIOUS
  <2> QED BY <2>1, <2>2, <2>3, <2>4, <2>5 DEF WordIn
<1>9. /\ d.base < Len(data') /\ EndOf(d) = Len(data'[d.base + 1]) /\ EndOf(d) <= Len(data'[d.base + 1])
      /\ d.length = Len(word) /\ WordIn(data', d) = symbols
  <2>1. 0 + 1 = 1 /\ 0 + Len(symbols) = Len(symbols) /\ SubSeq(symbols, 1, Len(symbols)) = symbols
    BY <1>2
  <2>2. Slice(symbols, 0, Len(symbols)) = symbols
    BY <2>1 DEF Slice
  <2> QED BY <1>2, <1>3, <1>4, <2>2 DEF WordIn, EndOf
<1>10. \A i \in 1 .. Len(slices) : slices[i].base # d.base
  BY <1>2, <1>3, VectorFits
<1>11. ASSUME NEW i \in 1 .. Len(slices'), NEW j \in 1 .. Len(slices'),
              slices'[i].canExtend, slices'[j].canExtend, slices'[i].base = slices'[j].base
       PROVE  i = j
  BY <1>5, <1>7, <1>10, <1>11 DEF VectorsHold
<1>12. ASSUME NEW i \in 1 .. Len(slices'), NEW j \in 1 .. Len(slices'), slices'[i].base = slices'[j].base
       PROVE  i = j \/ i - 1 \in displaced'
  <2>1. CASE i \in 1 .. Len(slices) /\ j \in 1 .. Len(slices)
    BY <1>5, <1>12, <2>1 DEF VectorsHold
  <2>2. CASE i = Len(slices) + 1 \/ j = Len(slices) + 1
    BY <1>5, <1>7, <1>10, <1>12, <2>2
  <2> QED BY <1>7, <2>1, <2>2
<1>13. \A i \in 1 .. Len(slices') :
          /\ slices'[i].base < Len(data')
          /\ EndOf(slices'[i]) <= Len(data'[slices'[i].base + 1])
          /\ slices'[i].length = Len(says'[i])
          /\ slices'[i].canExtend => EndOf(slices'[i]) = Len(data'[slices'[i].base + 1])
          /\ i - 1 \notin displaced' => WordIn(data', slices'[i]) = says'[i]
  <2>1. (Len(slices) + 1) - 1 = NextId
    BY <1>2 DEF NextId
  <2> QED BY <1>2, <1>5, <1>6, <1>7, <1>8, <1>9, <2>1
<1> QED BY <1>2, <1>4, <1>5, <1>6, <1>11, <1>12, <1>13 DEF VectorsHold

LEMMA Replaced ==
    ASSUME NEW S, NEW s \in Seq(S), NEW n \in 1 .. Len(s), NEW e \in S
    PROVE  /\ [s EXCEPT ![n] = e] \in Seq(S) /\ Len([s EXCEPT ![n] = e]) = Len(s)
           /\ \A i \in 1 .. Len(s) : [s EXCEPT ![n] = e][i] = IF i = n THEN e ELSE s[i]
OBVIOUS

\* A number that may not be extended any more, and one that lost a prefix.
LEMMA SliceChanges ==
    ASSUME NEW d \in Vectors
    PROVE  /\ [d EXCEPT !.canExtend = FALSE] \in Vectors
           /\ [d EXCEPT !.canExtend = FALSE].base = d.base
           /\ EndOf([d EXCEPT !.canExtend = FALSE]) = EndOf(d)
           /\ [d EXCEPT !.canExtend = FALSE].length = d.length
           /\ ~[d EXCEPT !.canExtend = FALSE].canExtend
           /\ \A offset \in Nat : offset < d.length =>
                 LET e == [d EXCEPT !.start = @ + offset, !.length = @ - offset]
                 IN  /\ e \in Vectors /\ e.base = d.base /\ e.canExtend = d.canExtend
                     /\ e.start = d.start + offset /\ e.length = d.length - offset
                     /\ EndOf(e) = EndOf(d)
<1>1. d.base \in Nat /\ d.start \in Nat /\ d.length \in Nat /\ d.canExtend \in BOOLEAN
  BY DEF Vectors
<1>2. \A offset \in Nat : offset < d.length =>
        /\ d.start + offset \in Nat /\ d.length - offset \in Nat
        /\ (d.start + offset) + (d.length - offset) = d.start + d.length
  BY <1>1
<1> QED BY <1>1, <1>2 DEF Vectors, EndOf

\* extendWord() of a word that may grow where it is: it ends its vector, so the
\* new length is that of the word and the extension; it is the only one of its
\* vector that may grow, and the symbols of every number of that vector move.
LEMMA ExtendInPlaceKeeps ==
    ASSUME VectorsHold, NEW id \in Ids, NEW extension \in Seq(Alphabet), ExtendInPlace(id, extension)
    PROVE  VectorsHold'
<1> DEFINE n == id + 1
           slice == slices[n]
           b == slice.base
           longer == extension \o data[b + 1]
           new == InBase(b, slice.start, Len(longer) - slice.start, TRUE)
           stopped == [slices EXCEPT ![n].canExtend = FALSE]
           word == says[n] \o extension
<1>1. /\ slice.canExtend /\ data' = [data EXCEPT ![b + 1] = longer]
      /\ slices' = Append(stopped, new) /\ says' = Append(says, word)
      /\ longer = extension \o data[b + 1] /\ b = slice.base /\ slice = slices[n]
      /\ stopped = [slices EXCEPT ![n] = [slice EXCEPT !.canExtend = FALSE]]
      /\ word = says[n] \o extension /\ displaced' = displaced \cup {id, NextId}
      /\ n - 1 = id
  BY DEF ExtendInPlace, Ids
<1>2. /\ data \in Seq(SetTexts) /\ slices \in Seq(Vectors) /\ says \in Seq(SetTexts)
      /\ Len(says) = Len(slices) /\ Len(data) \in Nat /\ Len(slices) \in Nat
      /\ n \in 1 .. Len(slices)
  BY LenProperties DEF VectorsHold, Ids, NextId
<1>3. /\ slice \in Vectors /\ b \in Nat /\ slice.start \in Nat /\ slice.length \in Nat
      /\ b + 1 \in 1 .. Len(data) /\ data[b + 1] \in Seq(Alphabet) /\ Len(data[b + 1]) \in Nat
      /\ slice.start + slice.length = Len(data[b + 1]) /\ slice.length = Len(says[n])
  BY <1>1, <1>2, VectorFits DEF VectorsHold, EndOf
<1> HIDE DEF longer, slice, b, stopped, word
<1>4. /\ longer \in Seq(Alphabet) /\ Len(longer) = Len(extension) + Len(data[b + 1])
      /\ Len(extension) \in Nat
  BY <1>1, <1>3, ConcatProperties, LenProperties
<1>5. /\ Len(longer) \in Nat /\ slice.start <= Len(longer) /\ Len(longer) - slice.start \in Nat
      /\ slice.start + (Len(longer) - slice.start) = Len(longer)
      /\ Len(data[b + 1]) <= Len(longer)
  BY <1>3, <1>4
<1>6. /\ new \in Vectors /\ new.base = b /\ new.start = slice.start
      /\ new.length = Len(longer) - slice.start /\ new.canExtend /\ EndOf(new) = Len(longer)
  BY <1>3, <1>5 DEF InBase, Vectors, EndOf
<1>7. /\ stopped \in Seq(Vectors) /\ Len(stopped) = Len(slices)
      /\ \A i \in 1 .. Len(slices) :
            /\ stopped[i].base = slices[i].base /\ EndOf(stopped[i]) = EndOf(slices[i])
            /\ stopped[i].length = slices[i].length
            /\ i # n => stopped[i] = slices[i]
      /\ ~stopped[n].canExtend
  <2>1. [slice EXCEPT !.canExtend = FALSE] \in Vectors
    BY <1>3, SliceChanges
  <2>2. /\ stopped \in Seq(Vectors) /\ Len(stopped) = Len(slices)
        /\ \A i \in 1 .. Len(slices) :
              stopped[i] = IF i = n THEN [slice EXCEPT !.canExtend = FALSE] ELSE slices[i]
    BY <1>1, <1>2, <2>1, Replaced
  <2>3. /\ [slice EXCEPT !.canExtend = FALSE].base = slice.base
        /\ EndOf([slice EXCEPT !.canExtend = FALSE]) = EndOf(slice)
        /\ [slice EXCEPT !.canExtend = FALSE].length = slice.length
        /\ ~[slice EXCEPT !.canExtend = FALSE].canExtend
    BY <1>3, SliceChanges
  <2>4. slice = slices[n]
    BY <1>1
  <2> HIDE DEF n
  <2> QED BY <1>2, <2>2, <2>3, <2>4
<1>8. /\ data' \in Seq(SetTexts) /\ Len(data') = Len(data) /\ data'[b + 1] = longer
      /\ \A k \in 1 .. Len(data) : k # b + 1 => data'[k] = data[k]
  <2>1. longer \in SetTexts
    BY <1>4 DEF SetTexts
  <2>2. data' = [data EXCEPT ![b + 1] = longer] /\ data \in Seq(SetTexts) /\ b + 1 \in 1 .. Len(data)
    BY <1>1, <1>2, <1>3
  <2> QED BY ONLY <2>1, <2>2, Replaced
<1>9. word \in SetTexts /\ Len(word) = new.length
  <2>1. says[n] \in Seq(Alphabet)
    BY <1>2 DEF SetTexts
  <2>2. says[n] \o extension \in Seq(Alphabet) /\ Len(says[n] \o extension) = Len(says[n]) + Len(extension)
    BY <2>1, ConcatProperties
  <2>3. Len(longer) - slice.start = Len(says[n]) + Len(extension)
    <3> DEFINE whole == Len(data[b + 1])
               more == Len(extension)
               asked == Len(says[n])
               length == slice.length
               start == slice.start
    <3>1. /\ Len(longer) = more + whole /\ start + length = whole /\ length = asked
          /\ more \in Nat /\ whole \in Nat /\ start \in Nat /\ length \in Nat
      BY <1>3, <1>4
    <3> HIDE DEF whole, more, asked, length, start
    <3>2. (more + whole) - start = asked + more
      BY ONLY <3>1
    <3> QED BY <3>1, <3>2 DEF asked, more, start
  <2> QED BY <1>1, <1>6, <2>2, <2>3 DEF SetTexts
<1> HIDE DEF new, n
<1>10. /\ slices' \in Seq(Vectors) /\ Len(slices') = Len(slices) + 1
       /\ \A i \in 1 .. Len(slices) : slices'[i] = stopped[i]
       /\ slices'[Len(slices) + 1] = new
  BY <1>1, <1>2, <1>6, <1>7, Appended
<1>11. /\ says' \in Seq(SetTexts) /\ Len(says') = Len(says) + 1
       /\ \A i \in 1 .. Len(says) : says'[i] = says[i]
       /\ says'[Len(says) + 1] = word
  BY <1>1, <1>2, <1>9, Appended
<1>12. \A i \in 1 .. Len(slices') : i \in 1 .. Len(slices) \/ i = Len(slices) + 1
  BY <1>2, <1>10
<1>13. ASSUME NEW i \in 1 .. Len(slices), slices'[i].canExtend
       PROVE  /\ i # n /\ slices'[i] = slices[i] /\ slices[i].canExtend
              /\ slices[i].base # b
  <2>1. slices'[i] = stopped[i] /\ i # n
    BY <1>7, <1>10, <1>13
  <2>2. slices'[i] = slices[i]
    BY <1>7, <2>1
  <2> QED BY <1>1, <1>2, <1>13, <2>1, <2>2 DEF VectorsHold
<1>14. ASSUME NEW i \in 1 .. Len(slices), i - 1 \notin displaced'
       PROVE  i # n /\ slices'[i] = slices[i] /\ slices[i].base # b /\ i - 1 \notin displaced
  <2>1. i # n /\ i - 1 \notin displaced
    BY <1>1, <1>14
  <2>2. slices'[i] = slices[i]
    BY <1>7, <1>10, <2>1
  <2> QED BY <1>1, <1>2, <2>1, <2>2 DEF VectorsHold
<1>15. ASSUME NEW i \in 1 .. Len(slices)
       PROVE  /\ slices'[i].base < Len(data')
              /\ EndOf(slices'[i]) <= Len(data'[slices'[i].base + 1])
              /\ slices'[i].length = Len(says'[i])
              /\ slices'[i].canExtend => EndOf(slices'[i]) = Len(data'[slices'[i].base + 1])
              /\ i - 1 \notin displaced' => WordIn(data', slices'[i]) = says'[i]
  <2>1. /\ slices'[i].base = slices[i].base /\ EndOf(slices'[i]) = EndOf(slices[i])
        /\ slices'[i].length = slices[i].length /\ says'[i] = says[i]
    BY <1>2, <1>7, <1>10, <1>11
  <2>2. slices[i].base \in Nat /\ slices[i].base + 1 \in 1 .. Len(data)
        /\ EndOf(slices[i]) \in Nat
        /\ Len(data[slices[i].base + 1]) \in Nat
        /\ EndOf(slices[i]) <= Len(data[slices[i].base + 1])
    BY VectorFits DEF EndOf
  <2>3. slices[i].base # b => data'[slices[i].base + 1] = data[slices[i].base + 1]
    <3>1. slices[i].base # b => slices[i].base + 1 # b + 1
      BY <1>3, <2>2
    <3> QED BY <1>8, <2>2, <3>1
  <2>4. EndOf(slices[i]) <= Len(data'[slices[i].base + 1])
    <3>1. CASE slices[i].base = b
      <4>1. Len(data'[slices[i].base + 1]) = Len(longer)
            /\ Len(data[slices[i].base + 1]) = Len(data[b + 1])
        BY <1>8, <3>1
      <4> DEFINE end == EndOf(slices[i])
                 before == Len(data[b + 1])
                 after == Len(longer)
      <4>2. end \in Nat /\ before \in Nat /\ after \in Nat /\ end <= before /\ before <= after
        BY <1>3, <1>5, <2>2, <3>1
      <4> HIDE DEF end, before, after
      <4>3. end <= after
        BY ONLY <4>2
      <4> QED BY <4>1, <4>3 DEF end, after
    <3>2. CASE slices[i].base # b
      BY <2>2, <2>3, <3>2
    <3> QED BY <3>1, <3>2
  <2>5. slices'[i].length = Len(says'[i])
    BY <2>1 DEF VectorsHold
  <2>6. ASSUME slices'[i].canExtend
        PROVE  EndOf(slices'[i]) = Len(data'[slices'[i].base + 1])
    <3>1. slices[i].canExtend /\ slices[i].base # b
      BY <1>13, <2>6
    <3>2. EndOf(slices[i]) = Len(data[slices[i].base + 1])
      BY <3>1 DEF VectorsHold
    <3> QED BY <2>1, <2>3, <3>1, <3>2
  <2>7. ASSUME i - 1 \notin displaced'
        PROVE  WordIn(data', slices'[i]) = says'[i]
    <3>1. slices'[i] = slices[i] /\ slices[i].base # b /\ i - 1 \notin displaced
      BY <1>14, <2>7
    <3>2. WordIn(data, slices[i]) = says[i]
      BY <3>1 DEF VectorsHold
    <3> QED BY <2>1, <2>3, <3>1, <3>2 DEF WordIn
  <2> QED BY <1>8, <2>1, <2>2, <2>4, <2>5, <2>6, <2>7
<1>16. /\ new.base < Len(data') /\ EndOf(new) = Len(data'[new.base + 1]) /\ EndOf(new) <= Len(data'[new.base + 1])
  <2>1. data'[new.base + 1] = longer
    BY <1>6, <1>8
  <2>2. b < Len(data')
    BY <1>2, <1>3, <1>8
  <2> QED BY <1>5, <1>6, <2>1, <2>2
<1>17. n - 1 \in displaced' /\ (Len(slices) + 1) - 1 \in displaced' /\ displaced \subseteq displaced'
  BY <1>1, <1>2 DEF NextId
<1>18. ASSUME NEW i \in 1 .. Len(slices'), NEW j \in 1 .. Len(slices'),
              slices'[i].canExtend, slices'[j].canExtend, slices'[i].base = slices'[j].base
       PROVE  i = j
  <2>1. CASE i \in 1 .. Len(slices) /\ j \in 1 .. Len(slices)
    BY <1>13, <1>18, <2>1 DEF VectorsHold
  <2>2. CASE i = Len(slices) + 1 /\ j \in 1 .. Len(slices)
    BY <1>6, <1>10, <1>13, <1>18, <2>2
  <2>3. CASE j = Len(slices) + 1 /\ i \in 1 .. Len(slices)
    BY <1>6, <1>10, <1>13, <1>18, <2>3
  <2> QED BY <1>12, <2>1, <2>2, <2>3
<1>19. ASSUME NEW i \in 1 .. Len(slices'), NEW j \in 1 .. Len(slices'), slices'[i].base = slices'[j].base
       PROVE  i = j \/ i - 1 \in displaced'
  <2>1. CASE i = Len(slices) + 1
    BY <1>17, <2>1
  <2>2. CASE i \in 1 .. Len(slices) /\ j \in 1 .. Len(slices)
    <3>1. slices[i].base = slices[j].base
      BY <1>7, <1>10, <1>19, <2>2
    <3> QED BY <1>17, <2>2, <3>1 DEF VectorsHold
  <2>3. CASE i \in 1 .. Len(slices) /\ j = Len(slices) + 1
    <3>1. slices[i].base = slices[n].base
      BY <1>1, <1>6, <1>7, <1>10, <1>19, <2>3
    <3> QED BY <1>2, <1>17, <2>3, <3>1 DEF VectorsHold
  <2> QED BY <1>12, <2>1, <2>2, <2>3
<1>20. \A i \in 1 .. Len(slices') :
          /\ slices'[i].base < Len(data')
          /\ EndOf(slices'[i]) <= Len(data'[slices'[i].base + 1])
          /\ slices'[i].length = Len(says'[i])
          /\ slices'[i].canExtend => EndOf(slices'[i]) = Len(data'[slices'[i].base + 1])
          /\ i - 1 \notin displaced' => WordIn(data', slices'[i]) = says'[i]
  BY <1>2, <1>9, <1>10, <1>11, <1>12, <1>15, <1>16, <1>17
<1> QED BY <1>2, <1>8, <1>10, <1>11, <1>18, <1>19, <1>20 DEF VectorsHold

\* extendWord() of any other word.
LEMMA ExtendCopyKeeps ==
    ASSUME VectorsHold, NEW id \in Ids, NEW extension \in Seq(Alphabet), ExtendCopy(id, extension)
    PROVE  VectorsHold'
<1> DEFINE slice == slices[id + 1]
<1>1. id + 1 \in 1 .. Len(slices)
  BY LenProperties DEF VectorsHold, Ids, NextId
<1>2. WordIn(data, slice) \in Seq(Alphabet) /\ Len(WordIn(data, slice)) = slice.length
  <2>1. /\ data[slice.base + 1] \in Seq(Alphabet) /\ slice.start \in Nat /\ slice.length \in Nat
        /\ slice.start + slice.length <= Len(data[slice.base + 1])
    BY <1>1, VectorFits
  <2> HIDE DEF slice
  <2>2. /\ Slice(data[slice.base + 1], slice.start, slice.length) \in Seq(Alphabet)
        /\ Len(Slice(data[slice.base + 1], slice.start, slice.length)) = slice.length
    BY ONLY <2>1, SliceProperties
  <2> QED BY <2>2 DEF WordIn
<1>3. says[id + 1] \in Seq(Alphabet) /\ Len(says[id + 1]) = slice.length
  BY <1>1 DEF VectorsHold, SetTexts
<1> DEFINE symbols == WordIn(data, slice) \o extension
           word == says[id + 1] \o extension
<1>4. /\ symbols \in Seq(Alphabet) /\ word \in Seq(Alphabet)
      /\ Len(word) = Len(symbols)
  <2>1. \A text \in Seq(Alphabet) : text \o extension \in Seq(Alphabet)
                                      /\ Len(text \o extension) = Len(text) + Len(extension)
    BY ConcatProperties
  <2> QED BY <1>2, <1>3, <2>1
<1>5. displaced \subseteq displaced' /\ (NextId \notin displaced' => id \notin displaced)
  BY DEF ExtendCopy
<1>6. id \notin displaced => WordIn(data, slice) = says[id + 1]
  <2>1. (id + 1) - 1 = id
    BY DEF Ids
  <2> QED BY <1>1, <2>1 DEF VectorsHold
<1>7. NextId \notin displaced' => word = symbols
  BY <1>5, <1>6
<1>8. NewVector(symbols, word)
  BY DEF ExtendCopy
<1> HIDE DEF symbols, word
<1> QED BY <1>4, <1>5, <1>7, <1>8, NewVectorKeeps

\* replaceWithSuffix().
LEMMA ReplaceWithSuffixKeeps ==
    ASSUME VectorsHold, NEW id \in Ids, NEW offset \in Nat, ReplaceWithSuffix(id, offset)
    PROVE  VectorsHold'
<1> DEFINE n == id + 1
           slice == slices[n]
           d == [slice EXCEPT !.start = @ + offset, !.length = @ - offset]
           w == SubSeq(says[n], offset + 1, Len(says[n]))
           v == data[slice.base + 1]
<1>1. /\ offset < slice.length /\ slices' = [slices EXCEPT ![n] = d]
      /\ says' = [says EXCEPT ![n] = w] /\ data' = data /\ displaced' = displaced
      /\ w = SubSeq(says[n], offset + 1, Len(says[n])) /\ v = data[slice.base + 1]
      /\ d = [slice EXCEPT !.start = @ + offset, !.length = @ - offset] /\ slice = slices[n]
  BY DEF ReplaceWithSuffix
<1>2. /\ slices \in Seq(Vectors) /\ says \in Seq(SetTexts)
      /\ Len(says) = Len(slices) /\ Len(slices) \in Nat /\ n \in 1 .. Len(slices)
  BY LenProperties DEF VectorsHold, Ids, NextId
<1>3. /\ slice \in Vectors /\ slice.start \in Nat /\ slice.length \in Nat /\ slice.base \in Nat
      /\ v \in Seq(Alphabet) /\ Len(v) \in Nat /\ slice.start + slice.length <= Len(v)
      /\ Len(says[n]) = slice.length
  BY <1>2, VectorFits DEF VectorsHold
<1> HIDE DEF d, w, v, slice
<1>4. /\ d \in Vectors /\ d.base = slice.base /\ d.canExtend = slice.canExtend
      /\ d.start = slice.start + offset /\ d.length = slice.length - offset
      /\ EndOf(d) = EndOf(slice)
  <2>1. d = [slice EXCEPT !.start = @ + offset, !.length = @ - offset]
    BY <1>1
  <2>2. offset < slice.length /\ slice \in Vectors
    BY <1>1, <1>3
  <2> QED BY ONLY <2>1, <2>2, offset \in Nat, SliceChanges
<1>5. w \in SetTexts /\ Len(w) = d.length
  <2>1. w \in SetTexts
    BY <1>1, <1>2, SuffixIsText DEF SetTexts
  <2>2. /\ says[n] \in Seq(Alphabet) /\ w = SubSeq(says[n], offset + 1, slice.length)
        /\ offset < slice.length /\ Len(says[n]) = slice.length /\ slice.length \in Nat
    BY <1>1, <1>2, <1>3 DEF SetTexts
  <2>3. Len(w) = slice.length - offset
    BY ONLY <2>2, offset \in Nat
  <2> QED BY <1>4, <2>1, <2>3
<1>6. ASSUME n - 1 \notin displaced
      PROVE  Slice(v, d.start, d.length) = w
  <2>1. Slice(v, slice.start, slice.length) = says[n]
    BY <1>1, <1>2, <1>6 DEF VectorsHold, WordIn
  <2>2. Len(says[n]) = slice.length
    BY <1>3
  <2>3. offset + (slice.length - offset) = slice.length /\ slice.length - offset \in Nat
    <3>1. offset < slice.length /\ slice.length \in Nat
      BY <1>1, <1>3
    <3> QED BY ONLY <3>1, offset \in Nat
  <2>4. Slice(v, slice.start + offset, slice.length - offset)
          = Slice(Slice(v, slice.start, slice.length), offset, slice.length - offset)
    BY <1>3, <2>3, SliceOfSlice
  <2>5. Slice(says[n], offset, slice.length - offset) = w
    BY <1>1, <2>2, <2>3 DEF Slice
  <2> QED BY <1>4, <2>1, <2>4, <2>5
<1> HIDE DEF n
<1>7. /\ slices' \in Seq(Vectors) /\ Len(slices') = Len(slices)
      /\ \A i \in 1 .. Len(slices) : slices'[i] = IF i = n THEN d ELSE slices[i]
  BY <1>1, <1>2, <1>4, Replaced
<1>8. /\ says' \in Seq(SetTexts) /\ Len(says') = Len(says)
      /\ \A i \in 1 .. Len(says) : says'[i] = IF i = n THEN w ELSE says[i]
  BY <1>1, <1>2, <1>5, Replaced
<1>9. ASSUME NEW i \in 1 .. Len(slices)
      PROVE  /\ slices'[i].base = slices[i].base
             /\ slices'[i].canExtend => slices[i].canExtend
             /\ EndOf(slices'[i]) = EndOf(slices[i])
             /\ slices'[i].length = Len(says'[i])
             /\ i - 1 \notin displaced' => WordIn(data', slices'[i]) = says'[i]
  <2>1. CASE i = n
    BY <1>1, <1>2, <1>4, <1>5, <1>6, <1>7, <1>8, <2>1 DEF WordIn
  <2>2. CASE i # n
    <3>1. slices'[i] = slices[i] /\ says'[i] = says[i]
      BY <1>2, <1>7, <1>8, <2>2
    <3>2. slices[i].length = Len(says[i]) /\ (i - 1 \notin displaced => WordIn(data, slices[i]) = says[i])
      BY DEF VectorsHold
    <3>3. data' = data /\ displaced' = displaced
      BY <1>1
    <3>4. WordIn(data', slices'[i]) = WordIn(data, slices[i])
      BY <3>1, <3>3 DEF WordIn
    <3>5. i - 1 \notin displaced' => WordIn(data', slices'[i]) = says'[i]
      BY <3>1, <3>2, <3>3, <3>4, Zenon
    <3>6. slices'[i].length = Len(says'[i])
      BY <3>1, <3>2, Zenon
    <3>7. /\ slices'[i].base = slices[i].base /\ EndOf(slices'[i]) = EndOf(slices[i])
          /\ slices'[i].canExtend => slices[i].canExtend
      BY <3>1
    <3> QED BY <3>5, <3>6, <3>7
  <2> QED BY <2>1, <2>2
<1>10. Len(slices') = Len(slices) /\ data' = data /\ displaced' = displaced
  BY <1>1, <1>7
<1>11. \A i \in 1 .. Len(slices) :
          /\ slices[i].base < Len(data) /\ EndOf(slices[i]) <= Len(data[slices[i].base + 1])
          /\ slices[i].canExtend => EndOf(slices[i]) = Len(data[slices[i].base + 1])
  BY DEF VectorsHold
<1>12. \A i \in 1 .. Len(slices') :
          /\ slices'[i].base < Len(data')
          /\ EndOf(slices'[i]) <= Len(data'[slices'[i].base + 1])
          /\ slices'[i].length = Len(says'[i])
          /\ slices'[i].canExtend => EndOf(slices'[i]) = Len(data'[slices'[i].base + 1])
          /\ i - 1 \notin displaced' => WordIn(data', slices'[i]) = says'[i]
  BY <1>9, <1>10, <1>11
<1>13. /\ \A i, j \in 1 .. Len(slices') :
             slices'[i].canExtend /\ slices'[j].canExtend /\ slices'[i].base = slices'[j].base => i = j
       /\ \A i, j \in 1 .. Len(slices') :
             slices'[i].base = slices'[j].base => i = j \/ i - 1 \in displaced'
  BY <1>9, <1>10 DEF VectorsHold
<1>14. data' \in Seq(SetTexts)
  BY <1>10 DEF VectorsHold
<1> QED BY <1>2, <1>7, <1>8, <1>12, <1>13, <1>14 DEF VectorsHold
--------------------------------------------------------------------------------
(* Every step.                                                               *)

LEMMA EmptySlice == Slice(<<>>, 0, 0) = <<>>
<1>1. PICK w \in Seq(Alphabet) : w = <<>>
  <2>1. <<>> \in Seq(Alphabet)
    OBVIOUS
  <2> QED BY ONLY <2>1, Zenon
<1>2. 0 + 0 <= Len(w) /\ 0 \in Nat
  BY <1>1
<1>3. Slice(w, 0, 0) \in Seq(Alphabet) /\ Len(Slice(w, 0, 0)) = 0
  BY ONLY <1>2, w \in Seq(Alphabet), SliceProperties
<1> QED BY <1>1, <1>3, EmptySeq

LEMMA SetInitHolds == SetInit => SetsInv
<1> SUFFICES ASSUME SetInit PROVE SetsInv
  OBVIOUS
<1>1. /\ <<>> \in SetTexts /\ Len(<<>>) = 0 /\ says = <<<<>>>> /\ says \in Seq(SetTexts)
      /\ Len(says) = 1 /\ says[1] = <<>>
  BY DEF SetInit, SetTexts
<1>2. ASSUME setType # "ExtendableWordSet" PROVE SlicesHold
  <2> DEFINE d == [start |-> 0, length |-> 0]
  <2>1. d \in WordData /\ d.start = 0 /\ d.length = 0 /\ EndOf(d) = 0
    BY DEF WordData, EndOf
  <2>2. Slice(<<>>, 0, 0) = <<>>
    BY EmptySlice
  <2>3. words = <<>> /\ slices = <<d>>
    BY <1>2 DEF SetInit
  <2> HIDE DEF d
  <2>4. slices \in Seq(WordData) /\ Len(slices) = 1 /\ slices[1] = d
    BY <2>1, <2>3
  <2> QED BY <1>1, <2>1, <2>2, <2>3, <2>4 DEF SlicesHold
<1>3. ASSUME setType = "UniqueWordSet" PROVE NodesHold
  <2>1. wordMap = {<<0, <<>>>>} /\ 1 - 1 = 0
    BY <1>3 DEF SetInit
  <2> QED BY <1>1, <2>1 DEF NodesHold
<1>4. ASSUME setType = "ExtendableWordSet" PROVE VectorsHold
  <2> DEFINE d == InBase(0, 0, 0, FALSE)
  <2>1. d \in Vectors /\ d.base = 0 /\ EndOf(d) = 0 /\ ~d.canExtend
    BY DEF InBase, Vectors, EndOf
  <2>2. data = <<<<>>>> /\ slices = <<d>>
    BY <1>4 DEF SetInit
  <2> HIDE DEF d
  <2>3. /\ slices \in Seq(Vectors) /\ Len(slices) = 1 /\ slices[1] = d
        /\ data \in Seq(SetTexts) /\ Len(data) = 1 /\ data[1] = <<>> /\ 0 + 1 = 1
    BY <1>1, <2>1, <2>2
  <2>4. d.length = 0 /\ WordIn(data, d) = <<>>
    <3>1. d.length = 0 /\ d.start = 0
      BY DEF d, InBase
    <3> QED BY <1>1, <2>1, <2>3, <3>1, EmptySlice DEF WordIn
  <2> QED BY <1>1, <2>1, <2>3, <2>4 DEF VectorsHold
<1> QED BY <1>2, <1>3, <1>4 DEF SetsInv, SetInit

LEMMA SetStepHolds == SetsInv /\ [SetNext]_setVars => SetsInv'
<1> SUFFICES ASSUME SetsInv, [SetNext]_setVars PROVE SetsInv'
  OBVIOUS
<1> USE InputsAssumption DEF SetTexts
<1>1. ASSUME NEW word \in Inputs, AddWord(word) PROVE SetsInv'
  <2>1. SlicesHold' /\ setType' = "WordSet"
    BY <1>1, InsertKeeps DEF AddWord, SetsInv
  <2> QED BY <2>1 DEF SetsInv, SetTypes
<1>2. ASSUME NEW word \in Inputs, AddUnique(word) PROVE SetsInv'
  <2>1. /\ SlicesHold /\ NodesHold /\ setType' = "UniqueWordSet" /\ Insert(word) /\ Found(word) = {}
        /\ wordMap' = wordMap \cup {<<NextId, word>>}
    BY <1>2 DEF AddUnique, SetsInv
  <2>2. SlicesHold' /\ says' = Append(says, word)
    BY <2>1, InsertKeeps
  <2>3. NodesHold'
    BY <2>1, <2>2, NodeKeeps
  <2> QED BY <2>1, <2>2, <2>3 DEF SetsInv, SetTypes
<1>3. ASSUME NEW word \in Inputs, AddExtendable(word) PROVE SetsInv'
  <2>1. VectorsHold' /\ setType' = "ExtendableWordSet"
    <3>1. /\ VectorsHold /\ NewVector(word, word) /\ word \in Seq(Alphabet)
          /\ displaced' = displaced /\ setType' = "ExtendableWordSet"
      BY <1>3 DEF AddExtendable, NewVector, SetsInv
    <3> QED BY <3>1, NewVectorKeeps
  <2> QED BY <2>1 DEF SetsInv, SetTypes
<1>4. ASSUME NEW id \in Ids, CopyWord(id) PROVE SetsInv'
  <2>1. SlicesHold /\ setType' = "WordSet" /\ NewSlice(slices[id + 1].start, slices[id + 1].length)
    BY <1>4 DEF CopyWord, SetsInv
  <2>2. id + 1 \in 1 .. Len(slices)
    BY <2>1, LenProperties DEF SlicesHold, Ids, NextId
  <2>3. SlicesHold'
    BY <2>1, <2>2, SliceFits, NewSliceKeeps
  <2> QED BY <2>1, <2>3 DEF SetsInv, SetTypes
<1>5. ASSUME NEW id \in Ids, NEW offset \in 0 .. MaxSymbols, NEW length \in 0 .. MaxSymbols,
             ReplaceWithSubstr(id, offset, length)
      PROVE  SetsInv'
  <2>1. SlicesHold /\ setType' = "WordSet" /\ offset \in Nat /\ length \in Nat
    BY <1>5 DEF ReplaceWithSubstr, SetsInv
  <2>2. SlicesHold'
    BY <1>5, <2>1, ReplaceKeeps
  <2> QED BY <2>1, <2>2 DEF SetsInv, SetTypes
<1>6. ASSUME NEW id \in Ids, NEW offset \in 0 .. MaxSymbols, NEW length \in 0 .. MaxSymbols,
             AddSubWord(id, offset, length)
      PROVE  SetsInv'
  <2> DEFINE start == slices[id + 1].start + offset
             w == Slice(words, start, length)
  <2>1. /\ SlicesHold /\ NodesHold /\ setType' = "UniqueWordSet" /\ Found(w) = {}
        /\ NewSlice(start, length) /\ wordMap' = wordMap \cup {<<NextId, w>>}
        /\ offset \in Nat /\ length \in Nat /\ offset + length <= slices[id + 1].length
    BY <1>6 DEF AddSubWord, SetsInv
  <2>2. id + 1 \in 1 .. Len(slices)
    BY <2>1, LenProperties DEF SlicesHold, Ids, NextId
  <2>3. start \in Nat /\ start + length <= Len(words)
    BY <2>1, <2>2, SliceFits
  <2>4. SlicesHold' /\ says' = Append(says, w)
    BY <2>1, <2>3, NewSliceKeeps
  <2>5. w \in SetTexts
    BY <2>1, <2>3, SliceProperties DEF SlicesHold, SetTexts
  <2>6. NodesHold'
    BY <2>1, <2>4, <2>5, NodeKeeps
  <2> QED BY <2>1, <2>4, <2>6 DEF SetsInv, SetTypes
<1>7. ASSUME NEW id \in Ids, NEW word \in Inputs, ExtendInPlace(id, word) PROVE SetsInv'
  <2>1. VectorsHold /\ setType' = "ExtendableWordSet" /\ word \in Seq(Alphabet)
    BY <1>7 DEF ExtendInPlace, SetsInv, SetTexts
  <2>2. VectorsHold'
    BY <1>7, <2>1, ExtendInPlaceKeeps
  <2> QED BY <2>1, <2>2 DEF SetsInv, SetTypes
<1>8. ASSUME NEW id \in Ids, NEW word \in Inputs, ExtendCopy(id, word) PROVE SetsInv'
  <2>1. VectorsHold /\ setType' = "ExtendableWordSet" /\ word \in Seq(Alphabet)
    BY <1>8 DEF ExtendCopy, NewVector, SetsInv, SetTexts
  <2>2. VectorsHold'
    BY <1>8, <2>1, ExtendCopyKeeps
  <2> QED BY <2>1, <2>2 DEF SetsInv, SetTypes
<1>9. ASSUME NEW id \in Ids, NEW offset \in 0 .. MaxSymbols, ReplaceWithSuffix(id, offset) PROVE SetsInv'
  <2>1. VectorsHold /\ setType' = "ExtendableWordSet" /\ offset \in Nat
    BY <1>9 DEF ReplaceWithSuffix, SetsInv
  <2>2. VectorsHold'
    BY <1>9, <2>1, ReplaceWithSuffixKeeps
  <2> QED BY <2>1, <2>2 DEF SetsInv, SetTypes
<1>10. CASE Clear
  <2>1. words' = <<>> /\ slices' = <<>> /\ says' = <<>> /\ setType' = setType
        /\ setType \in {"WordSet", "UniqueWordSet"}
    BY <1>10 DEF Clear
  <2>2. SlicesHold' /\ NodesHold'
    BY <2>1 DEF SlicesHold, NodesHold, SetTexts
  <2> QED BY <2>1, <2>2 DEF SetsInv, SetTypes
<1>11. CASE ToWordSet
  <2>1. SlicesHold /\ setType' = "WordSet" /\ UNCHANGED <<words, slices, says>>
    BY <1>11 DEF ToWordSet, SetsInv
  <2> QED BY <2>1 DEF SetsInv, SetTypes, SlicesHold
<1>12. CASE Reload
  <2>1. SlicesHold /\ NodesHold /\ setType' = "UniqueWordSet"
    BY <1>12 DEF Reload, SetsInv
  <2> QED BY <1>12, <2>1, SetReloadKeeps DEF SetsInv, SetTypes
<1>13. CASE UNCHANGED setVars
  BY <1>13 DEF setVars, SetsInv, SlicesHold, NodesHold, VectorsHold, WordIn
<1> QED BY <1>1, <1>2, <1>3, <1>4, <1>5, <1>6, <1>7, <1>8, <1>9, <1>10, <1>11, <1>12, <1>13 DEF SetNext

\* Every slice of a word set lies in its vector and is the word of its number,
\* or as long as it where extendWord() moved its symbols; no word of a
\* UniqueWordSet has two numbers, and no vector of an ExtendableWordSet has two
\* words that may be extended in place.
THEOREM SetsInvariant == SetSpec => []SetsInv
<1> QED BY SetInitHolds, SetStepHolds, PTL DEF SetSpec

LEMMA SetsInvKeepsLengths == SetsInv /\ setType = "ExtendableWordSet" => LengthsAreKept
<1> SUFFICES ASSUME SetsInv, setType = "ExtendableWordSet", NEW id \in Ids
             PROVE  /\ EndOf(slices[id + 1]) <= Len(data[slices[id + 1].base + 1])
                    /\ slices[id + 1].length = Len(says[id + 1])
  BY DEF LengthsAreKept
<1>1. VectorsHold
  BY DEF SetsInv
<1>2. id + 1 \in 1 .. Len(slices)
  BY <1>1, LenProperties DEF VectorsHold, Ids, NextId
<1> QED BY <1>1, <1>2 DEF VectorsHold

LEMMA SetsInvKeepsWords == SetsInv => IdsKeepTheirWords
<1> SUFFICES ASSUME SetsInv PROVE IdsKeepTheirWords
  OBVIOUS
<1>1. ASSUME setType # "ExtendableWordSet"
      PROVE  \A id \in Ids : Get(id) = says[id + 1]
  <2>1. SlicesHold
    BY <1>1 DEF SetsInv
  <2>2. \A id \in Ids : id + 1 \in 1 .. Len(slices)
    BY <2>1, LenProperties DEF SlicesHold, Ids, NextId
  <2> QED BY <2>1, <2>2 DEF SlicesHold, Get
<1>2. ASSUME setType = "UniqueWordSet"
      PROVE  \A id \in Ids : Found(says[id + 1]) = {id}
  BY <1>2, FoundIs DEF SetsInv
<1>3. ASSUME setType = "ExtendableWordSet"
      PROVE  \A id \in Ids \ displaced : WordIn(data, slices[id + 1]) = says[id + 1]
  <2>1. VectorsHold
    BY <1>3 DEF SetsInv
  <2>2. \A id \in Ids : id + 1 \in 1 .. Len(slices) /\ (id + 1) - 1 = id
    BY <2>1, LenProperties DEF VectorsHold, Ids, NextId
  <2> QED BY <2>1, <2>2 DEF VectorsHold
<1> QED BY <1>1, <1>2, <1>3, SetsInvKeepsLengths DEF IdsKeepTheirWords

\* A number means the word it was asked for, whatever is added, replaced, cleared
\* or read back between, and whatever is extended; in a UniqueWordSet a search
\* finds it, and finds no other.  Of a number of an ExtendableWordSet whose own
\* vector extendWord() put an extension in front of it says only that it reads as
\* many symbols as the word and its extension have, all of them in its vector.
THEOREM NumbersKeepTheirWords == SetSpec => []IdsKeepTheirWords
<1> QED BY SetsInvKeepsWords, SetsInvariant, PTL

--------------------------------------------------------------------------------
(* The three clients.                                                        *)

PoolsInv == LoopInv /\ LabelsInv /\ SetsInv

\* A step of the composition is one of a client, and the others stand still.
LEMMA StepOfOne == [PoolsNext]_poolVars => [Next]_vars /\ [LabelsNext]_labelVars /\ [SetNext]_setVars
  BY DEF PoolsNext, poolVars, vars, labelVars, setVars

LEMMA LoopIdleHolds == LoopIdle => LoopInv
<1> SUFFICES ASSUME LoopIdle PROVE Init
  BY InitLoopInv
<1>1. Len(Words) \in Nat
  BY WordsAssumption, LenProperties
<1>2. \A id \in LiveIds : EndOf(wordsData[id]) = 0
  BY DEF LoopIdle, EndOf
<1>3. wordsData \in [LiveIds -> [start : 0 .. Len(Words), length : 0 .. Len(Words)]]
  BY <1>1 DEF LoopIdle
<1> QED BY <1>1, <1>2, <1>3 DEF LoopIdle, Init

LEMMA LabelsIdleHolds == LabelsIdle => LabelsInv
<1> SUFFICES ASSUME LabelsIdle PROVE LabelsInv
  OBVIOUS
<1>1. kind \in Kinds /\ machine = NewMachine(kind) /\ meant = Denoted(machine)
  BY DEF LabelsIdle, Kinds
<1>2. <<>> \in Seq(Sigma) /\ Len(<<>>) <= 1
  OBVIOUS
<1>3. source = LabelOf(MonoidOf(kind), <<<<>>, <<>>>>)
  BY DEF LabelsIdle
<1>4. IsProduct(MonoidOf(kind)) /\ HasShape(kind, MonoidOf(kind))
  BY <1>1, NewMonoid
<1>5. IsProduct(source.m) /\ HasShape(kind, source.m) /\ IsLabelOf(source.m, source.v)
  BY <1>1, <1>2, <1>3, <1>4, LabelInShape
<1>6. IsMachine(kind, machine)
  BY <1>1, NewMachineIs
<1> QED BY <1>1, <1>5, <1>6 DEF LabelsInv

\* Each client keeps its invariant, also while another one moves.
THEOREM PoolsInvariant == PoolsSpec => []PoolsInv
<1>1. PoolsInit => PoolsInv
  BY InitLoopInv, LabelsInitHolds, SetInitHolds, LoopIdleHolds, LabelsIdleHolds DEF PoolsInit, PoolsInv, SetsIdle
<1>2. PoolsInv /\ [PoolsNext]_poolVars => PoolsInv'
  BY StepOfOne, LoopStepHolds, LabelsStepHolds, SetStepHolds DEF PoolsInv
<1> QED BY <1>1, <1>2, PTL DEF PoolsSpec

\* In the composition that is model-checked, whichever client moves, the loop
\* has packed the symbols it went through, and every label, and every number
\* whose symbols extendWord() left where they were, stands for its words.
THEOREM ClientsKeepTheirWords ==
    PoolsSpec => [](/\ SharingIsKept /\ ContentIsKept /\ OffsetIsRank
                    /\ LabelsKeepTheirWords /\ IdsKeepTheirWords)
<1>1. PoolsInv => SharingIsKept /\ ContentIsKept /\ OffsetIsRank
  BY LoopInvKeepsContent DEF PoolsInv, LoopInv
<1>2. PoolsInv => LabelsKeepTheirWords
  BY LabelsInvKeepsWords DEF PoolsInv
<1>3. PoolsInv => IdsKeepTheirWords
  BY SetsInvKeepsWords DEF PoolsInv
<1> QED BY <1>1, <1>2, <1>3, PoolsInvariant, PTL
================================================================================
