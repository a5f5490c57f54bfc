------------------------- MODULE InterningMonoidProofs -------------------------
(***************************************************************************)
(* The pool keeps its invariants and implements the free monoid, for every *)
(* alphabet, every client and every bound.                                 *)
(***************************************************************************)
EXTENDS InterningMonoid, PoolLayoutProofs

\* The words and the ids.
PoolInv ==
    /\ words \in Seq(Symbols)
    /\ nextWordId \in Nat \ {0}
    /\ wordsData \in [0 .. nextWordId - 1 -> WordData]
    /\ wordMap \subseteq 0 .. nextWordId - 1
    /\ \A id \in 0 .. nextWordId - 1 : EndOf(wordsData[id]) <= Len(words)
    /\ OneIdPerWord
    /\ NoOrphanSymbols

\* The scratch vector and its reference count.
ScratchInv ==
    /\ temporaries \in Seq(Symbols)
    /\ temporaryCount \in Nat
    /\ operand \in [Operands -> Operand \cup {NoOperand}]
    /\ CountMatchesTemporaries

\* The slice of an Operand lies in its vector.
FitsIn(op, mem, temps) == EndOf(op) <= Len(IF op.fromTemporaries THEN temps ELSE mem)

Fits(op) == FitsIn(op, words, temporaries)

OperandsFit ==
    \A o \in Operands : operand[o] # NoOperand => FitsIn(operand[o], words, temporaries)

ValuesExist == value \in [Values -> 0 .. nextWordId - 1]

IInv == PoolInv /\ ScratchInv /\ OperandsFit /\ ValuesExist
--------------------------------------------------------------------------------
(* Consequences of the invariant.                                            *)

LEMMA LengthsAreNat ==
    ASSUME IInv
    PROVE  /\ Len(words) \in Nat /\ Len(temporaries) \in Nat
           /\ words \in Seq(Symbols) /\ temporaries \in Seq(Symbols)
           /\ nextWordId \in Nat /\ nextWordId # 0 /\ temporaryCount \in Nat
BY LenProperties DEF IInv, PoolInv, ScratchInv

\* Every id denotes a word.
LEMMA GetIsWord ==
    ASSUME IInv, NEW id \in 0 .. nextWordId - 1
    PROVE  /\ wordsData[id] \in WordData
           /\ wordsData[id].start \in Nat /\ wordsData[id].length \in Nat
           /\ wordsData[id].start + wordsData[id].length <= Len(words)
           /\ Get(id) \in Seq(Symbols) /\ Len(Get(id)) = wordsData[id].length
<1>1. wordsData[id] \in WordData
  BY DEF IInv, PoolInv
<1>2. wordsData[id].start \in Nat /\ wordsData[id].length \in Nat
  BY <1>1 DEF WordData
<1>3. wordsData[id].start + wordsData[id].length <= Len(words)
  BY DEF IInv, PoolInv, EndOf
<1>4. Get(id) \in Seq(Symbols) /\ Len(Get(id)) = wordsData[id].length
  BY <1>2, <1>3, LengthsAreNat, SliceProperties DEF Get
<1> QED BY <1>1, <1>2, <1>3, <1>4

\* Every live handle, passed as an argument, is an Operand that fits and
\* denotes a word.
LEMMA LiveHandle ==
    ASSUME IInv, NEW x \in Handles, Alive(x)
    PROVE  /\ AsOperand(x) \in Operand
           /\ AsOperand(x).start \in Nat /\ AsOperand(x).length \in Nat
           /\ AsOperand(x).fromTemporaries \in BOOLEAN
           /\ Fits(AsOperand(x))
           /\ Content(x) \in Seq(Symbols) /\ Len(Content(x)) = AsOperand(x).length
<1>1. AsOperand(x) \in Operand /\ Fits(AsOperand(x))
  <2>1. CASE x \in Values
    <3>1. value[x] \in 0 .. nextWordId - 1
      BY <2>1 DEF IInv, ValuesExist
    <3> QED BY <2>1, <3>1, GetIsWord DEF AsOperand, Operand, Fits, FitsIn, EndOf
  <2>2. CASE x \notin Values
    <3>1. x \in Operands /\ operand[x] # NoOperand
      BY <2>2 DEF Handles, Alive
    <3>2. operand[x] \in Operand
      BY <3>1 DEF IInv, ScratchInv
    <3> QED BY <2>2, <3>1, <3>2 DEF AsOperand, Fits, IInv, OperandsFit
  <2> QED BY <2>1, <2>2
<1>2. /\ AsOperand(x).start \in Nat /\ AsOperand(x).length \in Nat
      /\ AsOperand(x).fromTemporaries \in BOOLEAN
  BY <1>1 DEF Operand
<1>3. Content(x) \in Seq(Symbols) /\ Len(Content(x)) = AsOperand(x).length
  <2> DEFINE op == AsOperand(x)
             mem == IF op.fromTemporaries THEN temporaries ELSE words
  <2>1. mem \in Seq(Symbols)
    BY LengthsAreNat
  <2>2. op.start \in Nat /\ op.length \in Nat /\ op.start + op.length <= Len(mem)
    BY <1>1, <1>2 DEF Fits, FitsIn, EndOf
  <2> HIDE DEF op, mem
  <2>3. Slice(mem, op.start, op.length) \in Seq(Symbols)
        /\ Len(Slice(mem, op.start, op.length)) = op.length
    BY <2>1, <2>2, SliceProperties
  <2> QED BY <2>3 DEF Content, GetOperand, op, mem
<1> QED BY <1>1, <1>2, <1>3

LEMMA LiveTemporariesFinite == IsFiniteSet(LiveTemporaries)
<1>1. LiveTemporaries \in SUBSET Operands
  BY DEF LiveTemporaries
<1> QED BY <1>1, HandlesAssumption, FS_Subset

\* While a temporary is alive the count is positive, and the count is one when
\* it is the only one.
LEMMA CountOfOthers ==
    ASSUME IInv, NEW o \in LiveTemporaries
    PROVE  /\ temporaryCount \in Nat \ {0}
           /\ Cardinality(LiveTemporaries \ {o}) = temporaryCount - 1
           /\ temporaryCount = 1 => LiveTemporaries = {o}
<1>1. /\ Cardinality(LiveTemporaries \ {o}) = temporaryCount - 1
      /\ IsFiniteSet(LiveTemporaries \ {o})
  BY LiveTemporariesFinite, FS_RemoveElement DEF IInv, ScratchInv, CountMatchesTemporaries
<1>2. Cardinality(LiveTemporaries \ {o}) \in Nat
  BY <1>1, FS_CardinalityType
<1>3. temporaryCount \in Nat \ {0}
  BY <1>1, <1>2, LengthsAreNat
<1>4. ASSUME temporaryCount = 1
      PROVE  LiveTemporaries = {o}
  <2>1. Cardinality(LiveTemporaries \ {o}) = 0
    BY <1>1, <1>4
  <2>2. LiveTemporaries \ {o} = {}
    BY <1>1, <2>1, FS_EmptySet
  <2> QED BY <2>2
<1> QED BY <1>1, <1>3, <1>4
--------------------------------------------------------------------------------
(* Steps that leave the pool alone.                                          *)

LEMMA PoolUnchanged ==
    ASSUME PoolInv, UNCHANGED pool
    PROVE  PoolInv'
BY DEF PoolInv, pool, OneIdPerWord, NoOrphanSymbols, Get

\* Constructing an Operand, with what is appended to the scratch vector first.
LEMMA ConstructPreserves ==
    ASSUME IInv, NEW o \in Operands, NEW op \in Operand, NEW w \in Seq(Symbols),
           Construct(o, op), UNCHANGED <<pool, value>>,
           temporaries' = temporaries \o w,
           op.fromTemporaries \/ temporaries' = temporaries,
           FitsIn(op, words', temporaries')
    PROVE  IInv'
<1>1. /\ PoolInv /\ ScratchInv /\ OperandsFit /\ ValuesExist
      /\ temporaryCount \in Nat /\ Len(temporaries) \in Nat
  BY LengthsAreNat DEF IInv
<1>2. PoolInv' /\ nextWordId' = nextWordId /\ words' = words /\ value' = value
  BY <1>1, PoolUnchanged DEF pool
<1>3. /\ operand[o] = NoOperand /\ operand' = [operand EXCEPT ![o] = op]
      /\ temporaryCount' = temporaryCount + References(op)
      /\ op # NoOperand /\ op.fromTemporaries \in BOOLEAN
  BY HandlesAssumption DEF Construct, Operand
<1>4. operand' \in [Operands -> Operand \cup {NoOperand}]
  BY <1>1, <1>3 DEF ScratchInv
<1>5. /\ temporaries' \in Seq(Symbols) /\ Len(temporaries') = Len(temporaries) + Len(w)
      /\ Len(w) \in Nat
  BY <1>1, ConcatProperties, LenProperties DEF ScratchInv
<1>6. OperandsFit'
  <2>1. ASSUME NEW p \in Operands, operand'[p] # NoOperand
        PROVE  FitsIn(operand'[p], words', temporaries')
    <3>1. CASE p = o
      BY <1>1, <1>3, <3>1 DEF ScratchInv
    <3>2. CASE p # o
      <4>1. operand'[p] = operand[p] /\ operand[p] \in Operand
        BY <1>1, <1>3, <2>1, <3>2 DEF ScratchInv
      <4>2. FitsIn(operand[p], words, temporaries)
        BY <1>1, <2>1, <4>1 DEF OperandsFit
      <4>3. EndOf(operand[p]) \in Nat
        BY <4>1 DEF EndOf, Operand
      <4> QED BY <1>1, <1>2, <1>5, <4>1, <4>2, <4>3 DEF FitsIn
    <3> QED BY <3>1, <3>2
  <2> QED BY <2>1 DEF OperandsFit
<1>7. CountMatchesTemporaries' /\ temporaryCount' \in Nat
  <2>0. temporaryCount = Cardinality(LiveTemporaries)
    BY <1>1 DEF ScratchInv, CountMatchesTemporaries
  <2>1. CASE op.fromTemporaries
    <3>1. LiveTemporaries' = LiveTemporaries \cup {o} /\ o \notin LiveTemporaries
      BY <1>1, <1>3, <2>1 DEF LiveTemporaries, ScratchInv
    <3>2. Cardinality(LiveTemporaries') = temporaryCount + 1
      BY <2>0, <3>1, LiveTemporariesFinite, FS_AddElement
    <3> QED BY <1>1, <1>3, <2>1, <3>2 DEF CountMatchesTemporaries, References
  <2>2. CASE ~op.fromTemporaries
    <3>1. LiveTemporaries' = LiveTemporaries
      BY <1>1, <1>3, <2>2 DEF LiveTemporaries, ScratchInv
    <3>2. temporaryCount' = temporaryCount /\ temporaries' = temporaries
      BY <1>1, <1>3, <2>2 DEF References
    <3> QED BY <1>1, <3>1, <3>2 DEF CountMatchesTemporaries, ScratchInv
  <2> QED BY <2>1, <2>2
<1> QED BY <1>1, <1>2, <1>4, <1>5, <1>6, <1>7 DEF IInv, ScratchInv, ValuesExist

\* Ending an Operand, or writing another value over it.
LEMMA ReleasePreserves ==
    ASSUME IInv, NEW o \in Operands, NEW new \in Operand \cup {NoOperand},
           operand[o] # NoOperand,
           operand' = [operand EXCEPT ![o] = new],
           Release(operand[o], IF new # NoOperand THEN References(new) ELSE 0),
           UNCHANGED <<pool, value>>,
           new # NoOperand => FitsIn(new, words, temporaries),
           new # NoOperand /\ new.fromTemporaries => \E p \in LiveTemporaries : p # o
    PROVE  IInv'
<1> DEFINE created == IF new # NoOperand THEN References(new) ELSE 0
<1>1. /\ PoolInv /\ ScratchInv /\ OperandsFit /\ ValuesExist
      /\ temporaryCount \in Nat /\ temporaries \in Seq(Symbols)
      /\ operand \in [Operands -> Operand \cup {NoOperand}]
      /\ operand[o] \in Operand /\ operand[o].fromTemporaries \in BOOLEAN
  BY LengthsAreNat DEF IInv, ScratchInv, Operand
<1>2. PoolInv' /\ nextWordId' = nextWordId /\ words' = words /\ value' = value
  BY <1>1, PoolUnchanged DEF pool
<1>3. operand' \in [Operands -> Operand \cup {NoOperand}]
  BY <1>1
<1>4. new # NoOperand => new.fromTemporaries \in BOOLEAN
  BY DEF Operand
<1>5. created \in {0, 1} /\ (created = 1 <=> new # NoOperand /\ new.fromTemporaries)
  BY <1>4 DEF References
<1>6. /\ temporaryCount' = temporaryCount - References(operand[o]) + created
      /\ temporaries' = IF operand[o].fromTemporaries /\ temporaryCount = 1
                        THEN <<>> ELSE temporaries
  BY DEF Release
<1>7. temporaries' \in Seq(Symbols)
  BY <1>1, <1>6, EmptySeq
<1> DEFINE others == LiveTemporaries \ {o}
<1>8. /\ IsFiniteSet(others) /\ o \notin others
      /\ Cardinality(others) = temporaryCount - References(operand[o])
      /\ Cardinality(others) \in Nat
  <2>1. IsFiniteSet(others)
    BY LiveTemporariesFinite, FS_RemoveElement
  <2>2. CASE operand[o].fromTemporaries
    <3>1. o \in LiveTemporaries
      BY <2>2 DEF LiveTemporaries
    <3> QED BY <1>1, <2>1, <2>2, <3>1, CountOfOthers, FS_CardinalityType DEF References
  <2>3. CASE ~operand[o].fromTemporaries
    <3>1. others = LiveTemporaries
      BY <2>3 DEF LiveTemporaries
    <3>2. Cardinality(others) = temporaryCount /\ References(operand[o]) = 0
      BY <1>1, <2>3, <3>1 DEF References, ScratchInv, CountMatchesTemporaries
    <3> QED BY <1>1, <2>1, <3>2
  <2> QED BY <2>2, <2>3
<1>9. LiveTemporaries' = IF created = 1 THEN others \cup {o} ELSE others
  <2>1. \A p \in Operands : p # o => operand'[p] = operand[p]
    BY <1>1
  <2>2. operand'[o] = new
    BY <1>1
  <2> HIDE DEF created
  <2> QED BY <1>5, <2>1, <2>2 DEF LiveTemporaries
<1>10. temporaryCount' = Cardinality(LiveTemporaries') /\ temporaryCount' \in Nat
  <2>1. Cardinality(others \cup {o}) = Cardinality(others) + 1
    BY <1>8, FS_AddElement
  <2> HIDE DEF created, others
  <2>2. CASE created = 1
    BY <1>6, <1>8, <1>9, <2>1, <2>2
  <2>3. CASE created = 0
    BY <1>6, <1>8, <1>9, <2>3
  <2> QED BY <1>5, <2>2, <2>3
<1>11. ASSUME operand[o].fromTemporaries, temporaryCount = 1
       PROVE  LiveTemporaries' = {} /\ created = 0
  <2>1. o \in LiveTemporaries
    BY <1>11 DEF LiveTemporaries
  <2>2. LiveTemporaries = {o}
    BY <1>11, <2>1, CountOfOthers
  <2>3. created = 0
    BY <1>5, <2>2
  <2> HIDE DEF created
  <2> QED BY <1>9, <2>2, <2>3
<1>12. CountMatchesTemporaries'
  <2>1. ASSUME temporaryCount' = 0
        PROVE  temporaries' = <<>>
    <3>1. CASE operand[o].fromTemporaries
      <4>1. o \in LiveTemporaries /\ References(operand[o]) = 1
        BY <3>1 DEF LiveTemporaries, References
      <4>2. temporaryCount = 1
        <5> HIDE DEF created
        <5> QED BY <1>1, <1>5, <1>6, <1>8, <2>1, <4>1
      <4> QED BY <1>6, <3>1, <4>2
    <3>2. CASE ~operand[o].fromTemporaries
      <4>1. temporaryCount = 0
        <5> HIDE DEF created
        <5> QED BY <1>1, <1>5, <1>6, <2>1, <3>2 DEF References
      <4> QED BY <1>1, <1>6, <3>2, <4>1 DEF ScratchInv, CountMatchesTemporaries
    <3> QED BY <3>1, <3>2
  <2> QED BY <1>10, <2>1 DEF CountMatchesTemporaries
<1>13. OperandsFit'
  <2>1. ASSUME NEW p \in Operands, operand'[p] # NoOperand
        PROVE  FitsIn(operand'[p], words', temporaries')
    <3>1. FitsIn(operand'[p], words, temporaries)
      <4>1. CASE p = o
        BY <1>1, <2>1, <4>1
      <4>2. CASE p # o
        BY <1>1, <2>1, <4>2 DEF OperandsFit
      <4> QED BY <4>1, <4>2
    <3>2. CASE temporaries' = temporaries
      BY <1>2, <3>1, <3>2
    <3>3. CASE temporaries' # temporaries
      <4>1. LiveTemporaries' = {}
        BY <1>6, <1>11, <3>3
      <4>2. ~operand'[p].fromTemporaries
        BY <2>1, <4>1 DEF LiveTemporaries
      <4> QED BY <1>2, <3>1, <4>2 DEF FitsIn
    <3> QED BY <3>2, <3>3
  <2> QED BY <2>1 DEF OperandsFit
<1> QED BY <1>1, <1>2, <1>3, <1>7, <1>10, <1>12, <1>13 DEF IInv, ScratchInv, ValuesExist
--------------------------------------------------------------------------------
(* Steps that give a word its id.                                            *)

\* A new id for the word w, whose symbols are in the pool once x is appended.
LEMMA RegisterPreserves ==
    ASSUME IInv, NEW v \in Values, NEW d \in WordData, NEW x \in Seq(Symbols), NEW w,
           Register(v, d), words' = words \o x, UNCHANGED <<scratch, operand>>,
           Missing(w),
           EndOf(d) <= Len(words \o x), Slice(words \o x, d.start, d.length) = w,
           Len(words) .. Len(words \o x) - 1 \subseteq BytesOf(d)
    PROVE  IInv'
<1> DEFINE n == nextWordId
           mem == words \o x
<1>1. /\ PoolInv /\ ScratchInv /\ OperandsFit /\ ValuesExist
      /\ words \in Seq(Symbols) /\ Len(words) \in Nat /\ n \in Nat /\ n # 0
  BY LengthsAreNat DEF IInv
<1>2. /\ mem \in Seq(Symbols) /\ Len(mem) = Len(words) + Len(x) /\ Len(x) \in Nat
  BY <1>1, ConcatProperties, LenProperties
<1>3. /\ wordsData' = [id \in 0 .. n |-> IF id = n THEN d ELSE wordsData[id]]
      /\ wordMap' = wordMap \cup {n} /\ nextWordId' = n + 1
      /\ value' = [value EXCEPT ![v] = n] /\ words' = mem
  BY DEF Register
<1> HIDE DEF mem
<1>4. /\ 0 .. nextWordId' - 1 = 0 .. n /\ n \in 0 .. n /\ 0 .. n - 1 \subseteq 0 .. n
      /\ \A id \in 0 .. n : id \in 0 .. n - 1 \/ id = n
  BY <1>1, <1>3
<1>5. wordsData' \in [0 .. nextWordId' - 1 -> WordData] /\ nextWordId' \in Nat \ {0}
  BY <1>1, <1>3, <1>4 DEF PoolInv
<1>6. ASSUME NEW id \in 0 .. n - 1
      PROVE  wordsData'[id] = wordsData[id] /\ Get(id)' = Get(id)
  <2>1. wordsData'[id] = wordsData[id]
    BY <1>1, <1>3, <1>4
  <2>2. wordsData[id].start \in Nat /\ wordsData[id].length \in Nat
        /\ wordsData[id].start + wordsData[id].length <= Len(words)
    BY GetIsWord
  <2>3. Slice(mem, wordsData[id].start, wordsData[id].length)
          = Slice(words, wordsData[id].start, wordsData[id].length)
    BY <1>1, <2>2, SliceOfExtension DEF mem
  <2> QED BY <1>3, <2>1, <2>3 DEF Get
<1>7. wordsData'[n] = d /\ \A id : id = n => Get(id)' = w
  <2>1. wordsData'[n] = d
    BY <1>3, <1>4
  <2>2. Slice(mem, d.start, d.length) = w
    BY DEF mem
  <2> QED BY <1>3, <2>1, <2>2 DEF Get
<1>8. \A id \in 0 .. nextWordId' - 1 : EndOf(wordsData'[id]) <= Len(words')
  <2>1. ASSUME NEW id \in 0 .. n - 1
        PROVE  EndOf(wordsData[id]) <= Len(mem)
    <3>1. /\ wordsData[id].start \in Nat /\ wordsData[id].length \in Nat
          /\ wordsData[id].start + wordsData[id].length <= Len(words)
      BY GetIsWord
    <3> QED BY <1>1, <1>2, <3>1 DEF EndOf
  <2>2. EndOf(d) <= Len(mem)
    BY DEF mem
  <2> QED BY <1>3, <1>4, <1>6, <1>7, <2>1, <2>2
<1>9. OneIdPerWord'
  <2>1. /\ wordMap = 0 .. n - 1 /\ Get(0) = <<>>
        /\ \A i, j \in 0 .. n - 1 : Get(i) = Get(j) => i = j
    BY <1>1 DEF PoolInv, OneIdPerWord
  <2>2. wordMap' = 0 .. nextWordId' - 1
    BY <1>3, <1>4, <2>1
  <2>3. \A i \in 0 .. n - 1 : Get(i) # w
    BY <2>1 DEF Missing
  <2>4. ASSUME NEW i \in 0 .. n, NEW j \in 0 .. n, Get(i)' = Get(j)'
        PROVE  i = j
    <3>1. CASE i # n /\ j # n
      BY <1>4, <1>6, <2>1, <2>4, <3>1
    <3>2. CASE i = n /\ j # n
      BY <1>4, <1>6, <1>7, <2>3, <2>4, <3>2
    <3>3. CASE i # n /\ j = n
      BY <1>4, <1>6, <1>7, <2>3, <2>4, <3>3
    <3> QED BY <3>1, <3>2, <3>3
  <2>5. Get(0)' = <<>>
    <3>1. 0 \in 0 .. n - 1
      BY <1>1
    <3> QED BY <1>6, <2>1, <3>1
  <2> QED BY <1>4, <2>2, <2>4, <2>5 DEF OneIdPerWord
<1>10. NoOrphanSymbols'
  <2>1. ASSUME NEW p \in 0 .. Len(mem) - 1
        PROVE  \E id \in 0 .. n : p \in BytesOf(wordsData'[id])
    <3>1. CASE p < Len(words)
      <4>1. p \in 0 .. Len(words) - 1
        BY <1>1, <3>1
      <4>2. PICK id \in 0 .. n - 1 : p \in BytesOf(wordsData[id])
        BY <1>1, <4>1 DEF PoolInv, NoOrphanSymbols, Bytes
      <4> QED BY <1>4, <1>6, <4>2
    <3>2. CASE p >= Len(words)
      <4>1. p \in Len(words) .. Len(mem) - 1
        BY <1>1, <1>2, <3>2
      <4> QED BY <1>4, <1>7, <4>1 DEF mem
    <3> QED BY <1>1, <3>1, <3>2
  <2> QED BY <1>3, <1>4, <2>1 DEF NoOrphanSymbols, Bytes
<1>11. PoolInv'
  BY <1>1, <1>2, <1>3, <1>4, <1>5, <1>8, <1>9, <1>10 DEF PoolInv, OneIdPerWord
<1>12. temporaries' = temporaries /\ temporaryCount' = temporaryCount /\ operand' = operand
  BY DEF scratch
<1>13. ScratchInv'
  BY <1>1, <1>12 DEF ScratchInv, CountMatchesTemporaries, LiveTemporaries
<1>14. OperandsFit'
  <2>1. ASSUME NEW o \in Operands, operand[o] # NoOperand
        PROVE  FitsIn(operand[o], mem, temporaries)
    <3>1. operand[o] \in Operand /\ FitsIn(operand[o], words, temporaries)
      BY <1>1, <2>1 DEF ScratchInv, OperandsFit
    <3>2. EndOf(operand[o]) \in Nat
      BY <3>1 DEF EndOf, Operand
    <3> QED BY <1>1, <1>2, <3>1, <3>2 DEF FitsIn
  <2> QED BY <1>3, <1>12, <2>1 DEF OperandsFit
<1>15. ValuesExist'
  <2>1. n \in 0 .. nextWordId' - 1 /\ 0 .. n - 1 \subseteq 0 .. nextWordId' - 1
    BY <1>4
  <2> QED BY <1>1, <1>3, <2>1 DEF ValuesExist
<1> QED BY <1>11, <1>13, <1>14, <1>15 DEF IInv

LEMMA FoundPreserves ==
    ASSUME IInv, NEW v \in Values, NEW w, Found(v, w), UNCHANGED <<scratch, operand>>
    PROVE  IInv'
<1>1. /\ PoolInv /\ ScratchInv /\ OperandsFit /\ ValuesExist
  BY DEF IInv
<1>2. /\ PoolInv' /\ nextWordId' = nextWordId /\ words' = words
      /\ temporaries' = temporaries /\ temporaryCount' = temporaryCount /\ operand' = operand
  BY <1>1, PoolUnchanged DEF Found, pool, scratch
<1>3. ValuesExist'
  <2>1. PICK id \in wordMap : value' = [value EXCEPT ![v] = id]
    BY DEF Found
  <2>2. id \in 0 .. nextWordId - 1
    BY <1>1 DEF PoolInv
  <2> QED BY <1>1, <1>2, <2>1, <2>2 DEF ValuesExist
<1> QED BY <1>1, <1>2, <1>3
        DEF IInv, ScratchInv, CountMatchesTemporaries, LiveTemporaries, OperandsFit

LEMMA AddUniquePreserves ==
    ASSUME IInv, NEW v \in Values, NEW w \in Seq(Symbols),
           AddUnique(v, w), UNCHANGED <<scratch, operand>>
    PROVE  IInv'
<1>1. CASE Found(v, w)
  BY <1>1, FoundPreserves
<1>2. CASE Missing(w) /\ words' = words \o w
           /\ Register(v, [start |-> Len(words), length |-> Len(w)])
  <2> DEFINE d == [start |-> Len(words), length |-> Len(w)]
  <2>1. Len(words) \in Nat /\ words \in Seq(Symbols) /\ Len(w) \in Nat
    BY LengthsAreNat, LenProperties
  <2>2. d \in WordData /\ d.start = Len(words) /\ d.length = Len(w) /\ Register(v, d)
    BY <1>2, <2>1 DEF WordData
  <2>3. Len(words \o w) = Len(words) + Len(w)
    BY <2>1, ConcatProperties
  <2>4. Slice(words \o w, d.start, d.length) = w
    BY <2>1, <2>2, SliceOfAppended
  <2> HIDE DEF d
  <2>5. EndOf(d) <= Len(words \o w) /\ Len(words) .. Len(words \o w) - 1 \subseteq BytesOf(d)
    BY <2>1, <2>2, <2>3 DEF EndOf, BytesOf
  <2> QED BY <1>2, <2>2, <2>4, <2>5, RegisterPreserves
<1> QED BY <1>1, <1>2 DEF AddUnique

LEMMA AddUniqueInfixPreserves ==
    ASSUME IInv, NEW v \in Values, NEW start \in Nat, NEW length \in Nat,
           start + length <= Len(words),
           AddUniqueInfix(v, start, length), UNCHANGED <<scratch, operand>>
    PROVE  IInv'
<1> DEFINE w == Slice(words, start, length)
<1>1. CASE Found(v, w)
  BY <1>1, FoundPreserves
<1>2. CASE Missing(w) /\ Register(v, [start |-> start, length |-> length]) /\ UNCHANGED words
  <2> DEFINE d == [start |-> start, length |-> length]
  <2>1. Len(words) \in Nat /\ words \in Seq(Symbols)
    BY LengthsAreNat
  <2>2. words \o <<>> = words /\ <<>> \in Seq(Symbols)
    BY <2>1, ConcatEmptySeq, EmptySeq
  <2>3. d \in WordData /\ d.start = start /\ d.length = length /\ Register(v, d)
    BY <1>2 DEF WordData
  <2>4. words' = words \o <<>> /\ Missing(w)
    BY <1>2, <2>2
  <2> HIDE DEF d
  <2>5. /\ EndOf(d) <= Len(words \o <<>>) /\ Slice(words \o <<>>, d.start, d.length) = w
    BY <2>2, <2>3 DEF EndOf
  <2>6. Len(words) .. Len(words \o <<>>) - 1 \subseteq BytesOf(d)
    <3>1. Len(words) .. Len(words) - 1 = {}
      BY <2>1
    <3> QED BY <2>2, <3>1
  <2> HIDE DEF w
  <2> QED BY <2>2, <2>3, <2>4, <2>5, <2>6, RegisterPreserves
<1> QED BY <1>1, <1>2 DEF AddUniqueInfix
--------------------------------------------------------------------------------
(* The initial state and the operations, one lemma each.                     *)

LEMMA InitEstablishes == Init => IInv
<1> SUFFICES ASSUME Init PROVE IInv
  OBVIOUS
<1>1. /\ words = <<>> /\ wordsData = [id \in 0 .. 0 |-> [start |-> 0, length |-> 0]]
      /\ wordMap = {0} /\ nextWordId = 1 /\ temporaries = <<>> /\ temporaryCount = 0
      /\ value = [v \in Values |-> 0] /\ operand = [o \in Operands |-> NoOperand]
  BY DEF Init
<1>2. /\ <<>> \in Seq(Symbols) /\ Len(words) = 0 /\ 0 .. nextWordId - 1 = {0}
      /\ wordsData[0] = [start |-> 0, length |-> 0]
  BY <1>1, EmptySeq
<1>3. Get(0) = <<>>
  <2>0. words \in Seq(Symbols) /\ 0 \in Nat /\ 0 + 0 <= Len(words)
    BY <1>1, <1>2
  <2>1. /\ Slice(words, 0, 0) \in Seq(Symbols) /\ Len(Slice(words, 0, 0)) = 0
    BY ONLY <2>0, SliceProperties
  <2>2. Slice(words, 0, 0) = <<>>
    BY <2>1, EmptySeq
  <2> QED BY <1>2, <2>2 DEF Get
<1>4. PoolInv
  <2>1. wordsData \in [0 .. nextWordId - 1 -> WordData]
    BY <1>1, <1>2 DEF WordData
  <2>2. OneIdPerWord
    BY <1>1, <1>2, <1>3 DEF OneIdPerWord
  <2>3. NoOrphanSymbols
    BY <1>2 DEF NoOrphanSymbols
  <2> QED BY <1>1, <1>2, <2>1, <2>2, <2>3 DEF PoolInv, EndOf
<1>5. ScratchInv
  <2>1. LiveTemporaries = {}
    BY <1>1 DEF LiveTemporaries
  <2> QED BY <1>1, <1>2, <2>1, FS_EmptySet DEF ScratchInv, CountMatchesTemporaries
<1> QED BY <1>1, <1>2, <1>4, <1>5 DEF IInv, OperandsFit, ValuesExist

\* An Operand constructed without writing the scratch vector.
LEMMA ViewPreserves ==
    ASSUME IInv, NEW o \in Operands, NEW op \in Operand, Fits(op),
           Construct(o, op), UNCHANGED <<pool, temporaries, value>>
    PROVE  IInv'
<1>1. <<>> \in Seq(Symbols) /\ temporaries \o <<>> = temporaries
  BY LengthsAreNat, EmptySeq, ConcatEmptySeq
<1>2. words' = words /\ temporaries' = temporaries
  BY DEF pool
<1>3. FitsIn(op, words', temporaries')
  BY <1>2 DEF Fits
<1>4. temporaries' = temporaries \o <<>>
  BY <1>1, <1>2
<1> QED BY <1>1, <1>2, <1>3, <1>4, ConstructPreserves

LEMMA WidenPreserves ==
    ASSUME IInv, NEW o \in Operands, NEW x \in Handles, Widen(o, x)
    PROVE  IInv'
BY LiveHandle, ViewPreserves DEF Widen

\* A part of an Operand that fits is an Operand that fits.
LEMMA PartFits ==
    ASSUME NEW op \in Operand, Fits(op), NEW s \in Nat, NEW l \in Nat, s + l <= op.length,
           IInv
    PROVE  /\ Part(op, s, l) \in Operand /\ Fits(Part(op, s, l))
           /\ Part(op, s, l) = [start |-> op.start + s, length |-> l,
                                fromTemporaries |-> op.fromTemporaries]
<1> DEFINE part == [start |-> op.start + s, length |-> l, fromTemporaries |-> op.fromTemporaries]
<1>1. op.start \in Nat /\ op.length \in Nat /\ op.fromTemporaries \in BOOLEAN
  BY DEF Operand
<1>2. Part(op, s, l) = part
  BY DEF Part
<1>3. /\ part \in Operand /\ part.start = op.start + s /\ part.length = l
      /\ part.fromTemporaries = op.fromTemporaries
  BY <1>1 DEF Operand
<1> DEFINE mem == IF op.fromTemporaries THEN temporaries ELSE words
<1>4. op.start + op.length <= Len(mem) /\ Len(mem) \in Nat
  BY LengthsAreNat DEF Fits, FitsIn, EndOf
<1> HIDE DEF mem, part
<1>5. EndOf(part) <= Len(mem)
  BY <1>1, <1>3, <1>4 DEF EndOf
<1>6. Fits(part)
  BY <1>3, <1>5 DEF Fits, FitsIn, mem
<1> QED BY <1>2, <1>3, <1>6 DEF part

LEMMA SubPreserves ==
    ASSUME IInv, NEW o \in Operands, NEW x \in Handles, Sub(o, x)
    PROVE  IInv'
<1>1. PICK s, l \in 0 .. AsOperand(x).length :
          s + l <= AsOperand(x).length /\ Construct(o, Part(AsOperand(x), s, l))
  BY DEF Sub
<1>2. Alive(x) /\ UNCHANGED <<pool, temporaries, value>>
  BY DEF Sub
<1>3. /\ AsOperand(x) \in Operand /\ Fits(AsOperand(x)) /\ s \in Nat /\ l \in Nat
  BY <1>2, LiveHandle
<1>4. Part(AsOperand(x), s, l) \in Operand /\ Fits(Part(AsOperand(x), s, l))
  BY <1>1, <1>3, PartFits
<1> QED BY <1>1, <1>2, <1>4, ViewPreserves

\* invMul() requires the first word to be a prefix of the second, so it is not
\* longer and the suffix has a length.
LEMMA InvMulPreserves ==
    ASSUME IInv, NEW o \in Operands, NEW x \in Handles, NEW y \in Handles, InvMul(o, x, y)
    PROVE  IInv'
<1> DEFINE a == AsOperand(x).length
           b == AsOperand(y).length
<1>1. /\ Alive(x) /\ Alive(y) /\ UNCHANGED <<pool, temporaries, value>>
      /\ Agree(Content(x), Content(y), a) /\ Construct(o, Part(AsOperand(y), a, b - a))
  BY DEF InvMul
<1>2. a \in Nat /\ b \in Nat /\ AsOperand(y) \in Operand /\ Fits(AsOperand(y))
      /\ Len(Content(y)) = b
  BY <1>1, LiveHandle
<1>3. a <= b
  BY <1>1, <1>2 DEF Agree
<1>4. b - a \in Nat /\ a + (b - a) <= b
  BY <1>2, <1>3
<1> HIDE DEF a
<1>5. Part(AsOperand(y), a, b - a) \in Operand /\ Fits(Part(AsOperand(y), a, b - a))
  BY <1>2, <1>4, PartFits
<1> QED BY <1>1, <1>5, ViewPreserves

\* The loop of gcp_len() ends, at a length both words have.
LEMMA GcpLenProperties ==
    ASSUME NEW A \in Seq(Symbols), NEW B \in Seq(Symbols)
    PROVE  GcpLen(A, B) \in 0 .. Len(A) /\ Agree(A, B, GcpLen(A, B))
<1> DEFINE stop(n) == Agree(A, B, n) /\ (n = Len(A) \/ ~Agree(A, B, n + 1))
           common == {n \in 0 .. Len(A) : Agree(A, B, n)}
<1>0. Len(A) \in Nat
  BY LenProperties
<1>1. Agree(A, B, 0) /\ 0 \in common
  BY <1>0 DEF Agree
<1>2. PICK m \in common : \A n \in common : n <= m
  <2>1. IsFiniteSet(0 .. Len(A))
    BY <1>0, FS_Interval
  <2>2. IsFiniteSet(common) /\ common # {} /\ common \in SUBSET Nat
    BY <1>0, <1>1, <2>1, FS_Subset
  <2> HIDE DEF common
  <2> QED BY <2>2, LargestMember
<1>3. m \in 0 .. Len(A) /\ stop(m)
  BY <1>0, <1>2
<1> QED BY <1>3 DEF GcpLen

LEMMA GcpPreserves ==
    ASSUME IInv, NEW o \in Operands, NEW x \in Handles, NEW y \in Handles, Gcp(o, x, y)
    PROVE  IInv'
<1> DEFINE n == GcpLen(Content(x), Content(y))
<1>1. /\ Alive(x) /\ Alive(y) /\ UNCHANGED <<pool, temporaries, value>>
      /\ Construct(o, Part(AsOperand(x), 0, n))
  BY DEF Gcp
<1>2. /\ AsOperand(x) \in Operand /\ Fits(AsOperand(x)) /\ AsOperand(x).length \in Nat
      /\ Content(x) \in Seq(Symbols) /\ Len(Content(x)) = AsOperand(x).length
      /\ Content(y) \in Seq(Symbols)
  BY <1>1, LiveHandle
<1>3. n \in 0 .. AsOperand(x).length
  BY <1>2, GcpLenProperties
<1> HIDE DEF n
<1>4. n \in Nat /\ 0 \in Nat /\ 0 + n <= AsOperand(x).length
  BY <1>2, <1>3
<1>5. Part(AsOperand(x), 0, n) \in Operand /\ Fits(Part(AsOperand(x), 0, n))
  BY <1>2, <1>4, PartFits
<1> QED BY <1>1, <1>5, ViewPreserves

LEMMA ScratchPreserves ==
    ASSUME IInv, NEW o \in Operands, NEW w \in Seq(Symbols), Scratch(o, w)
    PROVE  IInv'
<1> DEFINE op == [start |-> Len(temporaries), length |-> Len(w), fromTemporaries |-> TRUE]
<1>1. /\ temporaries' = temporaries \o w /\ Construct(o, op) /\ UNCHANGED <<pool, value>>
  BY DEF Scratch
<1>2. /\ Len(temporaries) \in Nat /\ temporaries \in Seq(Symbols) /\ Len(w) \in Nat
      /\ Len(temporaries \o w) = Len(temporaries) + Len(w)
  BY LengthsAreNat, ConcatProperties, LenProperties
<1>3. op \in Operand /\ op.fromTemporaries /\ EndOf(op) = Len(temporaries) + Len(w)
  BY <1>2 DEF Operand, EndOf
<1> HIDE DEF op
<1>4. FitsIn(op, words', temporaries')
  BY <1>1, <1>2, <1>3 DEF FitsIn
<1> QED BY <1>1, <1>3, <1>4, ConstructPreserves

LEMMA MulPreserves ==
    ASSUME IInv, NEW o \in Operands, NEW x \in Handles, NEW y \in Handles, Mul(o, x, y)
    PROVE  IInv'
<1>1. Alive(x) /\ Alive(y) /\ Scratch(o, Content(x) \o Content(y))
  BY DEF Mul
<1>2. Content(x) \in Seq(Symbols) /\ Content(y) \in Seq(Symbols)
  BY <1>1, LiveHandle
<1>3. Content(x) \o Content(y) \in Seq(Symbols)
  BY <1>2, ConcatProperties
<1> QED BY <1>1, <1>3, ScratchPreserves

LEMMA DestroyPreserves ==
    ASSUME IInv, NEW o \in Operands, Destroy(o)
    PROVE  IInv'
<1>1. /\ operand[o] # NoOperand /\ operand' = [operand EXCEPT ![o] = NoOperand]
      /\ Release(operand[o], 0) /\ UNCHANGED <<pool, value>>
  BY DEF Destroy
<1> DEFINE new == NoOperand
<1>2. new \in Operand \cup {NoOperand} /\ new = NoOperand
  OBVIOUS
<1>3. Release(operand[o], IF NoOperand # NoOperand THEN References(NoOperand) ELSE 0)
  BY <1>1
<1> QED BY <1>1, <1>2, <1>3, ReleasePreserves

\* The other temporary keeps the count above zero: when o, the value written
\* over, was a temporary too, p is not the one that dies.
LEMMA AssignPreserves ==
    ASSUME IInv, NEW o \in Operands, NEW p \in Operands, Assign(o, p)
    PROVE  IInv'
<1> DEFINE new == operand[p]
<1>1. /\ operand[o] # NoOperand /\ new # NoOperand /\ o # p
      /\ operand' = [operand EXCEPT ![o] = new]
      /\ Release(operand[o], References(new)) /\ UNCHANGED <<pool, value>>
  BY DEF Assign
<1>2. new \in Operand \cup {NoOperand} /\ FitsIn(new, words, temporaries)
  BY <1>1 DEF IInv, ScratchInv, OperandsFit
<1>3. new.fromTemporaries => p \in LiveTemporaries
  BY <1>1 DEF LiveTemporaries
<1> HIDE DEF new
<1>4. Release(operand[o], IF new # NoOperand THEN References(new) ELSE 0)
  BY <1>1
<1> QED BY <1>1, <1>2, <1>3, <1>4, ReleasePreserves

LEMMA AssignValuePreserves ==
    ASSUME IInv, NEW o \in Operands, NEW v \in Values, AssignValue(o, v)
    PROVE  IInv'
<1> DEFINE new == AsOperand(v)
<1>1. /\ operand[o] # NoOperand /\ operand' = [operand EXCEPT ![o] = new]
      /\ Release(operand[o], 0) /\ UNCHANGED <<pool, value>>
  BY DEF AssignValue
<1>2. v \in Handles /\ Alive(v)
  BY HandlesAssumption DEF Handles, Alive
<1>3. new \in Operand /\ Fits(new)
  BY <1>2, LiveHandle
<1>4. new # NoOperand /\ new.fromTemporaries = FALSE
  BY <1>3, HandlesAssumption DEF AsOperand, Operand
<1> HIDE DEF new
<1>5. Release(operand[o], IF new # NoOperand THEN References(new) ELSE 0)
  BY <1>1, <1>4 DEF References
<1> QED BY <1>1, <1>3, <1>4, <1>5, ReleasePreserves DEF Fits

LEMMA FromPreserves ==
    ASSUME IInv, NEW v \in Values, NEW w \in Inputs, From(v, w)
    PROVE  IInv'
BY InputsAssumption, AddUniquePreserves DEF From

LEMMA ConvertPreserves ==
    ASSUME IInv, NEW v \in Values, NEW o \in Operands, Convert(v, o)
    PROVE  IInv'
<1> DEFINE op == operand[o]
<1>1. /\ op # NoOperand /\ UNCHANGED <<scratch, operand>>
      /\ IF op.fromTemporaries THEN AddUnique(v, GetOperand(op))
                               ELSE AddUniqueInfix(v, op.start, op.length)
  BY DEF Convert
<1>2. /\ op \in Operand /\ FitsIn(op, words, temporaries)
      /\ words \in Seq(Symbols) /\ temporaries \in Seq(Symbols)
  BY <1>1, LengthsAreNat DEF IInv, ScratchInv, OperandsFit
<1> HIDE DEF op
<1>3. op.start \in Nat /\ op.length \in Nat
  BY <1>2 DEF Operand
<1>4. CASE op.fromTemporaries
  <2>1. op.start + op.length <= Len(temporaries)
    BY <1>2, <1>4 DEF FitsIn, EndOf
  <2>2. GetOperand(op) = Slice(temporaries, op.start, op.length)
    BY <1>4 DEF GetOperand
  <2>3. GetOperand(op) \in Seq(Symbols)
    BY <1>2, <1>3, <2>1, <2>2, SliceProperties
  <2> QED BY <1>1, <1>4, <2>3, AddUniquePreserves
<1>5. CASE ~op.fromTemporaries
  <2>1. op.start + op.length <= Len(words)
    BY <1>2, <1>5 DEF FitsIn, EndOf
  <2> QED BY <1>1, <1>3, <1>5, <2>1, AddUniqueInfixPreserves
<1> QED BY <1>4, <1>5
--------------------------------------------------------------------------------
(* Compaction and reload.                                                    *)

\* The words of the surviving ids, under their new numbers: what compact() does
\* to the pool, whatever ids survive.
LEMMA CompactToPreserves ==
    ASSUME IInv, NEW live \in SUBSET (0 .. nextWordId - 1), 0 \in live,
           CompactTo(live, Bytes(wordsData, live))
    PROVE  /\ PoolInv' /\ nextWordId' = Cardinality(live)
           /\ \A id \in live : /\ Rank(live, id) \in 0 .. nextWordId' - 1
                               /\ \A n : n = Rank(live, id) => Get(n)' = Get(id)
<1> DEFINE kept == Bytes(wordsData, live)
           c == Cardinality(live)
<1>1. /\ IsFiniteSet(live) /\ live \in SUBSET Nat /\ c \in Nat \ {0}
  <2>1. IsFiniteSet(live)
    <3>1. nextWordId - 1 \in Int /\ 0 \in Int
      BY LengthsAreNat
    <3>2. IsFiniteSet(0 .. nextWordId - 1)
      BY ONLY <3>1, FS_Interval
    <3> QED BY <3>2, FS_Subset
  <2> QED BY <2>1, LengthsAreNat, FS_CardinalityType, FS_EmptySet
<1>2. /\ words' = Pack(words, kept) /\ nextWordId' = c
      /\ wordsData' = [n \in 0 .. c - 1 |->
                         [wordsData[Nth(live, n)] EXCEPT !.start = Rank(kept, @)]]
      /\ wordMap' = Rebuild(words', wordsData')
  BY DEF CompactTo
<1>3. kept \in SUBSET (0 .. Len(words) - 1)
  <2>1. ASSUME NEW id \in live, NEW p \in BytesOf(wordsData[id])
        PROVE  p \in 0 .. Len(words) - 1
    <3>1. /\ wordsData[id].start \in Nat /\ wordsData[id].length \in Nat
          /\ wordsData[id].start + wordsData[id].length <= Len(words)
      BY GetIsWord
    <3>2. Len(words) \in Nat
      BY LengthsAreNat
    <3> QED BY <2>1, <3>1, <3>2 DEF BytesOf, EndOf
  <2> QED BY <2>1 DEF Bytes
<1>4. /\ IsFiniteSet(kept) /\ kept \in SUBSET Nat /\ words' \in Seq(Symbols)
      /\ Len(words') = Cardinality(kept)
  BY <1>2, <1>3, LengthsAreNat, PackProperties
<1>5. ASSUME NEW n \in 0 .. c - 1
      PROVE  Nth(live, n) \in live /\ Rank(live, Nth(live, n)) = n
  BY <1>1, NthProperties
<1>6. ASSUME NEW id \in live
      PROVE  Rank(live, id) \in 0 .. c - 1 /\ Nth(live, Rank(live, id)) = id
  BY <1>1, RankOfMember
<1> HIDE DEF kept, c
\* A live word lies inside the kept offsets, so it moves with them.
<1>7. ASSUME NEW id \in live
      PROVE  /\ wordsData[id].start \in Nat /\ wordsData[id].length \in Nat
             /\ Rank(kept, wordsData[id].start) \in Nat
             /\ Rank(kept, wordsData[id].start) + wordsData[id].length <= Len(words')
             /\ Slice(words', Rank(kept, wordsData[id].start), wordsData[id].length) = Get(id)
             /\ Rank(kept, EndOf(wordsData[id]))
                  = Rank(kept, wordsData[id].start) + wordsData[id].length
  <2> DEFINE start == wordsData[id].start
             length == wordsData[id].length
  <2>1. /\ start \in Nat /\ length \in Nat /\ start + length <= Len(words)
    BY GetIsWord
  <2>2. start .. start + length - 1 \subseteq kept
    <3>1. BytesOf(wordsData[id]) \subseteq kept
      BY DEF kept, Bytes
    <3>2. BytesOf(wordsData[id]) = start .. start + length - 1
      BY <2>1 DEF BytesOf, EndOf
    <3> QED BY <3>1, <3>2
  <2>3. EndOf(wordsData[id]) = start + length
    BY DEF EndOf
  <2> HIDE DEF start, length
  <2>4. /\ Rank(kept, start) \in Nat
        /\ Rank(kept, start) + length <= Len(words')
        /\ Slice(words', Rank(kept, start), length) = Slice(words, start, length)
    BY <1>2, <1>3, <2>1, <2>2, LengthsAreNat, PackKeepsSlices
  <2>5. Rank(kept, start + length) = Rank(kept, start) + length
    BY <1>4, <2>1, <2>2, RankInRun
  <2> QED BY <2>1, <2>3, <2>4, <2>5 DEF Get, start, length
<1>8. ASSUME NEW n \in 0 .. c - 1
      PROVE  /\ wordsData'[n] \in WordData
             /\ wordsData'[n].start = Rank(kept, wordsData[Nth(live, n)].start)
             /\ wordsData'[n].length = wordsData[Nth(live, n)].length
  <2>1. wordsData[Nth(live, n)] \in WordData
    BY <1>5, GetIsWord
  <2>2. wordsData'[n] = [wordsData[Nth(live, n)] EXCEPT !.start = Rank(kept, @)]
    BY <1>2
  <2>3. Rank(kept, wordsData[Nth(live, n)].start) \in Nat
    BY <1>5, <1>7
  <2> QED BY <2>1, <2>2, <2>3 DEF WordData
\* New id n denotes the word of the n-th surviving id.
<1>9. ASSUME NEW n \in 0 .. c - 1
      PROVE  /\ Slice(words', wordsData'[n].start, wordsData'[n].length) = Get(Nth(live, n))
             /\ EndOf(wordsData'[n]) <= Len(words')
  BY <1>5, <1>7, <1>8 DEF EndOf
<1>10. ASSUME NEW i \in 0 .. c - 1, NEW j \in 0 .. c - 1,
              Slice(words', wordsData'[i].start, wordsData'[i].length)
                = Slice(words', wordsData'[j].start, wordsData'[j].length)
       PROVE  i = j
  <2>1. Get(Nth(live, i)) = Get(Nth(live, j))
    BY <1>9, <1>10
  <2>2. Nth(live, i) = Nth(live, j)
    BY <1>5, <2>1 DEF IInv, PoolInv, OneIdPerWord
  <2> QED BY <1>5, <2>2
<1>11. wordsData' \in [0 .. c - 1 -> WordData]
  <2>1. \A n \in 0 .. c - 1 : wordsData'[n] \in WordData
    BY <1>8
  <2> QED BY <1>2, <2>1
<1>12. wordMap' = 0 .. c - 1
  <2>1. DOMAIN wordsData' = 0 .. c - 1
    BY <1>11
  <2>2. \A i, j \in 0 .. c - 1 : j < i =>
          Slice(words', wordsData'[j].start, wordsData'[j].length)
            # Slice(words', wordsData'[i].start, wordsData'[i].length)
    <3>1. \A i, j \in 0 .. c - 1 : j < i => i # j
      BY <1>1
    <3> QED BY <1>10, <3>1
  <2> QED BY <1>2, <2>1, <2>2 DEF Rebuild
<1>13. Nth(live, 0) = 0 /\ 0 \in 0 .. c - 1
  <2>1. {m \in live : m < 0} = {}
    <3>1. \A m \in Nat : ~(m < 0)
      OBVIOUS
    <3> QED BY ONLY <1>1, <3>1
  <2>2. Rank(live, 0) = 0
    BY <2>1, FS_EmptySet DEF Rank
  <2> QED BY <1>1, <1>6, <2>2
<1>14. Slice(words', wordsData'[0].start, wordsData'[0].length) = <<>>
  BY <1>9, <1>13 DEF IInv, PoolInv, OneIdPerWord
<1>15. ASSUME NEW p \in 0 .. Len(words') - 1
       PROVE  \E n \in 0 .. c - 1 : p \in BytesOf(wordsData'[n])
  <2>1. PICK k \in kept : Rank(kept, k) = p
    <3>1. p \in 0 .. Cardinality(kept) - 1
      BY <1>4
    <3> QED BY <1>4, <3>1, NthProperties
  <2>2. PICK id \in live : k \in BytesOf(wordsData[id])
    BY DEF kept, Bytes
  <2> DEFINE start == wordsData[id].start
             length == wordsData[id].length
  <2>3. start \in Nat /\ length \in Nat /\ k \in Nat /\ Rank(kept, start) \in Nat
    BY <1>4, <1>7
  <2>4. start <= k /\ k < start + length
    BY <2>2, <2>3 DEF BytesOf, EndOf
  <2>5. Rank(kept, start + length) = Rank(kept, start) + length
    BY <1>7 DEF EndOf
  <2> HIDE DEF start, length
  <2>6. Rank(kept, start) <= p /\ p < Rank(kept, start) + length
    <3>1. Rank(kept, start) <= Rank(kept, k)
      BY <1>4, <2>3, <2>4, RankMonotone
    <3>2. start + length \in Nat /\ k <= start + length
      BY <2>3, <2>4
    <3>3. Rank(kept, k) < Rank(kept, start + length)
      BY <1>4, <2>3, <2>4, <3>2, RankMonotone
    <3> QED BY <2>1, <2>5, <3>1, <3>3
  <2>7. /\ Rank(live, id) \in 0 .. c - 1
        /\ wordsData'[Rank(live, id)].start = Rank(kept, start)
        /\ wordsData'[Rank(live, id)].length = length
    BY <1>6, <1>8 DEF start, length
  <2>8. p \in BytesOf(wordsData'[Rank(live, id)])
    BY <2>3, <2>6, <2>7 DEF BytesOf, EndOf
  <2> QED BY <2>7, <2>8
<1>16. PoolInv'
  <2>1. OneIdPerWord'
    BY <1>2, <1>10, <1>12, <1>14 DEF OneIdPerWord, Get
  <2>2. NoOrphanSymbols'
    BY <1>2, <1>15 DEF NoOrphanSymbols, Bytes
  <2>3. \A id \in 0 .. c - 1 : EndOf(wordsData'[id]) <= Len(words')
    BY <1>9
  <2> QED BY <1>1, <1>2, <1>4, <1>11, <1>12, <2>1, <2>2, <2>3 DEF PoolInv
<1>17. ASSUME NEW id \in live, NEW n, n = Rank(live, id)
       PROVE  Slice(words', wordsData'[n].start, wordsData'[n].length) = Get(id)
  BY <1>6, <1>9, <1>17
<1>18. \A id \in live : \A n : n = Rank(live, id) => Get(n)' = Get(id)
  BY <1>17 DEF Get
<1>19. nextWordId' = Cardinality(live)
  BY <1>2 DEF c
<1>20. \A id \in live : Rank(live, id) \in 0 .. nextWordId' - 1
  BY <1>2, <1>6
<1> QED BY <1>16, <1>18, <1>19, <1>20

LEMMA CompactPreserves ==
    ASSUME IInv, NEW L \in SUBSET Values, Compact(L)
    PROVE  IInv'
<1> DEFINE live == {0} \cup {value[v] : v \in L}
<1>1. /\ \A o \in Operands : operand[o] # NoOperand => operand[o].fromTemporaries
      /\ CompactTo(live, Bytes(wordsData, live))
      /\ value' = [v \in Values |-> IF v \in L THEN Rank(live, value[v]) ELSE 0]
      /\ UNCHANGED <<scratch, operand>>
  BY DEF Compact, Remapped
<1>2. live \in SUBSET (0 .. nextWordId - 1) /\ 0 \in live
  BY LengthsAreNat DEF IInv, ValuesExist
<1>3. \A v \in L : value[v] \in live
  OBVIOUS
<1> HIDE DEF live
<1>4. /\ PoolInv' /\ \A id \in live : Rank(live, id) \in 0 .. nextWordId' - 1
  BY <1>1, <1>2, CompactToPreserves
<1>5. ValuesExist'
  <2>1. 0 \in 0 .. nextWordId' - 1
    <3>1. nextWordId' \in Nat \ {0}
      BY <1>4 DEF PoolInv
    <3>2. \A k \in Nat \ {0} : 0 \in 0 .. k - 1
      OBVIOUS
    <3> QED BY ONLY <3>1, <3>2
  <2> QED BY <1>1, <1>3, <1>4, <2>1 DEF ValuesExist
<1>6. temporaries' = temporaries /\ temporaryCount' = temporaryCount /\ operand' = operand
  BY <1>1 DEF scratch
<1>7. ScratchInv'
  BY <1>6 DEF IInv, ScratchInv, CountMatchesTemporaries, LiveTemporaries
<1>8. OperandsFit'
  BY <1>1, <1>6 DEF IInv, OperandsFit, FitsIn
<1> QED BY <1>4, <1>5, <1>7, <1>8 DEF IInv

\* The reader takes the largest end of a slice for the length of the pool; no
\* orphan symbols means it is the length.
LEMMA TotalLengthIsAll ==
    ASSUME IInv
    PROVE  TotalLength = Len(words)
<1> DEFINE ends == {EndOf(wordsData[id]) : id \in DOMAIN wordsData}
           n == nextWordId - 1
<1>1. /\ DOMAIN wordsData = 0 .. n /\ 0 \in 0 .. n /\ Len(words) \in Nat
      /\ \A id \in 0 .. n : EndOf(wordsData[id]) \in Nat /\ EndOf(wordsData[id]) <= Len(words)
  <2>1. DOMAIN wordsData = 0 .. n /\ 0 \in 0 .. n /\ Len(words) \in Nat
    BY LengthsAreNat DEF IInv, PoolInv
  <2>2. \A id \in 0 .. n : EndOf(wordsData[id]) \in Nat /\ EndOf(wordsData[id]) <= Len(words)
    BY GetIsWord DEF EndOf
  <2> QED BY <2>1, <2>2
<1>2. \E id \in 0 .. n : EndOf(wordsData[id]) = Len(words)
  <2>1. CASE Len(words) = 0
    BY <1>1, <2>1
  <2>2. CASE Len(words) # 0
    <3>1. Len(words) - 1 \in 0 .. Len(words) - 1
      BY <1>1, <2>2
    <3>2. PICK id \in 0 .. n : Len(words) - 1 \in BytesOf(wordsData[id])
      BY <3>1 DEF IInv, PoolInv, NoOrphanSymbols, Bytes
    <3>3. Len(words) - 1 <= EndOf(wordsData[id]) - 1
      BY <1>1, <3>2 DEF BytesOf
    <3> QED BY <1>1, <3>3
  <2> QED BY <2>1, <2>2
<1>3. Len(words) \in ends /\ \A id \in DOMAIN wordsData : EndOf(wordsData[id]) <= Len(words)
  BY <1>1, <1>2
<1>4. ASSUME NEW m \in ends, \A id \in DOMAIN wordsData : EndOf(wordsData[id]) <= m
      PROVE  m = Len(words)
  <2>1. m \in Nat /\ m <= Len(words)
    BY <1>1
  <2>2. Len(words) <= m
    BY <1>1, <1>2, <1>4
  <2> QED BY <1>1, <2>1, <2>2
<1> QED BY <1>3, <1>4 DEF TotalLength

LEMMA ReloadPreserves ==
    ASSUME IInv, Reload
    PROVE  IInv' /\ words' = words
<1>1. /\ temporaryCount = 0 /\ \A o \in Operands : operand[o] = NoOperand
      /\ words' = SubSeq(words, 1, TotalLength) /\ wordMap' = Rebuild(words', wordsData)
      /\ temporaries' = <<>> /\ temporaryCount' = 0
      /\ wordsData' = wordsData /\ nextWordId' = nextWordId /\ value' = value
      /\ operand' = operand
  BY DEF Reload
<1>2. words \in Seq(Symbols) /\ Len(words) \in Nat
  BY LengthsAreNat
<1>3. words' = words
  <2>1. 0 + Len(words) <= Len(words) /\ \A i \in 1 .. Len(words) : words[0 + i] = words[i]
    BY <1>2
  <2>2. Slice(words, 0, Len(words)) = words
    BY <1>2, <2>1, SliceIs
  <2> QED BY <1>1, <1>2, <2>2, TotalLengthIsAll DEF Slice
<1>4. wordMap' = wordMap
  <2>1. \A i, j \in 0 .. nextWordId - 1 : j < i => Get(j) # Get(i)
    <3>1. \A i, j \in 0 .. nextWordId - 1 : j < i => j # i
      BY LengthsAreNat
    <3> QED BY <3>1 DEF IInv, PoolInv, OneIdPerWord
  <2>2. DOMAIN wordsData = 0 .. nextWordId - 1 /\ wordMap = 0 .. nextWordId - 1
    BY DEF IInv, PoolInv, OneIdPerWord
  <2> QED BY <1>1, <1>3, <2>1, <2>2 DEF Rebuild, Get
<1>5. temporaries' = temporaries
  BY <1>1 DEF IInv, ScratchInv, CountMatchesTemporaries
<1> QED BY <1>1, <1>3, <1>4, <1>5, PoolUnchanged
        DEF IInv, pool, ScratchInv, CountMatchesTemporaries, LiveTemporaries, OperandsFit,
            ValuesExist
--------------------------------------------------------------------------------
(* The theorems.                                                             *)

LEMMA NextPreserves == IInv /\ [Next]_vars => IInv'
<1> SUFFICES ASSUME IInv, [Next]_vars
             PROVE  IInv'
  OBVIOUS
<1>1. ASSUME NEW v \in Values, NEW w \in Inputs, From(v, w)
      PROVE  IInv'
  BY <1>1, FromPreserves
<1>2. ASSUME NEW o \in Operands, NEW w \in Inputs, Own(o, w)
      PROVE  IInv'
  BY <1>2, InputsAssumption, ScratchPreserves DEF Own
<1>3. ASSUME NEW v \in Values, NEW o \in Operands, Convert(v, o) \/ AssignValue(o, v)
      PROVE  IInv'
  BY <1>3, ConvertPreserves, AssignValuePreserves
<1>4. ASSUME NEW o \in Operands, NEW x \in Handles, Widen(o, x) \/ Sub(o, x)
      PROVE  IInv'
  BY <1>4, WidenPreserves, SubPreserves
<1>5. ASSUME NEW o \in Operands, NEW x \in Handles, NEW y \in Handles,
             Mul(o, x, y) \/ InvMul(o, x, y) \/ Gcp(o, x, y)
      PROVE  IInv'
  BY <1>5, MulPreserves, InvMulPreserves, GcpPreserves
<1>6. ASSUME NEW o \in Operands, NEW p \in Operands, Assign(o, p)
      PROVE  IInv'
  BY <1>6, AssignPreserves
<1>7. ASSUME NEW o \in Operands, Destroy(o)
      PROVE  IInv'
  BY <1>7, DestroyPreserves
<1>8. ASSUME NEW L \in SUBSET Values, Compact(L)
      PROVE  IInv'
  BY <1>8, CompactPreserves
<1>9. ASSUME Reload
      PROVE  IInv'
  BY <1>9, ReloadPreserves
<1>10. ASSUME UNCHANGED vars
       PROVE  IInv'
  <2>1. PoolInv'
    BY <1>10, PoolUnchanged DEF vars, IInv
  <2> QED BY <1>10, <2>1 DEF IInv, vars, pool, scratch, ScratchInv, CountMatchesTemporaries,
                             LiveTemporaries, OperandsFit, ValuesExist
<1> QED BY <1>1, <1>2, <1>3, <1>4, <1>5, <1>6, <1>7, <1>8, <1>9, <1>10 DEF Next

\* The inductive invariant of the pool holds in every reachable state.
THEOREM Invariant == Spec => []IInv
<1>1. Init => IInv
  BY InitEstablishes
<1>2. IInv /\ [Next]_vars => IInv'
  BY NextPreserves
<1> QED BY <1>1, <1>2, PTL DEF Spec

\* Every variable keeps its type: in particular no client handle and no entry
\* of the hash set names an id the pool does not have.
THEOREM TypeCorrect == Spec => []TypeOK
<1>1. IInv => TypeOK
  BY DEF IInv, PoolInv, ScratchInv, ValuesExist, TypeOK
<1> QED BY <1>1, Invariant, PTL

\* The scratch vector is cleared when, and only when, its last Operand dies.
THEOREM CountIsExact == Spec => []CountMatchesTemporaries
<1>1. IInv => CountMatchesTemporaries
  BY DEF IInv, ScratchInv
<1> QED BY <1>1, Invariant, PTL

\* No handle outlives the symbols it points at.
THEOREM SlicesStayInside == Spec => []NoDanglingSlice
<1>1. IInv => NoDanglingSlice
  BY DEF IInv, PoolInv, OperandsFit, FitsIn, NoDanglingSlice
<1> QED BY <1>1, Invariant, PTL

\* Comparing two Values by id is comparing their words.
THEOREM IdsAreWords == Spec => []OneIdPerWord
<1>1. IInv => OneIdPerWord
  BY DEF IInv, PoolInv
<1> QED BY <1>1, Invariant, PTL

\* What serialize() writes is exactly what the reader consumes.
THEOREM SerializedExactly == Spec => []NoOrphanSymbols
<1>1. IInv => NoOrphanSymbols
  BY DEF IInv, PoolInv
<1> QED BY <1>1, Invariant, PTL
--------------------------------------------------------------------------------
(* The pool computes in the free monoid: what its operations do to the words *)
(* the handles denote.                                                       *)

\* The slice an Operand denotes in given vectors.
View(op, mem, temps) == Slice(IF op.fromTemporaries THEN temps ELSE mem, op.start, op.length)

\* A handle denotes its content as long as it is alive.
LEMMA ContentsOf ==
    ASSUME IInv, NEW x \in Handles
    PROVE  /\ Alive(x) <=> Abstract!Alive(x)
           /\ Alive(x) => contents[x] = Content(x) /\ contents[x] \in Seq(Symbols)
           /\ ~Alive(x) => contents[x] = NoOperand
<1>1. Alive(x) => Content(x) \in Seq(Symbols)
  BY LiveHandle
<1> QED BY <1>1, HandlesAssumption DEF contents, Abstract!Alive

\* One handle is given a word and the others denote what they did.
LEMMA PutsOne ==
    ASSUME NEW o \in Handles, NEW w,
           IF Alive(o)' THEN Content(o)' = w ELSE w = NoOperand,
           \A x \in Handles \ {o} :
               (Alive(x)' <=> Alive(x)) /\ (Alive(x) => Content(x)' = Content(x))
    PROVE  Abstract!Put(o, w)
BY DEF Abstract!Put, contents

\* A live handle denotes the same word when its vector only grew.
LEMMA SameContent ==
    ASSUME IInv, NEW x \in Handles, Alive(x), AsOperand(x)' = AsOperand(x),
           NEW u \in Seq(Symbols), words' = words \o u,
           NEW w \in Seq(Symbols),
           AsOperand(x).fromTemporaries => temporaries' = temporaries \o w
    PROVE  Content(x)' = Content(x)
<1> DEFINE op == AsOperand(x)
<1>1. /\ op \in Operand /\ op.start \in Nat /\ op.length \in Nat /\ Fits(op)
      /\ words \in Seq(Symbols) /\ temporaries \in Seq(Symbols)
  BY LiveHandle, LengthsAreNat
<1>2. Content(x) = View(op, words, temporaries) /\ Content(x)' = View(op, words', temporaries')
  BY DEF Content, GetOperand, View
<1> HIDE DEF op
<1>3. CASE op.fromTemporaries
  <2>1. op.start + op.length <= Len(temporaries) /\ temporaries' = temporaries \o w
    BY <1>1, <1>3 DEF Fits, FitsIn, EndOf, op
  <2> QED BY <1>1, <1>2, <1>3, <2>1, SliceOfExtension DEF View
<1>4. CASE ~op.fromTemporaries
  <2>1. op.start + op.length <= Len(words)
    BY <1>1, <1>4 DEF Fits, FitsIn, EndOf
  <2> QED BY <1>1, <1>2, <1>4, <2>1, SliceOfExtension DEF View
<1> QED BY <1>3, <1>4

\* A Value is passed on as the slice of its id.
LEMMA OperandOf ==
    ASSUME NEW x \in Handles
    PROVE  /\ x \in Operands => x \notin Values /\ AsOperand(x) = operand[x]
           /\ x \in Values => x \notin Operands /\ Alive(x) /\ Content(x) = Get(value[x])
BY HandlesAssumption DEF AsOperand, Alive, Content, GetOperand, Get

\* Every constructor puts the word of its slice.
LEMMA ConstructPuts ==
    ASSUME IInv, NEW o \in Operands, NEW op \in Operand, Construct(o, op),
           UNCHANGED <<pool, value>>, NEW w \in Seq(Symbols), temporaries' = temporaries \o w
    PROVE  ~Abstract!Alive(o) /\ Abstract!Put(o, View(op, words, temporaries'))
<1>1. /\ operand[o] = NoOperand /\ operand' = [operand EXCEPT ![o] = op]
      /\ operand \in [Operands -> Operand \cup {NoOperand}] /\ op # NoOperand
      /\ words' = words /\ wordsData' = wordsData /\ value' = value
  BY HandlesAssumption DEF Construct, IInv, ScratchInv, pool, Operand
<1>2. o \in Handles /\ o \notin Values
  BY HandlesAssumption DEF Handles
<1>3. ~Abstract!Alive(o)
  BY <1>1, <1>2, ContentsOf DEF Alive
<1>4. Alive(o)' /\ Content(o)' = View(op, words, temporaries')
  BY <1>1, <1>2 DEF Alive, Content, GetOperand, View, AsOperand
<1>5. ASSUME NEW x \in Handles \ {o}
      PROVE  (Alive(x)' <=> Alive(x)) /\ (Alive(x) => Content(x)' = Content(x))
  <2>1. (Alive(x)' <=> Alive(x)) /\ AsOperand(x)' = AsOperand(x)
    BY <1>1, <1>5 DEF Alive, AsOperand, Handles
  <2>2. words' = words \o <<>> /\ <<>> \in Seq(Symbols)
    BY <1>1, LengthsAreNat, ConcatEmptySeq, EmptySeq
  <2> QED BY <2>1, <2>2, SameContent
<1> QED BY <1>2, <1>3, <1>4, <1>5, PutsOne

\* An Operand that views live symbols is put, and nothing is appended.
LEMMA ViewPuts ==
    ASSUME IInv, NEW o \in Operands, NEW op \in Operand, Construct(o, op),
           UNCHANGED <<pool, temporaries, value>>
    PROVE  ~Abstract!Alive(o) /\ Abstract!Put(o, View(op, words, temporaries))
<1>1. temporaries' = temporaries \o <<>> /\ <<>> \in Seq(Symbols)
  BY LengthsAreNat, ConcatEmptySeq, EmptySeq
<1>2. UNCHANGED <<pool, value>> /\ temporaries' = temporaries
  OBVIOUS
<1> QED BY <1>1, <1>2, ConstructPuts

LEMMA WidenComputes ==
    ASSUME IInv, NEW o \in Operands, NEW x \in Handles, Widen(o, x)
    PROVE  Abstract!Widen(o, x)
<1>1. Alive(x) /\ Construct(o, AsOperand(x)) /\ UNCHANGED <<pool, temporaries, value>>
  BY DEF Widen
<1>2. AsOperand(x) \in Operand /\ contents[x] = View(AsOperand(x), words, temporaries)
  BY <1>1, LiveHandle, ContentsOf DEF Content, GetOperand, View
<1>3. ~Abstract!Alive(o) /\ Abstract!Put(o, contents[x])
  BY <1>1, <1>2, ViewPuts
<1> QED BY <1>1, <1>3, ContentsOf DEF Abstract!Widen

\* A part of a live handle is a part of its word.
LEMMA PartOfContent ==
    ASSUME IInv, NEW x \in Handles, Alive(x), NEW s \in Nat, NEW l \in Nat,
           s + l <= AsOperand(x).length
    PROVE  /\ Part(AsOperand(x), s, l) \in Operand
           /\ View(Part(AsOperand(x), s, l), words, temporaries)
                = SubSeq(contents[x], s + 1, s + l)
<1> DEFINE op == AsOperand(x)
           part == Part(op, s, l)
           mem == IF op.fromTemporaries THEN temporaries ELSE words
<1>1. /\ op \in Operand /\ op.start \in Nat /\ op.length \in Nat /\ Fits(op)
      /\ mem \in Seq(Symbols) /\ contents[x] = Slice(mem, op.start, op.length)
  BY LiveHandle, LengthsAreNat, ContentsOf DEF Content, GetOperand
<1>2. op.start + op.length <= Len(mem)
  BY <1>1 DEF Fits, FitsIn, EndOf
<1> HIDE DEF op
<1>3. /\ part \in Operand /\ part.start = op.start + s /\ part.length = l
      /\ part.fromTemporaries = op.fromTemporaries
  BY <1>1, PartFits DEF op
<1> HIDE DEF part, mem
<1>4. Slice(mem, op.start + s, l) = Slice(Slice(mem, op.start, op.length), s, l)
  BY <1>1, <1>2, SliceOfSlice DEF op
<1> QED BY <1>1, <1>3, <1>4 DEF View, Slice, op, part, mem

LEMMA SubComputes ==
    ASSUME IInv, NEW o \in Operands, NEW x \in Handles, Sub(o, x)
    PROVE  Abstract!Sub(o, x)
<1>1. PICK s, l \in 0 .. AsOperand(x).length :
          s + l <= AsOperand(x).length /\ Construct(o, Part(AsOperand(x), s, l))
  BY DEF Sub
<1>2. Alive(x) /\ UNCHANGED <<pool, temporaries, value>>
  BY DEF Sub
<1>3. s \in Nat /\ l \in Nat /\ Len(contents[x]) = AsOperand(x).length
  BY <1>2, LiveHandle, ContentsOf
<1>4. /\ Part(AsOperand(x), s, l) \in Operand
      /\ View(Part(AsOperand(x), s, l), words, temporaries) = SubSeq(contents[x], s + 1, s + l)
  BY <1>1, <1>2, <1>3, PartOfContent
<1>5. ~Abstract!Alive(o) /\ Abstract!Put(o, SubSeq(contents[x], s + 1, s + l))
  BY <1>1, <1>2, <1>4, ViewPuts
<1> QED BY <1>1, <1>2, <1>3, <1>5, ContentsOf DEF Abstract!Sub

LEMMA InvMulComputes ==
    ASSUME IInv, NEW o \in Operands, NEW x \in Handles, NEW y \in Handles, InvMul(o, x, y)
    PROVE  Abstract!InvMul(o, x, y)
<1> DEFINE a == AsOperand(x).length
           b == AsOperand(y).length
<1>1. /\ Alive(x) /\ Alive(y) /\ UNCHANGED <<pool, temporaries, value>>
      /\ Agree(Content(x), Content(y), a) /\ Construct(o, Part(AsOperand(y), a, b - a))
  BY DEF InvMul
<1>2. /\ a \in Nat /\ b \in Nat /\ contents[x] = Content(x) /\ contents[y] = Content(y)
      /\ Len(contents[x]) = a /\ Len(contents[y]) = b
  BY <1>1, LiveHandle, ContentsOf
<1>3. a <= b /\ Abstract!Agree(contents[x], contents[y], Len(contents[x]))
  BY <1>1, <1>2 DEF Agree, Abstract!Agree
<1> HIDE DEF a, b
<1> DEFINE c == b - a
<1>4. c \in Nat /\ a + c = b
  BY <1>2, <1>3
<1> HIDE DEF c
<1>5. /\ Part(AsOperand(y), a, c) \in Operand
      /\ View(Part(AsOperand(y), a, c), words, temporaries) = SubSeq(contents[y], a + 1, a + c)
  <2>1. a + c <= AsOperand(y).length
    BY <1>2, <1>4 DEF b
  <2> QED BY <1>1, <1>2, <1>4, <2>1, PartOfContent
<1>6. ~Abstract!Alive(o) /\ Abstract!Put(o, SubSeq(contents[y], a + 1, b))
  BY <1>1, <1>4, <1>5, ViewPuts DEF c
<1> QED BY <1>1, <1>2, <1>3, <1>6, ContentsOf DEF Abstract!InvMul

LEMMA GcpComputes ==
    ASSUME IInv, NEW o \in Operands, NEW x \in Handles, NEW y \in Handles, Gcp(o, x, y)
    PROVE  Abstract!Gcp(o, x, y)
<1> DEFINE n == GcpLen(Content(x), Content(y))
<1>1. /\ Alive(x) /\ Alive(y) /\ UNCHANGED <<pool, temporaries, value>>
      /\ Construct(o, Part(AsOperand(x), 0, n))
  BY DEF Gcp
<1>2. /\ contents[x] = Content(x) /\ contents[y] = Content(y)
      /\ contents[x] \in Seq(Symbols) /\ contents[y] \in Seq(Symbols)
      /\ AsOperand(x).length \in Nat /\ Len(contents[x]) = AsOperand(x).length
  BY <1>1, LiveHandle, ContentsOf
<1>3. n = Abstract!GcpLen(contents[x], contents[y])
  BY <1>2 DEF GcpLen, Abstract!GcpLen, Agree, Abstract!Agree
<1>4. n \in 0 .. AsOperand(x).length
  BY <1>2, GcpLenProperties
<1> HIDE DEF n
<1>5. n \in Nat /\ 0 \in Nat /\ 0 + n <= AsOperand(x).length /\ 0 + 1 = 1 /\ 0 + n = n
  BY <1>2, <1>4
<1>6. /\ Part(AsOperand(x), 0, n) \in Operand
      /\ View(Part(AsOperand(x), 0, n), words, temporaries) = SubSeq(contents[x], 0 + 1, 0 + n)
  BY <1>1, <1>5, PartOfContent
<1>7. ~Abstract!Alive(o) /\ Abstract!Put(o, SubSeq(contents[x], 1, n))
  BY <1>1, <1>5, <1>6, ViewPuts
<1> QED BY <1>1, <1>3, <1>7, ContentsOf DEF Abstract!Gcp

\* A new temporary denotes what was appended.
LEMMA ScratchPuts ==
    ASSUME IInv, NEW o \in Operands, NEW w \in Seq(Symbols), Scratch(o, w)
    PROVE  ~Abstract!Alive(o) /\ Abstract!Put(o, w)
<1> DEFINE op == [start |-> Len(temporaries), length |-> Len(w), fromTemporaries |-> TRUE]
<1>1. temporaries' = temporaries \o w /\ Construct(o, op) /\ UNCHANGED <<pool, value>>
  BY DEF Scratch
<1>2. Len(temporaries) \in Nat /\ temporaries \in Seq(Symbols) /\ Len(w) \in Nat
  BY LengthsAreNat, LenProperties
<1>3. op \in Operand /\ View(op, words, temporaries') = Slice(temporaries \o w, Len(temporaries), Len(w))
  BY <1>1, <1>2 DEF Operand, View
<1> HIDE DEF op
<1>4. View(op, words, temporaries') = w
  BY <1>2, <1>3, SliceOfAppended
<1> QED BY <1>1, <1>3, <1>4, ConstructPuts

LEMMA MulComputes ==
    ASSUME IInv, NEW o \in Operands, NEW x \in Handles, NEW y \in Handles, Mul(o, x, y)
    PROVE  Abstract!Mul(o, x, y)
<1>1. Alive(x) /\ Alive(y) /\ Scratch(o, Content(x) \o Content(y))
  BY DEF Mul
<1>2. /\ contents[x] = Content(x) /\ contents[y] = Content(y)
      /\ Content(x) \in Seq(Symbols) /\ Content(y) \in Seq(Symbols)
  BY <1>1, ContentsOf, LiveHandle
<1>3. Content(x) \o Content(y) \in Seq(Symbols)
  BY <1>2, ConcatProperties
<1>4. ~Abstract!Alive(o) /\ Abstract!Put(o, contents[x] \o contents[y])
  BY <1>1, <1>2, <1>3, ScratchPuts
<1> QED BY <1>1, <1>4, ContentsOf DEF Abstract!Mul

LEMMA OwnComputes ==
    ASSUME IInv, NEW o \in Operands, NEW w \in Inputs, Own(o, w)
    PROVE  Abstract!Own(o, w)
BY InputsAssumption, ScratchPuts DEF Own, Abstract!Own

\* The scratch vector is cleared under nobody but its last temporary.
LEMMA ClearedUnderNobody ==
    ASSUME IInv, NEW o \in Operands, operand[o] # NoOperand, NEW created,
           Release(operand[o], created), NEW p \in LiveTemporaries, p # o
    PROVE  temporaries' = temporaries
<1>1. CASE operand[o].fromTemporaries /\ temporaryCount = 1
  <2>1. o \in LiveTemporaries
    BY <1>1 DEF LiveTemporaries
  <2> QED BY <1>1, <2>1, CountOfOthers
<1> QED BY <1>1 DEF Release

\* An Operand that ends, or takes another value, leaves the others alone.
LEMMA ReleasePuts ==
    ASSUME IInv, NEW o \in Operands, NEW new \in Operand \cup {NoOperand}, NEW created,
           operand[o] # NoOperand, operand' = [operand EXCEPT ![o] = new],
           Release(operand[o], created), UNCHANGED <<pool, value>>,
           new # NoOperand /\ new.fromTemporaries => \E p \in LiveTemporaries : p # o
    PROVE  /\ Abstract!Alive(o)
           /\ Abstract!Put(o, IF new = NoOperand THEN NoOperand ELSE View(new, words, temporaries))
<1>1. /\ operand \in [Operands -> Operand \cup {NoOperand}]
      /\ words' = words /\ wordsData' = wordsData /\ value' = value
  BY DEF IInv, ScratchInv, pool
<1>2. o \in Handles /\ o \notin Values /\ Alive(o)
  BY HandlesAssumption DEF Handles, Alive
<1>3. Abstract!Alive(o)
  BY <1>2, ContentsOf
<1>4. operand'[o] = new /\ \A p \in Operands \ {o} : operand'[p] = operand[p]
  BY <1>1
<1>5. ASSUME new = NoOperand
      PROVE  ~Alive(o)'
  BY <1>2, <1>4, <1>5 DEF Alive
<1>6. ASSUME new # NoOperand
      PROVE  Alive(o)' /\ Content(o)' = View(new, words, temporaries)
  <2>1. Alive(o)' /\ Content(o)' = View(new, words, temporaries')
    BY <1>1, <1>2, <1>4, <1>6 DEF Alive, Content, GetOperand, View, AsOperand
  <2>2. new.fromTemporaries => temporaries' = temporaries
    BY <1>6, ClearedUnderNobody
  <2> QED BY <2>1, <2>2 DEF View
<1>7. ASSUME NEW x \in Handles \ {o}
      PROVE  (Alive(x)' <=> Alive(x)) /\ (Alive(x) => Content(x)' = Content(x))
  <2>1. (Alive(x)' <=> Alive(x)) /\ AsOperand(x)' = AsOperand(x)
    BY <1>1, <1>4, <1>7 DEF Alive, AsOperand, Handles
  <2>2. ASSUME Alive(x), AsOperand(x).fromTemporaries
        PROVE  temporaries' = temporaries
    <3>1. x \in LiveTemporaries
      BY <2>2, <1>7 DEF AsOperand, LiveTemporaries, Alive, Handles
    <3> QED BY <1>7, <3>1, ClearedUnderNobody
  <2> QED BY <1>1, <2>1, <2>2 DEF Content, GetOperand
<1> QED BY <1>2, <1>3, <1>4, <1>5, <1>6, <1>7, PutsOne

LEMMA DestroyComputes ==
    ASSUME IInv, NEW o \in Operands, Destroy(o)
    PROVE  Abstract!Destroy(o)
<1>1. /\ operand[o] # NoOperand /\ operand' = [operand EXCEPT ![o] = NoOperand]
      /\ Release(operand[o], 0) /\ UNCHANGED <<pool, value>>
  BY DEF Destroy
<1>2. Abstract!Alive(o) /\ Abstract!Put(o, NoOperand)
  BY <1>1, ReleasePuts
<1> QED BY <1>2 DEF Abstract!Destroy

LEMMA AssignComputes ==
    ASSUME IInv, NEW o \in Operands, NEW p \in Operands, Assign(o, p)
    PROVE  Abstract!Assign(o, p)
<1> DEFINE new == operand[p]
<1>1. /\ operand[o] # NoOperand /\ new # NoOperand /\ o # p
      /\ operand' = [operand EXCEPT ![o] = new]
      /\ Release(operand[o], References(new)) /\ UNCHANGED <<pool, value>>
      /\ new \in Operand \cup {NoOperand}
  BY DEF Assign, IInv, ScratchInv
<1>2. new.fromTemporaries => p \in LiveTemporaries
  BY <1>1 DEF LiveTemporaries
<1>3. p \in Handles /\ Alive(p) /\ Content(p) = View(new, words, temporaries)
  BY <1>1, OperandOf DEF Handles, Alive, Content, GetOperand, View
<1> HIDE DEF new
<1>4. Abstract!Alive(o) /\ Abstract!Put(o, View(new, words, temporaries))
  BY <1>1, <1>2, ReleasePuts
<1> QED BY <1>3, <1>4, ContentsOf DEF Abstract!Assign

LEMMA AssignValueComputes ==
    ASSUME IInv, NEW o \in Operands, NEW v \in Values, AssignValue(o, v)
    PROVE  Abstract!Assign(o, v)
<1> DEFINE new == AsOperand(v)
<1>1. /\ operand[o] # NoOperand /\ operand' = [operand EXCEPT ![o] = new]
      /\ Release(operand[o], 0) /\ UNCHANGED <<pool, value>>
  BY DEF AssignValue
<1>2. v \in Handles /\ Alive(v) /\ new \in Operand /\ new.fromTemporaries = FALSE
  <2>1. v \in Handles /\ Alive(v)
    BY OperandOf DEF Handles
  <2> QED BY <2>1, LiveHandle DEF AsOperand
<1>3. Content(v) = View(new, words, temporaries) /\ new # NoOperand
  BY <1>2, HandlesAssumption DEF Content, GetOperand, View, Operand
<1> HIDE DEF new
<1>4. Abstract!Alive(o) /\ Abstract!Put(o, View(new, words, temporaries))
  BY <1>1, <1>2, <1>3, ReleasePuts
<1> QED BY <1>2, <1>3, <1>4, ContentsOf DEF Abstract!Assign

\* A Value takes the id of a word; what was in the pool stays where it was.
LEMMA InternPuts ==
    ASSUME IInv, NEW v \in Values, NEW id, NEW u \in Seq(Symbols),
           value' = [value EXCEPT ![v] = id], words' = words \o u,
           UNCHANGED <<scratch, operand>>,
           \A i \in 0 .. nextWordId - 1 : wordsData'[i] = wordsData[i]
    PROVE  Abstract!Put(v, Slice(words \o u, wordsData'[id].start, wordsData'[id].length))
<1>1. /\ value \in [Values -> 0 .. nextWordId - 1]
      /\ temporaries' = temporaries /\ operand' = operand
  BY DEF IInv, ValuesExist, scratch
<1>2. v \in Handles /\ v \notin Operands
  BY OperandOf DEF Handles
<1>3. Alive(v)' /\ Content(v)' = Slice(words \o u, wordsData'[id].start, wordsData'[id].length)
  BY <1>1, <1>2 DEF Alive, Content, GetOperand, AsOperand
<1>4. ASSUME NEW x \in Handles \ {v}
      PROVE  (Alive(x)' <=> Alive(x)) /\ (Alive(x) => Content(x)' = Content(x))
  <2>1. Alive(x)' <=> Alive(x)
    BY <1>1 DEF Alive
  <2>2. AsOperand(x)' = AsOperand(x)
    BY <1>1, <1>4 DEF AsOperand
  <2>3. temporaries' = temporaries \o <<>> /\ <<>> \in Seq(Symbols)
    BY <1>1, LengthsAreNat, ConcatEmptySeq, EmptySeq
  <2> QED BY <2>1, <2>2, <2>3, SameContent
<1> QED BY <1>2, <1>3, <1>4, PutsOne

LEMMA FoundPuts ==
    ASSUME IInv, NEW v \in Values, NEW w, Found(v, w), UNCHANGED <<scratch, operand>>
    PROVE  Abstract!Put(v, w)
<1>1. PICK id \in wordMap : Get(id) = w /\ value' = [value EXCEPT ![v] = id]
  BY DEF Found
<1>2. /\ words' = words \o <<>> /\ words \o <<>> = words /\ <<>> \in Seq(Symbols)
      /\ wordsData' = wordsData
  BY LengthsAreNat, ConcatEmptySeq, EmptySeq DEF Found, pool
<1>3. Abstract!Put(v, Slice(words \o <<>>, wordsData'[id].start, wordsData'[id].length))
  BY <1>1, <1>2, InternPuts
<1> QED BY <1>1, <1>2, <1>3 DEF Get

LEMMA RegisterPuts ==
    ASSUME IInv, NEW v \in Values, NEW d \in WordData, NEW u \in Seq(Symbols),
           Register(v, d), words' = words \o u, UNCHANGED <<scratch, operand>>
    PROVE  Abstract!Put(v, Slice(words \o u, d.start, d.length))
<1>1. /\ wordsData' = [i \in 0 .. nextWordId |-> IF i = nextWordId THEN d ELSE wordsData[i]]
      /\ value' = [value EXCEPT ![v] = nextWordId]
  BY DEF Register
<1>2. /\ nextWordId \in 0 .. nextWordId
      /\ \A i \in 0 .. nextWordId - 1 : i \in 0 .. nextWordId /\ i # nextWordId
  BY LengthsAreNat
<1>3. wordsData'[nextWordId] = d /\ \A i \in 0 .. nextWordId - 1 : wordsData'[i] = wordsData[i]
  BY <1>1, <1>2
<1>4. Abstract!Put(v, Slice(words \o u, wordsData'[nextWordId].start, wordsData'[nextWordId].length))
  BY <1>1, <1>3, InternPuts
<1> QED BY <1>3, <1>4

LEMMA AddUniquePuts ==
    ASSUME IInv, NEW v \in Values, NEW w \in Seq(Symbols),
           AddUnique(v, w), UNCHANGED <<scratch, operand>>
    PROVE  Abstract!Put(v, w)
<1>1. CASE Found(v, w)
  BY <1>1, FoundPuts
<1>2. CASE words' = words \o w /\ Register(v, [start |-> Len(words), length |-> Len(w)])
  <2>1. [start |-> Len(words), length |-> Len(w)] \in WordData
    BY LengthsAreNat, LenProperties DEF WordData
  <2>2. Abstract!Put(v, Slice(words \o w, Len(words), Len(w)))
    BY <1>2, <2>1, RegisterPuts
  <2> QED BY <2>2, LengthsAreNat, SliceOfAppended
<1> QED BY <1>1, <1>2 DEF AddUnique

LEMMA AddUniqueInfixPuts ==
    ASSUME IInv, NEW v \in Values, NEW start \in Nat, NEW length \in Nat,
           AddUniqueInfix(v, start, length), UNCHANGED <<scratch, operand>>
    PROVE  Abstract!Put(v, Slice(words, start, length))
<1>1. CASE Found(v, Slice(words, start, length))
  BY <1>1, FoundPuts
<1>2. CASE Register(v, [start |-> start, length |-> length]) /\ UNCHANGED words
  <2>1. [start |-> start, length |-> length] \in WordData
    BY DEF WordData
  <2>2. words' = words \o <<>> /\ words \o <<>> = words /\ <<>> \in Seq(Symbols)
    BY <1>2, LengthsAreNat, ConcatEmptySeq, EmptySeq
  <2>3. Abstract!Put(v, Slice(words \o <<>>, start, length))
    BY <1>2, <2>1, <2>2, RegisterPuts
  <2> QED BY <2>2, <2>3
<1> QED BY <1>1, <1>2 DEF AddUniqueInfix

LEMMA FromComputes ==
    ASSUME IInv, NEW v \in Values, NEW w \in Inputs, From(v, w)
    PROVE  Abstract!From(v, w)
BY InputsAssumption, AddUniquePuts DEF From, Abstract!From

\* The Operand's word, whichever vector it is in, is interned.
LEMMA ConvertComputes ==
    ASSUME IInv, NEW v \in Values, NEW o \in Operands, Convert(v, o)
    PROVE  Abstract!Assign(v, o)
<1> DEFINE op == operand[o]
<1>1. /\ op # NoOperand /\ UNCHANGED <<scratch, operand>>
      /\ IF op.fromTemporaries THEN AddUnique(v, GetOperand(op))
                               ELSE AddUniqueInfix(v, op.start, op.length)
  BY DEF Convert
<1>2. o \in Handles /\ v \in Handles /\ Alive(o) /\ Alive(v) /\ AsOperand(o) = op
  BY <1>1, OperandOf DEF Handles, Alive
<1>3. /\ op.start \in Nat /\ op.length \in Nat /\ contents[o] = GetOperand(op)
      /\ GetOperand(op) \in Seq(Symbols)
  BY <1>2, LiveHandle, ContentsOf DEF Content
<1> HIDE DEF op
<1>4. Abstract!Put(v, contents[o])
  <2>1. CASE op.fromTemporaries
    BY <1>1, <1>3, <2>1, AddUniquePuts
  <2>2. CASE ~op.fromTemporaries
    BY <1>1, <1>3, <2>2, AddUniqueInfixPuts DEF GetOperand
  <2> QED BY <2>1, <2>2
<1> QED BY <1>2, <1>4, ContentsOf DEF Abstract!Assign

\* What survives a compaction denotes what it did; what is dropped is the
\* identity.
LEMMA CompactComputes ==
    ASSUME IInv, NEW L \in SUBSET Values, Compact(L)
    PROVE  Abstract!Compact(L)
<1> DEFINE live == {0} \cup {value[v] : v \in L}
<1>1. /\ \A o \in Operands : operand[o] # NoOperand => operand[o].fromTemporaries
      /\ CompactTo(live, Bytes(wordsData, live))
      /\ value' = [v \in Values |-> IF v \in L THEN Rank(live, value[v]) ELSE 0]
      /\ temporaries' = temporaries /\ operand' = operand
  BY DEF Compact, Remapped, scratch
<1>2. live \in SUBSET (0 .. nextWordId - 1) /\ 0 \in live
  BY LengthsAreNat DEF IInv, ValuesExist
<1>3. \A v \in L : value[v] \in live
  OBVIOUS
<1> HIDE DEF live
<1>4. /\ PoolInv'
      /\ \A id \in live : \A n : n = Rank(live, id) => Get(n)' = Get(id)
  BY <1>1, <1>2, CompactToPreserves
<1>5. ASSUME NEW x \in Values
      PROVE  Alive(x)' /\ Content(x)' = IF x \in L THEN Content(x) ELSE <<>>
  <2>1. /\ x \notin Operands /\ Alive(x)' /\ Content(x) = Get(value[x])
        /\ Content(x)' = Slice(words', wordsData'[value'[x]].start, wordsData'[value'[x]].length)
    BY OperandOf DEF Handles, Alive, Content, GetOperand, AsOperand
  <2>2. CASE x \in L
    <3>1. value'[x] = Rank(live, value[x]) /\ value[x] \in live
      BY <1>1, <1>3, <2>2
    <3> QED BY <1>4, <2>1, <2>2, <3>1 DEF Get
  <2>3. CASE x \notin L
    <3>1. value'[x] = 0
      BY <1>1, <2>3
    <3>2. Slice(words', wordsData'[0].start, wordsData'[0].length) = <<>>
      BY <1>4 DEF PoolInv, OneIdPerWord, Get
    <3> QED BY <2>1, <2>3, <3>1, <3>2
  <2> QED BY <2>2, <2>3
<1>6. ASSUME NEW o \in Operands
      PROVE  (Alive(o)' <=> Alive(o)) /\ (Alive(o) => Content(o)' = Content(o))
  <2>1. o \notin Values /\ operand'[o] = operand[o]
    BY <1>1, OperandOf DEF Handles
  <2>2. Alive(o) => operand[o].fromTemporaries
    BY <1>1 DEF Alive
  <2> QED BY <1>1, <2>1, <2>2 DEF Alive, Content, GetOperand, AsOperand
<1>7. ASSUME NEW x \in Handles
      PROVE  contents'[x] = IF x \in Values \ L THEN <<>> ELSE contents[x]
  <2>1. CASE x \in Values
    BY <1>5, <2>1, OperandOf DEF contents
  <2>2. CASE x \in Operands
    BY <1>6, <2>2, OperandOf DEF contents
  <2> QED BY <2>1, <2>2 DEF Handles
<1> QED BY <1>7 DEF Abstract!Compact, Abstract!Handles, Handles, contents

\* No Operand crosses a reload, and every Value still names its slice.
LEMMA ReloadKeeps ==
    ASSUME IInv, Reload
    PROVE  UNCHANGED contents
<1>1. /\ words' = words /\ wordsData' = wordsData /\ value' = value /\ operand' = operand
      /\ \A o \in Operands : operand[o] = NoOperand
  BY ReloadPreserves DEF Reload
<1>2. ASSUME NEW x \in Handles
      PROVE  contents'[x] = contents[x]
  <2>1. CASE x \in Values
    BY <1>1, <2>1, OperandOf DEF contents, Alive, Content, GetOperand, AsOperand
  <2>2. CASE x \in Operands
    BY <1>1, <2>2 DEF contents, Alive
  <2> QED BY <2>1, <2>2 DEF Handles
<1> QED BY <1>2 DEF contents

LEMMA InitIsAbstract == Init => Abstract!Init
<1> SUFFICES ASSUME Init
             PROVE  Abstract!Init
  OBVIOUS
<1>1. IInv /\ value = [v \in Values |-> 0] /\ operand = [o \in Operands |-> NoOperand]
  BY InitEstablishes DEF Init
<1>2. ASSUME NEW x \in Handles
      PROVE  contents[x] = IF x \in Values THEN <<>> ELSE NoOperand
  <2>1. CASE x \in Values
    BY <1>1, <2>1, OperandOf DEF contents, IInv, PoolInv, OneIdPerWord
  <2>2. CASE x \notin Values
    BY <1>1, <2>2 DEF contents, Alive, Handles
  <2> QED BY <2>1, <2>2
<1> QED BY <1>2 DEF Abstract!Init, Abstract!Handles, Handles, contents

LEMMA StutterKeeps == UNCHANGED vars => UNCHANGED contents
BY DEF vars, pool, scratch, contents, Alive, Content, GetOperand, AsOperand

\* Every step of the pool is the step of the free monoid it is named after.
LEMMA NextIsAbstract == IInv /\ [Next]_vars => [Abstract!Next]_contents
<1> SUFFICES ASSUME IInv, [Next]_vars
             PROVE  [Abstract!Next]_contents
  OBVIOUS
<1>1. ASSUME NEW v \in Values, NEW w \in Inputs, From(v, w)
      PROVE  Abstract!Next
  BY <1>1, FromComputes DEF Abstract!Next
<1>2. ASSUME NEW o \in Operands, NEW w \in Inputs, Own(o, w)
      PROVE  Abstract!Next
  BY <1>2, OwnComputes DEF Abstract!Next
<1>3. ASSUME NEW v \in Values, NEW o \in Operands, Convert(v, o) \/ AssignValue(o, v)
      PROVE  Abstract!Next
  <2>1. v \in Abstract!Handles /\ o \in Abstract!Handles
    BY DEF Abstract!Handles
  <2>2. Abstract!Assign(v, o) \/ Abstract!Assign(o, v)
    BY <1>3, ConvertComputes, AssignValueComputes
  <2> QED BY <2>1, <2>2 DEF Abstract!Next
<1>4. ASSUME NEW o \in Operands, NEW x \in Handles, Widen(o, x) \/ Sub(o, x)
      PROVE  Abstract!Next
  BY <1>4, WidenComputes, SubComputes DEF Abstract!Next, Abstract!Handles, Handles
<1>5. ASSUME NEW o \in Operands, NEW x \in Handles, NEW y \in Handles,
             Mul(o, x, y) \/ InvMul(o, x, y) \/ Gcp(o, x, y)
      PROVE  Abstract!Next
  BY <1>5, MulComputes, InvMulComputes, GcpComputes DEF Abstract!Next, Abstract!Handles, Handles
<1>6. ASSUME NEW o \in Operands, NEW p \in Operands, Assign(o, p)
      PROVE  Abstract!Next
  BY <1>6, AssignComputes DEF Abstract!Next, Abstract!Handles
<1>7. ASSUME NEW o \in Operands, Destroy(o)
      PROVE  Abstract!Next
  BY <1>7, DestroyComputes DEF Abstract!Next
<1>8. ASSUME NEW L \in SUBSET Values, Compact(L)
      PROVE  Abstract!Next
  BY <1>8, CompactComputes DEF Abstract!Next
<1>9. ASSUME Reload \/ UNCHANGED vars
      PROVE  UNCHANGED contents
  BY <1>9, ReloadKeeps, StutterKeeps
<1> QED BY <1>1, <1>2, <1>3, <1>4, <1>5, <1>6, <1>7, <1>8, <1>9 DEF Next

\* The pool implements the free monoid: a client that sees only what its
\* handles denote cannot tell ids, shared symbols, the cleared scratch vector,
\* a compaction or a reload from words that are never touched.
THEOREM Implements == Spec => ImplementsFreeMonoid
<1>1. Init => Abstract!Init
  BY InitIsAbstract
<1>2. IInv /\ [Next]_vars => [Abstract!Next]_contents
  BY NextIsAbstract
<1> QED BY <1>1, <1>2, Invariant, PTL DEF Spec, ImplementsFreeMonoid, Abstract!Spec

LEMMA EachComputes == IInv => StepComputes
BY FromComputes, OwnComputes, ConvertComputes, AssignValueComputes, WidenComputes, SubComputes,
   MulComputes, InvMulComputes, GcpComputes, AssignComputes, DestroyComputes, CompactComputes,
   ReloadKeeps DEF StepComputes

\* Each operation computes on the words its handles denote what its namesake
\* computes in the free monoid, and a reload, an assignment or a conversion
\* changes no word.
THEOREM EachOperationComputes == Spec => OperationsCompute
<1>1. Spec => []IInv
  BY Invariant
<1> QED BY <1>1, EachComputes, PTL DEF OperationsCompute
================================================================================
