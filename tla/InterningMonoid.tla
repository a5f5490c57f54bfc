---------------------------- MODULE InterningMonoid ----------------------------
(***************************************************************************)
(* The string pool of include/interning_monoid.hpp: InterningMonoid<S>.    *)
(*                                                                         *)
(* Words live in one vector `words`; a WordId is an index of `wordsData`,  *)
(* whose entries are <start, length> slices of `words` (two ids may share  *)
(* symbols).  Products are built at the end of a scratch vector            *)
(* `temporaries` and are denoted by Operands, each of which is a slice of  *)
(* `temporaries` (a temporary) or of `words` (an infix).  `temporaryCount` *)
(* counts the live temporaries; when the last one dies the scratch vector  *)
(* is cleared.                                                             *)
(*                                                                         *)
(* The client is a program with finitely many Value and Operand variables  *)
(* that calls the public operations in any order.                          *)
(***************************************************************************)
EXTENDS PoolLayout

CONSTANTS
    Symbols,     \* the alphabet S
    Inputs,      \* words handed to from(), or owned by another monoid
    Values,      \* client variables of type Value (WordId)
    Operands,    \* client variables of type Operand
    NoOperand,   \* an Operand variable outside its lifetime
    MaxIds,      \* bound on wordsData.size()      (2^32 - 1 in the code)
    MaxPool,     \* bound on words.size()          (2^32 - 1 in the code)
    MaxTemps     \* bound on temporaries.size()    (2^32 - 1 in the code)

ASSUME InputsAssumption == Inputs \subseteq Seq(Symbols)
ASSUME HandlesAssumption ==
    /\ Values \cap Operands = {}
    /\ IsFiniteSet(Values) /\ IsFiniteSet(Operands)
    /\ NoOperand \notin [start : Nat, length : Nat, fromTemporaries : BOOLEAN]
    /\ NoOperand \notin Seq(Symbols)
ASSUME BoundsAssumption == MaxIds \in Nat \ {0} /\ MaxPool \in Nat /\ MaxTemps \in Nat

VARIABLES
    words,           \* Storage::words
    wordsData,       \* Storage::wordsData, indexed by id
    temporaries,     \* Storage::temporaries
    temporaryCount,  \* Storage::temporaryCount
    wordMap,         \* the ids in the content -> id hash set
    nextWordId,      \* the id the next new word gets
    value,           \* the WordId in each Value variable of the client
    operand          \* the Operand in each Operand variable of the client

pool == <<words, wordsData, wordMap, nextWordId>>
scratch == <<temporaries, temporaryCount>>
vars == <<pool, scratch, value, operand>>

Handles == Values \cup Operands
--------------------------------------------------------------------------------
(* What a handle denotes.                                                    *)

Operand == [start : Nat, length : Nat, fromTemporaries : BOOLEAN]

\* Storage::get(WordId)
Get(id) == Slice(words, wordsData[id].start, wordsData[id].length)

\* Storage::get(const Operand &)
GetOperand(op) == Slice(IF op.fromTemporaries THEN temporaries ELSE words, op.start, op.length)

Alive(x) == x \in Operands => operand[x] # NoOperand

\* The Operand an argument is passed as: Value arguments are widened.
AsOperand(x) ==
    IF x \in Values
    THEN [start |-> wordsData[value[x]].start,
          length |-> wordsData[value[x]].length,
          fromTemporaries |-> FALSE]
    ELSE operand[x]

Content(x) == GetOperand(AsOperand(x))

LiveTemporaries == {o \in Operands : operand[o] # NoOperand /\ operand[o].fromTemporaries}
--------------------------------------------------------------------------------
(* Interning.                                                                *)

\* nextWordId++ and wordMap.emplace, after the slice d is appended to wordsData.
Register(v, d) ==
    /\ nextWordId < MaxIds
    /\ wordsData' = [id \in 0 .. nextWordId |-> IF id = nextWordId THEN d ELSE wordsData[id]]
    /\ wordMap' = wordMap \cup {nextWordId}
    /\ nextWordId' = nextWordId + 1
    /\ value' = [value EXCEPT ![v] = nextWordId]

\* wordMap.find(w), when it finds the word.
Found(v, w) ==
    /\ \E id \in wordMap : Get(id) = w /\ value' = [value EXCEPT ![v] = id]
    /\ UNCHANGED pool

Missing(w) == \A id \in wordMap : Get(id) # w

\* A mistake AddUnique could make: the symbols are appended before the search.
AddUniqueAppendsFirst(v, w) ==
    /\ Len(words) + Len(w) <= MaxPool
    /\ words' = words \o w
    /\ \/ /\ \E id \in wordMap : Get(id) = w /\ value' = [value EXCEPT ![v] = id]
          /\ UNCHANGED <<wordsData, wordMap, nextWordId>>
       \/ Missing(w) /\ Register(v, [start |-> Len(words), length |-> Len(w)])

AddUnique(v, w) ==
    \/ Found(v, w)
    \/ /\ Missing(w)
       /\ Len(words) + Len(w) <= MaxPool
       /\ words' = words \o w
       /\ Register(v, [start |-> Len(words), length |-> Len(w)])

\* A mistake AddUniqueInfix could make: the slice is new, so its word must be.
AddUniqueInfixUnsearched(v, start, length) ==
    Register(v, [start |-> start, length |-> length]) /\ UNCHANGED words

AddUniqueInfix(v, start, length) ==
    \/ Found(v, Slice(words, start, length))
    \/ /\ Missing(Slice(words, start, length))
       /\ Register(v, [start |-> start, length |-> length])
       /\ UNCHANGED words

\* The hash set rebuilt by emplacing the ids in ascending order: an id whose
\* content is already there is not inserted.
Rebuild(mem, data) ==
    {id \in DOMAIN data : \A j \in DOMAIN data :
        j < id => Slice(mem, data[j].start, data[j].length)
                    # Slice(mem, data[id].start, data[id].length)}
--------------------------------------------------------------------------------
(* The life of an Operand.                                                   *)

References(op) == IF op.fromTemporaries THEN 1 ELSE 0

\* A mistake a constructor could make: it counts no reference.
ConstructUncounted(o, op) ==
    /\ operand[o] = NoOperand
    /\ operand' = [operand EXCEPT ![o] = op]
    /\ UNCHANGED temporaryCount

\* Every constructor, including the copy (and so the move) constructor.
Construct(o, op) ==
    /\ operand[o] = NoOperand
    /\ operand' = [operand EXCEPT ![o] = op]
    /\ temporaryCount' = temporaryCount + References(op)

\* A mistake deleteTemporary() could make: it clears for every temporary.
ReleaseClearsEarly(old, created) ==
    /\ temporaryCount' = temporaryCount - References(old) + created
    /\ temporaries' = IF old.fromTemporaries THEN <<>> ELSE temporaries

\* deleteTemporary() for the value `old` of an Operand that ends, then
\* createTemporary() `created` times.
Release(old, created) ==
    /\ temporaryCount' = temporaryCount - References(old) + created
    /\ temporaries' = IF old.fromTemporaries /\ temporaryCount = 1 THEN <<>> ELSE temporaries

Destroy(o) ==
    /\ operand[o] # NoOperand
    /\ operand' = [operand EXCEPT ![o] = NoOperand]
    /\ Release(operand[o], 0)
    /\ UNCHANGED <<pool, value>>

\* Operand &operator=(const Operand &)
Assign(o, p) ==
    /\ operand[o] # NoOperand /\ operand[p] # NoOperand /\ o # p
    /\ operand' = [operand EXCEPT ![o] = operand[p]]
    /\ Release(operand[o], References(operand[p]))
    /\ UNCHANGED <<pool, value>>

\* Operand &operator=(WordId)
AssignValue(o, v) ==
    /\ operand[o] # NoOperand
    /\ operand' = [operand EXCEPT ![o] = AsOperand(v)]
    /\ Release(operand[o], 0)
    /\ UNCHANGED <<pool, value>>

\* widen(Value) and the copy constructor of an Operand.
Widen(o, x) ==
    /\ Alive(x)
    /\ Construct(o, AsOperand(x))
    /\ UNCHANGED <<pool, temporaries, value>>

\* Operand::operator WordId() const; the Operand stays alive.
Convert(v, o) ==
    /\ operand[o] # NoOperand
    /\ IF operand[o].fromTemporaries
       THEN AddUnique(v, GetOperand(operand[o]))
       ELSE AddUniqueInfix(v, operand[o].start, operand[o].length)
    /\ UNCHANGED <<scratch, operand>>
--------------------------------------------------------------------------------
(* The operations of the monoid.                                             *)

From(v, w) == AddUnique(v, w) /\ UNCHANGED <<scratch, operand>>

\* A temporary holding w at the end of the scratch vector.
Scratch(o, w) ==
    /\ Len(temporaries) + Len(w) <= MaxTemps
    /\ temporaries' = temporaries \o w
    /\ Construct(o, [start |-> Len(temporaries), length |-> Len(w), fromTemporaries |-> TRUE])
    /\ UNCHANGED <<pool, value>>

\* The four overloads of mul: the arguments are copied into mulImpl's by-value
\* parameters, which die after the result is constructed, so the count cannot
\* touch zero on the way.
Mul(o, x, y) == Alive(x) /\ Alive(y) /\ Scratch(o, Content(x) \o Content(y))

\* own(): a word of another monoid.
Own(o, w) == Scratch(o, w)

\* The part [s, s + l) of the Operand op.
Part(op, s, l) == [start |-> op.start + s, length |-> l, fromTemporaries |-> op.fromTemporaries]

Sub(o, x) ==
    /\ Alive(x)
    /\ \E s, l \in 0 .. AsOperand(x).length :
          s + l <= AsOperand(x).length /\ Construct(o, Part(AsOperand(x), s, l))
    /\ UNCHANGED <<pool, temporaries, value>>

\* checkPrefix(): the first n symbols of A and B agree.
Agree(A, B, n) == \A i \in 1 .. n : i <= Len(A) /\ i <= Len(B) /\ A[i] = B[i]

\* A mistake invMul() could make: the length of the suffix, the offset of y.
InvMulKeepsStart(o, x, y) ==
    /\ Alive(x) /\ Alive(y)
    /\ LET a == AsOperand(x).length
           b == AsOperand(y).length
       IN  /\ Agree(Content(x), Content(y), a)
           /\ Construct(o, Part(AsOperand(y), 0, b - a))
    /\ UNCHANGED <<pool, temporaries, value>>

InvMul(o, x, y) ==
    /\ Alive(x) /\ Alive(y)
    /\ LET a == AsOperand(x).length
           b == AsOperand(y).length
       IN  /\ Agree(Content(x), Content(y), a)
           /\ Construct(o, Part(AsOperand(y), a, b - a))
    /\ UNCHANGED <<pool, temporaries, value>>

\* gcp_len(): how far the loop over both words gets.
GcpLen(A, B) == CHOOSE n \in 0 .. Len(A) : Agree(A, B, n) /\ (n = Len(A) \/ ~Agree(A, B, n + 1))

Gcp(o, x, y) ==
    /\ Alive(x) /\ Alive(y)
    /\ Construct(o, Part(AsOperand(x), 0, GcpLen(Content(x), Content(y))))
    /\ UNCHANGED <<pool, temporaries, value>>
--------------------------------------------------------------------------------
(* compact(): only the words of the given Value variables survive.           *)

\* The surviving ids are renumbered in their old order.  The symbols they cover
\* are packed in their old order, a symbol shared by two words once, and each
\* word starts at the rank of its old offset: what the loop over byStart, which
\* CompactLoop models, leaves behind.
\* A mistake compact() could make: the offsets move, the symbols do not.
CompactToUnmoved(live, kept) ==
    /\ wordsData' = [n \in 0 .. Cardinality(live) - 1 |->
                        [wordsData[Nth(live, n)] EXCEPT !.start = Rank(kept, @)]]
    /\ nextWordId' = Cardinality(live)
    /\ wordMap' = Rebuild(words, wordsData')
    /\ UNCHANGED words

CompactTo(live, kept) ==
    /\ words' = Pack(words, kept)
    /\ wordsData' = [n \in 0 .. Cardinality(live) - 1 |->
                        [wordsData[Nth(live, n)] EXCEPT !.start = Rank(kept, @)]]
    /\ nextWordId' = Cardinality(live)
    /\ wordMap' = Rebuild(words', wordsData')

\* The new id of each Value in the ranges; the client drops the others.
Remapped(L, live) == [v \in Values |-> IF v \in L THEN Rank(live, value[v]) ELSE 0]

\* L are the Value variables in the ranges; the client drops the others.  It
\* holds no infix, whose slice of `words` is about to move.
Compact(L) ==
    LET live == {0} \cup {value[v] : v \in L}
    IN  /\ \A o \in Operands : operand[o] # NoOperand => operand[o].fromTemporaries
        /\ CompactTo(live, Bytes(wordsData, live))
        /\ value' = Remapped(L, live)
        /\ UNCHANGED <<scratch, operand>>

\* serialize() and the constructor from a stream: the ids keep their numbers,
\* and only the symbols below the largest end of a slice are read back.  No
\* Operand of the old monoid outlives it.
TotalLength == CHOOSE n \in {EndOf(wordsData[id]) : id \in DOMAIN wordsData} :
                   \A id \in DOMAIN wordsData : EndOf(wordsData[id]) <= n

Reload ==
    /\ temporaryCount = 0
    /\ \A o \in Operands : operand[o] = NoOperand
    /\ words' = SubSeq(words, 1, TotalLength)
    /\ wordMap' = Rebuild(words', wordsData)
    /\ temporaries' = <<>>
    /\ temporaryCount' = 0
    /\ UNCHANGED <<wordsData, nextWordId, value, operand>>
--------------------------------------------------------------------------------
\* The constructor interns the empty word; a default Value is the identity.
Init ==
    /\ words = <<>>
    /\ wordsData = [id \in 0 .. 0 |-> [start |-> 0, length |-> 0]]
    /\ wordMap = {0}
    /\ nextWordId = 1
    /\ temporaries = <<>>
    /\ temporaryCount = 0
    /\ value = [v \in Values |-> 0]
    /\ operand = [o \in Operands |-> NoOperand]

Next ==
    \/ \E v \in Values, w \in Inputs : From(v, w)
    \/ \E o \in Operands, w \in Inputs : Own(o, w)
    \/ \E v \in Values, o \in Operands : Convert(v, o) \/ AssignValue(o, v)
    \/ \E o \in Operands, x \in Handles : Widen(o, x) \/ Sub(o, x)
    \/ \E o \in Operands, x, y \in Handles : Mul(o, x, y) \/ InvMul(o, x, y) \/ Gcp(o, x, y)
    \/ \E o, p \in Operands : Assign(o, p)
    \/ \E o \in Operands : Destroy(o)
    \/ \E L \in SUBSET Values : Compact(L)
    \/ Reload

Spec == Init /\ [][Next]_vars
--------------------------------------------------------------------------------
(* Properties.                                                               *)

\* Every variable has its type; ids in hand and in the hash set exist.
TypeOK ==
    /\ words \in Seq(Symbols)
    /\ nextWordId \in Nat \ {0}
    /\ wordsData \in [0 .. nextWordId - 1 -> WordData]
    /\ wordMap \subseteq 0 .. nextWordId - 1
    /\ temporaries \in Seq(Symbols)
    /\ temporaryCount \in Nat
    /\ value \in [Values -> 0 .. nextWordId - 1]
    /\ operand \in [Operands -> Operand \cup {NoOperand}]

\* The reference count is exactly the number of live temporaries, however they
\* were constructed, copied, assigned over and destroyed; and the scratch
\* vector is empty when there are none.
CountMatchesTemporaries ==
    /\ temporaryCount = Cardinality(LiveTemporaries)
    /\ temporaryCount = 0 => temporaries = <<>>

\* No live handle reaches outside the vector it points into.
NoDanglingSlice ==
    /\ \A id \in 0 .. nextWordId - 1 : EndOf(wordsData[id]) <= Len(words)
    /\ \A o \in Operands : operand[o] # NoOperand =>
          EndOf(operand[o]) <= Len(IF operand[o].fromTemporaries THEN temporaries ELSE words)

\* equal(Value, Value) compares ids, so each word must have one id: every id is
\* in the hash set, no two ids have the same word, and id 0 is the empty word.
OneIdPerWord ==
    /\ wordMap = 0 .. nextWordId - 1
    /\ \A i, j \in 0 .. nextWordId - 1 : Get(i) = Get(j) => i = j
    /\ Get(0) = <<>>

\* Every symbol of the pool belongs to some word, so a reader that stops at the
\* largest end of a slice has consumed exactly what serialize() wrote.
NoOrphanSymbols == 0 .. Len(words) - 1 \subseteq Bytes(wordsData, 0 .. nextWordId - 1)

\* The pool implements the free monoid: no operation, clearing of the scratch
\* vector, compaction or reload changes the word a live handle denotes.
contents == [x \in Handles |-> IF Alive(x) THEN Content(x) ELSE NoOperand]

Abstract == INSTANCE FreeMonoid WITH content <- contents

ImplementsFreeMonoid == Abstract!Spec

\* More than that: each operation computes what its namesake computes on words,
\* and a conversion, an assignment and a reload preserve them.
StepComputes ==
    /\ \A v \in Values, w \in Inputs : From(v, w) => Abstract!From(v, w)
    /\ \A o \in Operands, w \in Inputs : Own(o, w) => Abstract!Own(o, w)
    /\ \A v \in Values, o \in Operands :
          /\ Convert(v, o) => Abstract!Assign(v, o)
          /\ AssignValue(o, v) => Abstract!Assign(o, v)
    /\ \A o \in Operands, x \in Handles :
          /\ Widen(o, x) => Abstract!Widen(o, x)
          /\ Sub(o, x) => Abstract!Sub(o, x)
    /\ \A o \in Operands, x, y \in Handles :
          /\ Mul(o, x, y) => Abstract!Mul(o, x, y)
          /\ InvMul(o, x, y) => Abstract!InvMul(o, x, y)
          /\ Gcp(o, x, y) => Abstract!Gcp(o, x, y)
    /\ \A o, p \in Operands : Assign(o, p) => Abstract!Assign(o, p)
    /\ \A o \in Operands : Destroy(o) => Abstract!Destroy(o)
    /\ \A L \in SUBSET Values : Compact(L) => Abstract!Compact(L)
    /\ Reload => UNCHANGED contents

OperationsCompute == [][StepComputes]_vars
================================================================================
