----------------------------- MODULE MachineLabels -----------------------------
(***************************************************************************)
(* The labels of a transducer: values of the product monoid it owns, kept  *)
(* in its transitions and in its outputs.  Each type of transducer keeps   *)
(* them in other places, and has to hand all of them to the pool whenever  *)
(* the pool renumbers its words (include/fst.hpp, expanded_fst.hpp,        *)
(* ssft.hpp, total_ssft.hpp, trim.hpp).                                    *)
(*                                                                         *)
(* The product (SharedCartesianMonoid, include/cartesian_monoid.hpp) has   *)
(* a monoid for each of its tapes, which are two in every transducer, and  *)
(* both tapes can share one (DiagonalMonoid).  The monoids it is made of   *)
(* are the string pool, the letters with a neutral one                     *)
(* (include/symbol_monoid.hpp) and the natural numbers under addition      *)
(* (include/integer_monoid.hpp).  A pool is the sequence of its words, the *)
(* empty one first: word number id is pool[id + 1].  InterningMonoid       *)
(* models it in detail.                                                    *)
(***************************************************************************)
EXTENDS PoolLayout, SequencesExt

CONSTANTS
    Eps,            \* Symbol::eps
    Sigma,          \* the letters of words
    Arcs,           \* names of transitions; of a deterministic machine, one state's by letter
    States,         \* the states with an output
    NoValue,        \* no such transition, no such output
    Texts,          \* the words a client makes labels of
    MaxLength,      \* of the words of a label
    MaxWords        \* of a pool, the empty one not counted

ASSUME TextsAssumption == Texts \subseteq Seq(Sigma)
\* The neutral letter is none, and no value is the sign that there is none.
ASSUME ValuesAssumption == Eps \notin Sigma /\ NoValue \notin Nat /\ NoValue \notin Seq(Nat \cup Sigma \cup {Eps})

VARIABLES
    kind,           \* the type of the transducer
    machine,        \* its monoid, its transitions and its outputs
    meant,          \* the words the client put into them
    source          \* a label of another transducer of that type, with its monoid

labelVars == <<kind, machine, meant, source>>
--------------------------------------------------------------------------------
(* The monoids.                                                              *)

Pool(words) == [kind |-> "pool", pool |-> words]
Letters == [kind |-> "symbol", pool |-> <<>>]
Counts == [kind |-> "count", pool |-> <<>>]

\* The letters: a word of more than one is not a value, and the code asserts so.
SymbolGen(v) == IF v = Eps THEN <<>> ELSE <<v>>
SymbolFrom(word) == IF word = <<>> THEN Eps ELSE word[1]
SymbolMul(a, b) == IF a = Eps THEN b ELSE a
SymbolInvMul(a, b) == IF a = Eps THEN b ELSE Eps
SymbolGcp(a, b) == IF a = Eps \/ b = Eps THEN Eps ELSE a

\* The numbers: n is n times the number 1.
CountGen(v) == [i \in 1 .. v |-> 1]
CountGcp(a, b) == IF a < b THEN a ELSE b

\* gen(): the word a value stands for.
Gen(c, v) ==
    CASE c.kind = "pool" -> c.pool[v + 1]
      [] c.kind = "symbol" -> SymbolGen(v)
      [] c.kind = "count" -> CountGen(v)

\* The value of a word, and the monoid that holds it: only a pool changes.
Pooled(c, word) ==
    LET with == IF Contains(c.pool, word) THEN c ELSE [c EXCEPT !.pool = Append(@, word)]
    IN  [c |-> with, v |-> (CHOOSE i \in DOMAIN with.pool : with.pool[i] = word) - 1]

From(c, word) ==
    CASE c.kind = "pool" -> Pooled(c, word)
      [] c.kind = "symbol" -> [c |-> c, v |-> SymbolFrom(word)]
      [] c.kind = "count" -> [c |-> c, v |-> Len(word)]

Prefix(v, w) == CHOOSE p \in CommonPrefixes({v, w}) : \A q \in CommonPrefixes({v, w}) : Len(q) <= Len(p)

Mul(c, a, b) ==
    CASE c.kind = "pool" -> Pooled(c, Gen(c, a) \o Gen(c, b))
      [] c.kind = "symbol" -> [c |-> c, v |-> SymbolMul(a, b)]
      [] c.kind = "count" -> [c |-> c, v |-> a + b]

InvMul(c, a, b) ==
    CASE c.kind = "pool" -> Pooled(c, SubSeq(Gen(c, b), Len(Gen(c, a)) + 1, Len(Gen(c, b))))
      [] c.kind = "symbol" -> [c |-> c, v |-> SymbolInvMul(a, b)]
      [] c.kind = "count" -> [c |-> c, v |-> b - a]

Gcp(c, a, b) ==
    CASE c.kind = "pool" -> Pooled(c, Prefix(Gen(c, a), Gen(c, b)))
      [] c.kind = "symbol" -> [c |-> c, v |-> SymbolGcp(a, b)]
      [] c.kind = "count" -> [c |-> c, v |-> CountGcp(a, b)]

\* What the operations assert of their operands.
MulAllowed(c, a, b) == c.kind = "symbol" => Eps \in {a, b}
InvMulAllowed(c, a, b) == IsPrefix(Gen(c, a), Gen(c, b))
GcpAllowed(c, a, b) == c.kind = "symbol" => Eps \in {a, b} \/ a = b
--------------------------------------------------------------------------------
(* The product: the monoids it owns, and the one of each tape.               *)

Product(owned, slots) == [owned |-> owned, slots |-> slots]
Tapes(m) == DOMAIN m.slots
Tape(m, t) == m.owned[m.slots[t]]

WithTape(m, t, c) == Product([m.owned EXCEPT ![m.slots[t]] = c], m.slots)

\* One operation on every tape, one after the other: a pool both share sees both.
OnTapes(m, Op(_, _)) ==
    LET first == Op(Tape(m, 1), 1)
        between == WithTape(m, 1, first.c)
        second == Op(Tape(between, 2), 2)
    IN  [m |-> WithTape(between, 2, second.c), v |-> <<first.v, second.v>>]

WordsOf(m, label) == [t \in Tapes(m) |-> Gen(Tape(m, t), label[t])]
LabelOf(m, words) == OnTapes(m, LAMBDA c, t : From(c, words[t]))
Times(m, a, b) == OnTapes(m, LAMBDA c, t : Mul(c, a[t], b[t]))
Without(m, a, b) == OnTapes(m, LAMBDA c, t : InvMul(c, a[t], b[t]))
Common(m, a, b) == OnTapes(m, LAMBDA c, t : Gcp(c, a[t], b[t]))

\* own(): the value of another product with the same shape.
Owned(m, from, label) == LabelOf(m, WordsOf(from, label))

\* compact() of a pool: what is not in the ranges is dropped, and the ids close up.
Live(used) == {0} \cup used
NewId(used, id) == Rank(Live(used), id)
Packed(c, used) == Pool([i \in 1 .. Cardinality(Live(used)) |-> c.pool[Nth(Live(used), i - 1) + 1]])

\* serialize() writes the pools in the order the product owns them.  The
\* constructor from a stream reads them as arguments of one call, and so in any
\* order: `order' names the slots whose pools are read first, second, ...
PoolSlots(m) == {j \in DOMAIN m.owned : m.owned[j].kind = "pool"}
Written(m) == [k \in 1 .. Cardinality(PoolSlots(m)) |-> m.owned[Nth(PoolSlots(m), k - 1)]]
Orders(m) == {s \in [1 .. Cardinality(PoolSlots(m)) -> PoolSlots(m)] : IsInjective(s)}
ReadBack(m, order) ==
    Product([j \in DOMAIN m.owned |->
                IF j \in PoolSlots(m) THEN Written(m)[CHOOSE k \in DOMAIN order : order[k] = j] ELSE m.owned[j]],
            m.slots)
--------------------------------------------------------------------------------
(* The machine.                                                              *)

Kinds == {"SparseFST", "SparseFST of two pools", "SparseFST with counts", "ExpandedFST", "SparseSSFST", "TotalSSFST"}

EmptyPool == Pool(<<<<>>>>)
MonoidOf(k) ==
    CASE k = "SparseFST" -> Product(<<EmptyPool>>, <<1, 1>>)
      [] k = "SparseFST of two pools" -> Product(<<EmptyPool, EmptyPool>>, <<1, 2>>)
      [] k = "SparseFST with counts" -> Product(<<EmptyPool, Counts>>, <<1, 2>>)
      [] OTHER -> Product(<<Letters, EmptyPool>>, <<1, 2>>)

Deterministic == kind \in {"SparseSSFST", "TotalSSFST"}
HasFEps == kind = "ExpandedFST"

\* Where the outputs are: Psi, the initial output, or the list f_eps.
OutputsOf(k) ==
    CASE k = "SparseSSFST" -> [s \in States |-> NoValue]
      [] k = "TotalSSFST" -> [s \in States \cup {"initial"} |-> 0]
      [] OTHER -> <<>>

Machine(monoid, arcs, outs) == [monoid |-> monoid, arcs |-> arcs, outs |-> outs]
Meaning(arcs, outs) == [arcs |-> arcs, outs |-> outs]
NewMachine(k) == Machine(MonoidOf(k), [a \in Arcs |-> NoValue], OutputsOf(k))

OutputMonoid(m) == Tape(m.monoid, 2)

\* What the labels and the outputs of a machine stand for.
ArcWords(m) == [a \in Arcs |-> IF m.arcs[a] = NoValue THEN NoValue ELSE WordsOf(m.monoid, m.arcs[a])]
OutWord(m, o) == IF m.outs[o] = NoValue THEN NoValue ELSE Gen(OutputMonoid(m), m.outs[o])
Denoted(m) == Meaning(ArcWords(m), [o \in DOMAIN m.outs |-> OutWord(m, o)])
--------------------------------------------------------------------------------
(* Building.                                                                 *)

PoolsAreSmall(m) == \A j \in DOMAIN m.monoid.owned : Len(m.monoid.owned[j].pool) <= MaxWords + 1

\* AddTransition(): the multimap of a nondeterministic machine never loses a
\* transition; a deterministic one has one for each letter, and a new one
\* replaces it.  `result' is the label in the monoid that has it, `words' what it
\* stands for.
AddTransition(a, result, words) ==
    /\ IF Deterministic THEN words[1] = <<a>> ELSE machine.arcs[a] = NoValue
    /\ \A t \in DOMAIN words : Len(words[t]) <= MaxLength
    /\ machine' = Machine(result.m, [machine.arcs EXCEPT ![a] = result.v], machine.outs)
    /\ meant' = Meaning([meant.arcs EXCEPT ![a] = words], meant.outs)
    /\ PoolsAreSmall(machine')
    /\ UNCHANGED <<kind, source>>

\* addTransition(from, in, out, to) with words; a number counts the letters.
AddWords(a, words) ==
    LET m == machine.monoid
        Counted(t) == IF Tape(m, t).kind = "count" THEN [i \in DOMAIN words[t] |-> 1] ELSE words[t]
    IN  /\ \A t \in Tapes(m) : Tape(m, t).kind = "symbol" => Len(words[t]) <= 1
        /\ AddTransition(a, LabelOf(m, words), [t \in Tapes(m) |-> Counted(t)])

IsLabel(a) == machine.arcs[a] # NoValue

Multiply(a, b, to) ==
    LET m == machine
    IN  /\ IsLabel(a) /\ IsLabel(b)
        /\ \A t \in Tapes(m.monoid) : MulAllowed(Tape(m.monoid, t), m.arcs[a][t], m.arcs[b][t])
        /\ AddTransition(to, Times(m.monoid, m.arcs[a], m.arcs[b]),
                   [t \in Tapes(m.monoid) |-> meant.arcs[a][t] \o meant.arcs[b][t]])

Divide(a, b, to) ==
    LET m == machine
    IN  /\ IsLabel(a) /\ IsLabel(b)
        /\ \A t \in Tapes(m.monoid) : InvMulAllowed(Tape(m.monoid, t), m.arcs[a][t], m.arcs[b][t])
        /\ AddTransition(to, Without(m.monoid, m.arcs[a], m.arcs[b]),
                   [t \in Tapes(m.monoid) |->
                       SubSeq(meant.arcs[b][t], Len(meant.arcs[a][t]) + 1, Len(meant.arcs[b][t]))])

Share(a, b, to) ==
    LET m == machine
    IN  /\ IsLabel(a) /\ IsLabel(b)
        /\ \A t \in Tapes(m.monoid) : GcpAllowed(Tape(m.monoid, t), m.arcs[a][t], m.arcs[b][t])
        /\ AddTransition(to, Common(m.monoid, m.arcs[a], m.arcs[b]),
                   [t \in Tapes(m.monoid) |-> Prefix(meant.arcs[a][t], meant.arcs[b][t])])

\* reintern(): a label of another machine of the type; a letter is a value by itself.
Reintern(a) ==
    AddTransition(a, Owned(machine.monoid, source.m, source.v), WordsOf(source.m, source.v))

\* SetPsi(), SetInitialOutput().
SetOutput(o, word) ==
    LET r == From(OutputMonoid(machine), word)
    IN  /\ ~HasFEps
        /\ o \in DOMAIN machine.outs
        /\ machine' = Machine(WithTape(machine.monoid, 2, r.c), machine.arcs, [machine.outs EXCEPT ![o] = r.v])
        /\ meant' = Meaning(meant.arcs, [meant.outs EXCEPT ![o] = word])
        /\ PoolsAreSmall(machine')
        /\ UNCHANGED <<kind, source>>

\* addFEps(): a word once.
AddFEps(word) ==
    LET r == From(OutputMonoid(machine), word)
        known == Contains(machine.outs, r.v)
    IN  /\ HasFEps
        /\ machine' = Machine(WithTape(machine.monoid, 2, r.c), machine.arcs,
                              IF known THEN machine.outs ELSE Append(machine.outs, r.v))
        /\ meant' = Meaning(meant.arcs, IF Contains(meant.outs, word) THEN meant.outs ELSE Append(meant.outs, word))
        /\ PoolsAreSmall(machine')
        /\ UNCHANGED <<kind, source>>
--------------------------------------------------------------------------------
(* Compaction.                                                               *)

\* The values of a tape in the transitions, and those in the outputs.
ArcValues(m, t) == {m.arcs[a][t] : a \in {b \in Arcs : m.arcs[b] # NoValue}}
OutValues(m) == {m.outs[o] : o \in DOMAIN m.outs} \ {NoValue}

\* A mistake compact() of the product could make: a pool that two tapes share
\* is handed the values of one of them.
RangesOfOneTape(m, j) ==
    LET t == CHOOSE u \in Tapes(m.monoid) : m.monoid.slots[u] = j
    IN  ArcValues(m, t) \cup IF t = 2 THEN OutValues(m) ELSE {}

\* The ranges the pool of slot j is handed: one call for all its tapes.
Ranges(m, j) ==
    UNION {ArcValues(m, t) \cup IF t = 2 THEN OutValues(m) ELSE {} : t \in {u \in Tapes(m.monoid) : m.monoid.slots[u] = j}}

IsPool(m, j) == m.monoid.owned[j].kind = "pool"

\* CompactLabels(): every pool once; the new ids go back to where the old ones were.
Compacted(m) ==
    LET Renumbered(t, v) == IF IsPool(m, m.monoid.slots[t]) THEN NewId(Ranges(m, m.monoid.slots[t]), v) ELSE v
    IN  Machine(
            Product([j \in DOMAIN m.monoid.owned |->
                        IF IsPool(m, j) THEN Packed(m.monoid.owned[j], Ranges(m, j)) ELSE m.monoid.owned[j]],
                    m.monoid.slots),
            [a \in Arcs |-> IF m.arcs[a] = NoValue THEN NoValue
                            ELSE <<Renumbered(1, m.arcs[a][1]), Renumbered(2, m.arcs[a][2])>>],
            [o \in DOMAIN m.outs |-> IF m.outs[o] = NoValue THEN NoValue ELSE Renumbered(2, m.outs[o])])

\* trimFSA(): the transitions and the outputs of the states that stay are copied
\* to a new machine, which gets the monoid, f_eps and the initial output of the
\* old one; then it is compacted.
Stays(o, states) == HasFEps \/ o \in states \cup {"initial"}

Trim(arcs, states) ==
    LET Cut(f) == [a \in Arcs |-> IF a \in arcs THEN f[a] ELSE NoValue]
        Empty == IF kind = "TotalSSFST" THEN <<>> ELSE NoValue
        outs == [o \in DOMAIN machine.outs |-> IF Stays(o, states) THEN machine.outs[o] ELSE OutputsOf(kind)[o]]
    IN  /\ machine' = Compacted(Machine(machine.monoid, Cut(machine.arcs), outs))
        /\ meant' = Meaning(Cut(meant.arcs),
                            [o \in DOMAIN meant.outs |-> IF Stays(o, states) THEN meant.outs[o] ELSE Empty])
        /\ UNCHANGED <<kind, source>>

\* serialize() and the constructor from a stream: the pool, the transitions and
\* Psi are written; the initial output is not, and is empty in what is read.
ReloadMachine ==
    /\ kind = "TotalSSFST"
    /\ \E order \in Orders(machine.monoid) :
          machine' = Machine(ReadBack(machine.monoid, order), machine.arcs, [machine.outs EXCEPT !["initial"] = 0])
    /\ meant' = Meaning(meant.arcs, [meant.outs EXCEPT !["initial"] = <<>>])
    /\ UNCHANGED <<kind, source>>

\* The other machine has interned the words of one label before those of another.
LabelsInit ==
    /\ kind \in Kinds
    /\ machine = NewMachine(kind)
    /\ meant = Denoted(NewMachine(kind))
    /\ \E v, w \in {t \in Texts : Len(t) <= 1}, x, y \in Texts : source = LabelOf(LabelOf(MonoidOf(kind), <<v, x>>).m, <<w, y>>)

LabelsNext ==
    \/ \E a \in Arcs, v, w \in Texts : AddWords(a, <<v, w>>)
    \/ \E a, b, to \in Arcs : Multiply(a, b, to) \/ Divide(a, b, to) \/ Share(a, b, to)
    \/ \E a \in Arcs : Reintern(a)
    \/ \E o \in States \cup {"initial"}, w \in Texts : SetOutput(o, w)
    \/ \E w \in Texts : AddFEps(w)
    \/ \E arcs \in SUBSET Arcs, states \in SUBSET States : Trim(arcs, states)
    \/ ReloadMachine

LabelsSpec == LabelsInit /\ [][LabelsNext]_labelVars
--------------------------------------------------------------------------------
\* A label or an output holds numbers its pool knows, and the words are those
\* that were put there, whatever was done to the pool since; f_eps has each word
\* once.
IsValue(t, v) == IsPool(machine, machine.monoid.slots[t]) => v < Len(Tape(machine.monoid, t).pool)

LabelsKeepTheirWords ==
    /\ \A t \in Tapes(machine.monoid) : \A v \in ArcValues(machine, t) : IsValue(t, v)
    /\ \A v \in OutValues(machine) : IsValue(2, v)
    /\ Denoted(machine) = meant
================================================================================
