------------------------------- MODULE RegexFST -------------------------------
(***************************************************************************)
(* The machines the library passes around (include/fst.hpp,                *)
(* include/expanded_fst.hpp), the relation each of them stands for, and    *)
(* the two constructions that make one of a regular expression over pairs  *)
(* of words (include/fst_from_regex.hpp).                                  *)
(*                                                                         *)
(* A machine is a record of its states, initial states, final states,      *)
(* transitions and, once it is real-time, the outputs f_eps of the empty   *)
(* word.  Labels are the words themselves: the interning of them is the    *)
(* subject of InterningMonoid.  The multimap of transitions is a set here, *)
(* two equal transitions being no different from one.                      *)
(***************************************************************************)
EXTENDS Integers, Sequences, FiniteSets, SequencesExt

CONSTANTS
    MaxInput,       \* relations are compared on inputs of at most this length
    MaxOutput       \* and on outputs of at most this length

ASSUME BoundsAssumption == MaxInput \in Nat /\ MaxOutput \in Nat

Arc(from, in, out, to) == [from |-> from, in |-> in, out |-> out, to |-> to]

Machine(states, firsts, finals, trans, feps) ==
    [states |-> states, firsts |-> firsts, finals |-> finals, trans |-> trans, feps |-> feps]

Size(m) == Cardinality(m.states)

Leaving(m, q) == {t \in m.trans : t.from = q}

Silent(t) == t.in = <<>> /\ t.out = <<>>
SilentAbove(t) == t.in = <<>>

Edges(arcs) == {<<t.from, t.to>> : t \in arcs}

RECURSIVE Reach(_, _)
Reach(edges, S) ==
    LET next == S \cup {e[2] : e \in {e \in edges : e[1] \in S}}
    IN  IF next = S THEN S ELSE Reach(edges, next)

\* Some order of a set; SetToSeq would try all functions to find one.
Listed(S) == FoldSet(LAMBDA x, s : Append(s, x), <<>>, S)

Short(p) == Len(p[1]) <= MaxInput /\ Len(p[2]) <= MaxOutput

\* The pairs read on the way to each state, within the bounds: known, plus what
\* follows from the newest of them.
RECURSIVE Readings(_, _, _)
Readings(m, known, newest) ==
    LET next == {[at |-> s[2].to, pair |-> <<s[1].pair[1] \o s[2].in, s[1].pair[2] \o s[2].out>>] :
                     s \in {s \in newest \X m.trans : s[1].at = s[2].from}}
        fresh == {c \in next : Short(c.pair)} \ known
    IN  IF fresh = {} THEN known ELSE Readings(m, known \cup fresh, fresh)

\* The relation of a machine, by its paths alone.
Relation(m) ==
    LET start == {[at |-> q, pair |-> <<(<<>>), <<>>>>] : q \in m.firsts}
    IN  {c.pair : c \in {c \in Readings(m, start, start) : c.at \in m.finals}}

\* A real-time machine keeps its answers for the empty word in f_eps.
RealtimeRelation(m) ==
    {p \in Relation(m) : p[1] # <<>>} \cup {p \in {<<(<<>>), w>> : w \in m.feps} : Short(p)}

Functional(R) == \A p, q \in R : p[1] = q[1] => p[2] = q[2]
--------------------------------------------------------------------------------
(* Regular expressions.  Both constructions number states from 0, and the    *)
(* Berry-Sethi one counts on 0 being initial and on nothing entering it.     *)

\* The node types of rgx::Regex.
Pair(u, v) == [op |-> "pair", left |-> u, right |-> v]
Union(r, s) == [op |-> "union", left |-> r, right |-> s]
Concat(r, s) == [op |-> "concat", left |-> r, right |-> s]
Star(r) == [op |-> "star", child |-> r]
Plus(r) == [op |-> "plus", child |-> r]
--------------------------------------------------------------------------------
(* What an expression means, within the bounds.                              *)

Product(R, S) == {p \in {<<r[1] \o s[1], r[2] \o s[2]>> : r \in R, s \in S} : Short(p)}

RECURSIVE Iterate(_, _)
Iterate(R, S) ==
    LET next == S \cup Product(S, R)
    IN  IF next = S THEN S ELSE Iterate(R, next)

RECURSIVE Meaning(_)
Meaning(r) ==
    CASE r.op = "pair" -> {p \in {<<r.left, r.right>>} : Short(p)}
      [] r.op = "union" -> Meaning(r.left) \cup Meaning(r.right)
      [] r.op = "concat" -> Product(Meaning(r.left), Meaning(r.right))
      [] r.op = "star" -> Iterate(Meaning(r.child), {<<(<<>>), <<>>>>})
      [] r.op = "plus" -> Iterate(Meaning(r.child), Meaning(r.child))

\* An expression has infinitely many outputs for one input exactly when it
\* repeats something that reads nothing and writes something.
RECURSIVE Ambiguous(_)
Ambiguous(r) ==
    CASE r.op = "pair" -> FALSE
      [] r.op \in {"union", "concat"} -> Ambiguous(r.left) \/ Ambiguous(r.right)
      [] r.op \in {"star", "plus"} ->
            Ambiguous(r.child) \/ \E p \in Meaning(r.child) : p[1] = <<>> /\ p[2] # <<>>

RECURSIVE HasSilentPair(_)
HasSilentPair(r) ==
    CASE r.op = "pair" -> r.left = <<>> /\ r.right = <<>>
      [] r.op \in {"union", "concat"} -> HasSilentPair(r.left) \/ HasSilentPair(r.right)
      [] r.op \in {"star", "plus"} -> HasSilentPair(r.child)

AcceptsEmpty(r) == <<(<<>>), <<>>>> \in Meaning(r)

\* Somewhere the right side of a union reads and writes nothing.
RECURSIVE EmptyOnTheRight(_)
EmptyOnTheRight(r) ==
    CASE r.op = "pair" -> FALSE
      [] r.op \in {"union", "concat"} ->
            \/ r.op = "union" /\ AcceptsEmpty(r.right)
            \/ EmptyOnTheRight(r.left) \/ EmptyOnTheRight(r.right)
      [] r.op \in {"star", "plus"} -> EmptyOnTheRight(r.child)
--------------------------------------------------------------------------------
(* Berry-Sethi.                                                              *)

Numbered(n, firsts, finals, trans) == Machine(0 .. n - 1, firsts, finals, trans, {})

Moved(trans, rename(_)) == {Arc(rename(t.from), t.in, t.out, rename(t.to)) : t \in trans}

WordFSA(r) == Numbered(2, {0}, {1}, {Arc(0, r.left, r.right, 1)})

\* What both union constructors do first, and otherwise.
UnionOf(f, g, joined) ==
    CASE f.finals = {} /\ g.finals = {} -> Numbered(0, {0}, {}, {})
      [] f.finals = {} /\ g.finals # {} -> g
      [] f.finals # {} /\ g.finals = {} -> f
      [] OTHER -> joined

DeadEnds(m) == \A q \in m.finals : Leaving(m, q) = {}

\* The states of g but its initial one follow those of f; the initial ones are
\* one.  When no final state goes on, all of them become one new state.
BS_Join(f, g) ==
    LET merge == DeadEnds(f) /\ DeadEnds(g)
        n == Size(f) + Size(g) - 1 + (IF merge THEN 1 ELSE 0)
        shift == Size(f) - 1
        In(q) == IF merge /\ q \in f.finals THEN n - 1 ELSE q
        From(q) == IF q = 0 THEN 0 ELSE q + shift
        To(q) == IF merge /\ q \in g.finals THEN n - 1 ELSE q + shift
    IN  Numbered(n, f.firsts,
            IF merge THEN {n - 1} ELSE f.finals \cup {q + shift : q \in g.finals},
            {[t EXCEPT !.to = In(@)] : t \in f.trans}
              \cup {Arc(From(t.from), t.in, t.out, To(t.to)) : t \in g.trans})

BS_UnionFSA(f, g) == UnionOf(f, g, BS_Join(f, g))

\* A mistake the constructor could make: what follows g's initial state is
\* given to one final state of f only.
BS_ConcatFirst(f, g) ==
    LET shift == Size(f) - 1
        f0 == CHOOSE q \in f.finals : TRUE
    IN  Numbered(Size(f) + Size(g) - 1, f.firsts,
            (IF 0 \in g.finals THEN f.finals ELSE {}) \cup {q + shift : q \in g.finals},
            f.trans
              \cup {Arc(IF t.from = 0 THEN f0 ELSE t.from + shift, t.in, t.out, t.to + shift) : t \in g.trans})

\* Every final state of f goes on as g's initial state does.
BS_ConcatFSA(f, g) ==
    IF f.finals = {} \/ g.finals = {} THEN Numbered(0, {0}, {}, {})
    ELSE LET shift == Size(f) - 1
             Sources(q) == IF q = 0 THEN f.finals ELSE {q + shift}
         IN  Numbered(Size(f) + Size(g) - 1, f.firsts,
                 (IF 0 \in g.finals THEN f.finals ELSE {}) \cup {q + shift : q \in g.finals},
                 f.trans \cup UNION {{Arc(q, t.in, t.out, t.to + shift) : q \in Sources(t.from)} : t \in g.trans})

\* Every final state goes on as the initial one does.
BS_KleeneStarFSA(f, includeEpsilon) ==
    IF f.finals = {} THEN Numbered(0, {0}, IF includeEpsilon THEN {0} ELSE {}, {})
    ELSE [f EXCEPT
            !.trans = @ \cup {[t EXCEPT !.from = q] : t \in Leaving(f, 0), q \in f.finals},
            !.finals = @ \cup (IF includeEpsilon THEN {0} ELSE {})]

RECURSIVE MakeFSA_BerriSethi(_)
MakeFSA_BerriSethi(r) ==
    CASE r.op = "pair" -> WordFSA(r)
      [] r.op = "union" -> BS_UnionFSA(MakeFSA_BerriSethi(r.left), MakeFSA_BerriSethi(r.right))
      [] r.op = "concat" -> BS_ConcatFSA(MakeFSA_BerriSethi(r.left), MakeFSA_BerriSethi(r.right))
      [] r.op = "star" -> BS_KleeneStarFSA(MakeFSA_BerriSethi(r.child), TRUE)
      [] r.op = "plus" -> BS_KleeneStarFSA(MakeFSA_BerriSethi(r.child), FALSE)
--------------------------------------------------------------------------------
(* Thompson.                                                                 *)

Eps(from, to) == Arc(from, <<>>, <<>>, to)
The(S) == CHOOSE x \in S : TRUE

TH_Join(f, g) ==
    LET n == Size(f) + Size(g) + 2
        Up(q) == q + Size(f)
    IN  Numbered(n, {n - 2}, {n - 1},
            f.trans \cup Moved(g.trans, Up)
              \cup {Eps(q, n - 1) : q \in f.finals \cup {Up(q) : q \in g.finals}}
              \cup {Eps(n - 2, The(f.firsts)), Eps(n - 2, Up(The(g.firsts)))})

TH_UnionFSA(f, g) == UnionOf(f, g, TH_Join(f, g))

TH_ConcatFSA(f, g) ==
    LET Up(q) == q + Size(f)
    IN  IF f.finals = {} \/ g.finals = {} THEN Numbered(0, {0}, {}, {})
        ELSE Numbered(Size(f) + Size(g), f.firsts, {Up(q) : q \in g.finals},
                 f.trans \cup Moved(g.trans, Up) \cup {Eps(q, Up(The(g.firsts))) : q \in f.finals})

\* An empty child gives an empty machine here, star or plus.
TH_KleeneStarFSA(f, includeEpsilon) ==
    LET n == Size(f) + 2
    IN  IF f.finals = {} THEN Numbered(0, {0}, {}, {})
        ELSE Numbered(n, {n - 2}, {n - 1},
                 f.trans \cup {Eps(q, n - 1) : q \in f.finals}
                   \cup {Eps(q, The(f.firsts)) : q \in f.finals \cup {n - 2}}
                   \cup (IF includeEpsilon THEN {Eps(n - 2, n - 1)} ELSE {}))

RECURSIVE MakeFSA_Thompson(_)
MakeFSA_Thompson(r) ==
    CASE r.op = "pair" -> WordFSA(r)
      [] r.op = "union" -> TH_UnionFSA(MakeFSA_Thompson(r.left), MakeFSA_Thompson(r.right))
      [] r.op = "concat" -> TH_ConcatFSA(MakeFSA_Thompson(r.left), MakeFSA_Thompson(r.right))
      [] r.op = "star" -> TH_KleeneStarFSA(MakeFSA_Thompson(r.child), TRUE)
      [] r.op = "plus" -> TH_KleeneStarFSA(MakeFSA_Thompson(r.child), FALSE)
================================================================================
