------------------------------ MODULE ContextFree ------------------------------
(***************************************************************************)
(* Context-free grammars: what include/cfg.hpp computes about words, and   *)
(* the language a grammar generates, which is what it is computed for.     *)
(*                                                                         *)
(* A grammar is a record [terminals, nonTerminals, rules, start, eof,      *)
(* data]; a rule is [lhs, prod], where a production is the record          *)
(* [rhs, ignore, replaceWith] and data gives the NonTerminalData.          *)
(***************************************************************************)
EXTENDS Integers, Sequences, FiniteSets, TLC

CONSTANTS
    Eps,     \* Symbol::eps
    Mark     \* a symbol of no grammar

\* The constructor of a Production from a word alone.
Production(rhs) == [rhs |-> rhs, ignore |-> [i \in DOMAIN rhs |-> FALSE], replaceWith |-> Eps]

\* The CFG constructor.
NewGrammar(start, eof) ==
    [terminals |-> {eof}, nonTerminals |-> {start}, rules |-> {}, start |-> start, eof |-> eof,
     data |-> [A \in {} |-> <<>>]]

DefaultData == [upwardSpillThreshold |-> -1, ignoreEmpty |-> TRUE, ignoreSingleChild |-> TRUE]

\* CFG::addRule(): the first rule of a nonterminal makes it known.
WithRule(g, A, p) ==
    [g EXCEPT !.nonTerminals = @ \cup {A},
              !.data = @ @@ (A :> DefaultData),
              !.rules = @ \cup {[lhs |-> A, prod |-> p]}]

After(w, i) == SubSeq(w, i + 1, Len(w))

\* CFG::nullable(w)
NullableWord(w, nullable) == \A i \in DOMAIN w : w[i] \in nullable

\* A mistake first(w) could make: it stops at the first symbol.
FirstOfHead(w, nullable, first) == IF w = <<>> THEN {} ELSE first[w[1]]

\* CFG::first(w): the symbols up to the first one that is not nullable count.
FirstOf(w, nullable, first) ==
    UNION {first[w[i]] : i \in {i \in DOMAIN w : NullableWord(SubSeq(w, 1, i - 1), nullable)}}
--------------------------------------------------------------------------------
(* Derivations.                                                              *)

Symbols(g) == g.terminals \cup g.nonTerminals

\* What the functions below take for granted: the symbols of a rule are known.
IsGrammar(g) ==
    /\ g.eof \in g.terminals /\ g.start \in g.nonTerminals
    /\ Eps \notin Symbols(g)
    /\ \A r \in g.rules : r.lhs \in g.nonTerminals /\ r.prod.rhs \in Seq(Symbols(g))

IsLeftmost(g, u, i) == u[i] \in g.nonTerminals /\ \A j \in 1 .. i - 1 : u[j] \notin g.nonTerminals

\* u with rhs for its leftmost nonterminal.
Expanded(g, u, rhs) ==
    LET i == CHOOSE i \in 1 .. Len(u) : IsLeftmost(g, u, i)
    IN  SubSeq(u, 1, i - 1) \o rhs \o After(u, i)

\* What the first n of the productions used, pairs <<A, production>>, make of the
\* start symbol, for each n.
Sentential(g, used) ==
    LET form[n \in 0 .. Len(used)] ==
            IF n = 0 THEN <<g.start>> ELSE Expanded(g, form[n - 1], used[n][2].rhs)
    IN  form

\* They are rules, and each expands the leftmost nonterminal there is.
IsLeftmostDerivation(g, used) ==
    \A n \in 1 .. Len(used) :
        /\ \E r \in g.rules : r.lhs = used[n][1] /\ r.prod = used[n][2]
        /\ LET before == Sentential(g, used)[n - 1]
           IN  \E i \in 1 .. Len(before) : IsLeftmost(g, before, i) /\ before[i] = used[n][1]
--------------------------------------------------------------------------------
(* The language, by length.                                                  *)

\* The words of at most n symbols in the concatenation of the sets langs[w[i]].
Concat(w, langs, n) ==
    LET behind[i \in 0 .. Len(w)] ==
            IF i = 0 THEN {<<>>}
            ELSE {u \in {s \o t : s \in langs[w[Len(w) + 1 - i]], t \in behind[i - 1]} : Len(u) <= n}
    IN  behind[Len(w)]

\* One round of derivations.
Derive(g, langs, n) ==
    [x \in Symbols(g) |->
        IF x \in g.terminals THEN {<<x>>}
        ELSE UNION {Concat(r.prod.rhs, langs, n) : r \in {r \in g.rules : r.lhs = x}}]

Closure(g, langs, n) ==
    LET closed[ls \in [Symbols(g) -> SUBSET Seq(g.terminals)]] ==
            LET more == Derive(g, ls, n)
            IN  IF more = ls THEN ls ELSE closed[more]
    IN  closed[langs]

\* The words of at most n terminals that each symbol derives.
Languages(g, n) == Closure(g, [x \in Symbols(g) |-> {}], n)

Language(g, n) == Languages(g, n)[g.start]

\* g with a fresh terminal that stands for one A left underived.
Marked(g, A) ==
    [g EXCEPT !.terminals = @ \cup {Mark},
              !.rules = @ \cup {[lhs |-> A, prod |-> Production(<<Mark>>)]}]

\* The terminals that can come right after A in what start eof derives.
FollowOf(g, A, n) ==
    {b \in g.terminals :
        \E u \in Language(Marked(g, A), n) :
            LET w == Append(u, g.eof)
            IN  \E i \in 1 .. Len(u) : w[i] = Mark /\ w[i + 1] = b}
================================================================================
