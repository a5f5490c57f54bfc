---------------------------- MODULE GrammarFactory ----------------------------
(***************************************************************************)
(* The combinators of include/grammar_factory.hpp, which put a grammar     *)
(* together from symbols, words and smaller grammars, and what an          *)
(* expression made of them means.                                          *)
(***************************************************************************)
EXTENDS ContextFree, SequencesExt

IntMax == 2147483647

\* setUpwardSpillThreshold(), setIgnoreEmpty() and setIgnoreSingleChild()
WithSpill(g, n) == [g EXCEPT !.data[g.start].upwardSpillThreshold = n]
WithIgnoring(g, ignoring) ==
    [g EXCEPT !.data[g.start].ignoreEmpty = ignoring, !.data[g.start].ignoreSingleChild = ignoring]

\* All of h goes into g; the data g has of a nonterminal stay.
Include(g, h) ==
    [g EXCEPT !.terminals = @ \cup h.terminals,
              !.nonTerminals = @ \cup h.nonTerminals,
              !.data = @ @@ h.data,
              !.rules = @ \cup h.rules]

\* A part is a production, of one symbol or of more, or a grammar, for which its
\* start symbol stands.
Phrase(p) == [phrase |-> p, grammar |-> {}]
Subgrammar(g) == [phrase |-> Production(<<g.start>>), grammar |-> {g}]

\* What each combinator does with a part before it uses its phrase.
Taken(g, part) ==
    IF part.grammar # {} THEN Include(g, CHOOSE h \in part.grammar : TRUE)
    ELSE [g EXCEPT !.terminals = @ \cup Range(part.phrase.rhs)]

\* Production::push_back()
Pushed(p, x) == [p EXCEPT !.rhs = Append(@, x), !.ignore = Append(@, FALSE)]

Word(start, eof, p, spill) ==
    LET g == WithRule(Taken(NewGrammar(start, eof), Phrase(p)), start, p)
    IN  IF spill THEN WithSpill(g, IntMax) ELSE g

Optional(start, eof, part) ==
    LET g == WithRule(Taken(NewGrammar(start, eof), part), start, part.phrase)
    IN  WithSpill(WithRule(g, start, Production(<<>>)), -1)

Sequence(start, eof, ignore, parts) ==
    LET g == FoldLeft(Taken, NewGrammar(start, eof), parts)
        symbols == [i \in DOMAIN parts |-> parts[i].phrase.rhs[1]]
    IN  WithSpill(WithRule(g, start, [Production(symbols) EXCEPT !.ignore = ignore]), -1)

Choice(start, eof, parts) ==
    FoldLeft(LAMBDA g, part : WithRule(Taken(g, part), start, part.phrase),
             NewGrammar(start, eof), parts)

\* A mistake RepeatChoice could make: a choice ends the repetition.
RepeatChoiceOnce(start, eof, spill, parts) ==
    WithSpill(WithRule(Choice(start, eof, parts), start, Production(<<>>)), spill)

RepeatChoice(start, eof, spill, parts) ==
    LET g == FoldLeft(LAMBDA h, part : WithRule(Taken(h, part), start, Pushed(part.phrase, start)),
                      NewGrammar(start, eof), parts)
    IN  WithSpill(WithRule(g, start, Production(<<>>)), spill)

Repeat(start, eof, part, spill) == RepeatChoice(start, eof, spill, <<part>>)

\* A grammar may use the start symbol of another as a terminal; put together,
\* such a symbol is no terminal any more.
Combine(gs) ==
    LET g == FoldLeft(Include, gs[1], Tail(gs))
    IN  [g EXCEPT !.terminals = @ \ g.nonTerminals]
--------------------------------------------------------------------------------
(* Expressions of combinators: records [op, name, parts, phrase, ignore,     *)
(* spill, ignoring]; a symbol or word is an expression with op "phrase".     *)

RECURSIVE Built(_, _)
Built(e, eof) ==
    LET part(x) == IF x.op = "phrase" THEN Phrase(x.phrase) ELSE Subgrammar(Built(x, eof))
        parts == [i \in DOMAIN e.parts |-> part(e.parts[i])]
        g == CASE e.op = "Word" -> Word(e.name, eof, e.phrase, e.spill > 0)
               [] e.op = "Optional" -> Optional(e.name, eof, parts[1])
               [] e.op = "Seq" -> Sequence(e.name, eof, e.ignore, parts)
               [] e.op = "Choice" -> Choice(e.name, eof, parts)
               [] e.op = "Repeat" -> Repeat(e.name, eof, parts[1], e.spill)
               [] e.op = "RepeatChoice" -> RepeatChoice(e.name, eof, e.spill, parts)
               [] e.op = "Combine" -> Combine([i \in DOMAIN e.parts |-> Built(e.parts[i], eof)])
    IN  WithIgnoring(g, e.ignoring)

UpTo(n, S) == {w \in S : Len(w) <= n}

\* Concatenations of at most n symbols with one word of each of the sets.
Chained(sets, n) ==
    FoldLeft(LAMBDA done, S : UpTo(n, {u \o v : u \in done, v \in S}), {<<>>}, sets)

RECURSIVE Repeated(_, _, _)
Repeated(S, done, n) ==
    LET more == done \cup UpTo(n, {u \o v : u \in done, v \in S})
    IN  IF more = done THEN done ELSE Repeated(S, more, n)

\* The words of at most n symbols that e describes, when the name A of another
\* expression stands for the words env[A].
RECURSIVE Meaning(_, _, _)
Meaning(e, env, n) ==
    LET of(x) == IF x \in DOMAIN env THEN env[x] ELSE {<<x>>}
        phrase == Chained([i \in DOMAIN e.phrase.rhs |-> of(e.phrase.rhs[i])], n)
        parts == [i \in DOMAIN e.parts |-> Meaning(e.parts[i], env, n)]
    IN  CASE e.op \in {"phrase", "Word"} -> phrase
          [] e.op = "Optional" -> parts[1] \cup {<<>>}
          [] e.op = "Seq" -> Chained(parts, n)
          [] e.op = "Choice" -> UNION Range(parts)
          [] e.op \in {"Repeat", "RepeatChoice"} -> Repeated(UNION Range(parts), {<<>>}, n)

\* The parts of a combination stand for each other by name, as little as they can.
RECURSIVE Solved(_, _, _)
Solved(es, env, n) ==
    LET more == [A \in DOMAIN env |->
                    UNION {Meaning(es[i], env, n) : i \in {i \in DOMAIN es : es[i].name = A}}]
    IN  IF more = env THEN env ELSE Solved(es, more, n)

Describes(e, n) ==
    IF e.op = "Combine"
    THEN Solved(e.parts, [A \in {e.parts[i].name : i \in DOMAIN e.parts} |-> {}], n)[e.parts[1].name]
    ELSE Meaning(e, [A \in {} |-> {}], n)
================================================================================
