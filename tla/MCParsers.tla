------------------------------- MODULE MCParsers -------------------------------
(* The grammars of the tests, reduced, and small ones that are hard; the      *)
(* combinators of tests/langdef.cpp and tests/language.cpp, reduced; texts     *)
(* for parseRegex().                                                           *)
EXTENDS GrammarTools
--------------------------------------------------------------------------------
(* Grammars.                                                                 *)

Rule(A, w) == [lhs |-> A, prod |-> Production(w)]

Data(spill, empty, single) ==
    [upwardSpillThreshold |-> spill, ignoreEmpty |-> empty, ignoreSingleChild |-> single]

MkGrammar(T, N, rules, S, spill, empty, single) ==
    [terminals |-> T \cup {"#"}, nonTerminals |-> N, rules |-> rules, start |-> S, eof |-> "#",
     data |-> [A \in N |-> Data(spill, empty, single)]]

--------------------------------------------------------------------------------
(* For a Parser: the grammars of tests/dpda_test.cpp, and a left recursive one. *)

\* S -> a S b | eps
Balanced == MkGrammar({"a", "b"}, {"S"}, {Rule("S", <<"a", "S", "b">>), Rule("S", <<>>)},
                      "S", -1, FALSE, FALSE)

\* e -> tE, E -> eps | +tE, t -> (e) | i
Sums == MkGrammar({"i", "+", "(", ")"}, {"e", "E", "t"},
    {Rule("e", <<"t", "E">>), Rule("E", <<>>),
     [lhs |-> "E", prod |-> [rhs |-> <<"+", "t", "E">>, ignore |-> <<TRUE, FALSE, FALSE>>,
                             replaceWith |-> "+"]],
     [lhs |-> "t", prod |-> [rhs |-> <<"(", "e", ")">>, ignore |-> <<TRUE, FALSE, TRUE>>,
                             replaceWith |-> Eps]],
     Rule("t", <<"i">>)},
    "e", -1, TRUE, TRUE)

\* S -> aABb, A -> c | eps, B -> d | eps
Optionals == MkGrammar({"a", "b", "c", "d"}, {"S", "A", "B"},
    {Rule("S", <<"a", "A", "B", "b">>), Rule("A", <<"c">>), Rule("A", <<>>),
     Rule("B", <<"d">>), Rule("B", <<>>)},
    "S", 1, FALSE, FALSE)

\* S -> AB, A -> eps, B -> eps
Empty == MkGrammar({"a"}, {"S", "A", "B"},
    {Rule("S", <<"A", "B">>), Rule("A", <<>>), Rule("B", <<>>)}, "S", -1, TRUE, TRUE)

\* S -> A | a, A -> a
Ambiguous == MkGrammar({"a"}, {"S", "A"},
    {Rule("S", <<"A">>), Rule("S", <<"a">>), Rule("A", <<"a">>)}, "S", -1, TRUE, TRUE)

\* S -> Sa | b
LeftRecursive == MkGrammar({"a", "b"}, {"S"}, {Rule("S", <<"S", "a">>), Rule("S", <<"b">>)},
                           "S", -1, TRUE, TRUE)

\* S -> a, with a terminal S: the constructor throws.
Overlapping == MkGrammar({"a", "S"}, {"S"}, {Rule("S", <<"a">>)}, "S", -1, TRUE, TRUE)

LLGrammars == {Balanced, Sums, Optionals, Empty, Ambiguous, LeftRecursive, Overlapping}
--------------------------------------------------------------------------------
(* For EarleyParser and generate(), which look at the symbols and rules alone: *)
(* the grammar of the first case of tests/earley_test.cpp, empty productions,  *)
(* left recursion, cycles.                                                     *)

SmallGrammar(T, N, rules, S) ==
    [terminals |-> T, nonTerminals |-> N, rules |-> rules, start |-> S, eof |-> "#"]

\* S -> aSb | eps
Nested == SmallGrammar({"a", "b"}, {"S"}, {Rule("S", <<"a", "S", "b">>), Rule("S", <<>>)}, "S")

\* S -> aSb | b
Unclosed == SmallGrammar({"a", "b"}, {"S"}, {Rule("S", <<"a", "S", "b">>), Rule("S", <<"b">>)}, "S")

\* S -> SbS | a: ambiguous and left recursive
SumsBySums == SmallGrammar({"a", "b"}, {"S"}, {Rule("S", <<"S", "b", "S">>), Rule("S", <<"a">>)}, "S")

\* S -> AASb | B, A -> eps | a, B -> A: hidden left recursion
Hidden == SmallGrammar({"a", "b"}, {"S", "A", "B"},
    {Rule("S", <<"A", "A", "S", "b">>), Rule("S", <<"B">>), Rule("A", <<>>), Rule("A", <<"a">>),
     Rule("B", <<"A">>)}, "S")

\* S -> S | T, T -> S | Ta | b, U -> U: cycles, and a symbol that derives nothing
Cyclic == SmallGrammar({"a", "b"}, {"S", "T", "U"},
    {Rule("S", <<"S">>), Rule("S", <<"T">>), Rule("T", <<"S">>), Rule("T", <<"T", "a">>),
     Rule("T", <<"b">>), Rule("S", <<"a", "U">>), Rule("U", <<"U">>)}, "S")

SmallGrammars == {Nested, Unclosed, SumsBySums, Hidden, Cyclic}
--------------------------------------------------------------------------------
(* Combinators.                                                              *)

Expression(op, name, parts) ==
    [op |-> op, name |-> name, parts |-> parts, phrase |-> Production(<<>>), ignore |-> <<>>, spill |-> -1,
     ignoring |-> TRUE]

Ph(rhs, ignore, replaceWith) ==
    [Expression("phrase", "", <<>>) EXCEPT
        !.phrase = [rhs |-> rhs, ignore |-> ignore, replaceWith |-> replaceWith]]
Sym(x) == Ph(<<x>>, <<FALSE>>, Eps)
WordE(name, rhs, ignore) == [Ph(rhs, ignore, Eps) EXCEPT !.op = "Word", !.name = name]

\* [1,1,1]
List ==
    [Expression("Seq", "S",
        <<Sym("["),
          Expression("Optional", "A",
            <<[Expression("Seq", "B",
                <<Sym("1"), [Expression("Repeat", "C", <<Ph(<<",", "1">>, <<TRUE, FALSE>>, Eps)>>)
                                EXCEPT !.spill = IntMax]>>)
                  EXCEPT !.ignore = <<FALSE, FALSE>>]>>),
          Sym("]")>>)
       EXCEPT !.ignore = <<TRUE, FALSE, TRUE>>]

\* Sums of identifiers and sums in parentheses.
Arithmetic ==
    Expression("Combine", "",
        <<[Expression("Seq", "sum",
             <<Sym("factor"), Expression("RepeatChoice", "sum'", <<Ph(<<"+", "factor">>, <<TRUE, FALSE>>, "+"),
                                                                  Ph(<<"-", "factor">>, <<TRUE, FALSE>>, "-")>>)>>)
             EXCEPT !.ignore = <<FALSE, FALSE>>],
          Expression("Choice", "factor",
             <<Ph(<<"id">>, <<FALSE>>, Eps), WordE("(sum)", <<"(", "sum", ")">>, <<TRUE, FALSE, TRUE>>)>>)>>)

\* Statements, empty ones among them, and scopes.
Program ==
    Expression("Combine", "",
        <<[Expression("Repeat", "program", <<Expression("Choice", "program'", <<Sym("statement"), Sym("scope")>>)>>)
             EXCEPT !.spill = IntMax],
          [Expression("Seq", "statement", <<Expression("Optional", "statement'", <<Sym("id")>>), Sym(";")>>)
             EXCEPT !.ignore = <<FALSE, TRUE>>],
          [WordE("scope", <<"{", "program", "}">>, <<TRUE, FALSE, TRUE>>) EXCEPT !.ignoring = FALSE]>>)

MCExpressions == {List, Arithmetic, Program}
--------------------------------------------------------------------------------
(* Texts.                                                                    *)

\* What the identifier at the i-th place is called.
NameAt(i) == << <<"a">>, <<Quote>>, <<"b", Backslash>>, <<>>, <<" ", "+">>, <<"c">>, <<"d">> >>[i]

Lexemes(values) ==
    [i \in DOMAIN values |-> Token(values[i], IF values[i] = "id" THEN NameAt(i) ELSE <<>>)]

Escaped(w) == FlattenSeq([i \in DOMAIN w |-> IF w[i] \in {Quote, Backslash} THEN <<Backslash, w[i]>> ELSE <<w[i]>>])

\* A way to write the lexemes down, with a blank before some.
Spelled(lexemes) ==
    FlattenSeq([i \in DOMAIN lexemes |->
        LET x == IF lexemes[i].value = "id" THEN Name(Escaped(lexemes[i].name)) ELSE <<lexemes[i].value>>
        IN  IF i % 2 = 0 THEN <<" ">> \o x ELSE x])

Spelling(values) == [text |-> Spelled(Lexemes(values)), means |-> Reading(Lexemes(values))]

Sequences ==
    WordsUpTo({"id", "null", "<", ",", ">", "(", ")", "+", ".", "*", "!"}, 2)
      \cup WordsUpTo({"id", "(", ")", "*"}, 4)
      \cup {<<"<", "id", ",", "id", x>> : x \in {">", ","}}
      \cup {<<"id", x, "id", y, "id", z, "id">> : x, y, z \in {"+", "."}}
      \cup {<<"(", "id", x, "id", y, "id", ")">> \o z : x, y \in {"+", "."}, z \in {<<"*">>, <<"!">>}}
      \cup {<<"id", x, "(", "id", y, "id", ")">> : x, y \in {"+", "."}}

Leaf1 == {TupleRegex(<<"a">>, <<>>), TupleRegex(<<>>, <<"b">>)}
Wider(S) ==
    S \cup {Regex("*", <<r>>) : r \in S}
      \cup UNION {{Regex(op, <<l, r>>), Regex(op, <<r, l>>)} : op \in {"+", "."}, l \in S, r \in Leaf1}

Alphabet == <<"a", "+", "b">>
IdentityMeans == Join("+", [i \in DOMAIN Alphabet |-> TupleRegex(<<Alphabet[i]>>, <<Alphabet[i]>>)])

MCTexts ==
    {Spelling(values) : values \in Sequences}
      \cup {[text |-> Printed(r), means |-> Flat(r)] : r \in Wider(Wider(Leaf1))}
      \cup {[text |-> Identity(Alphabet), means |-> IdentityMeans],
            [text |-> OptionalReplace(<<"null">>, Alphabet),
             means |-> Join(".", <<Regex("*", <<IdentityMeans>>),
                                   Regex("*", <<Join(".", <<TupleRegex(<<"0">>, <<>>), Regex("*", <<IdentityMeans>>)>>)>>)>>)],
            [text |-> <<Quote, "a">>, means |-> TupleRegex(<<"a">>, <<>>)],
            [text |-> <<Quote, "a", Backslash>>, means |-> TupleRegex(<<"a">>, <<>>)],
            [text |-> <<"a">>, means |-> Wrong]}
================================================================================
